--------------------------- MODULE Access_proofs ---------------------------
(***************************************************************************)
(* What Access and its LoginGuard guarantee for all names and passwords,   *)
(* for every length of the first-run window, all limits and pauses, and    *)
(* any number of attempts that overlap.                                    *)
(***************************************************************************)
EXTENDS Access, SequenceTheorems, TLAPS

-----------------------------------------------------------------------------
(* Operators of the guard.                                                 *)

\* Inserting into a sequence moves up what comes after.
LEMMA InsertFacts ==
  ASSUME NEW S, NEW s \in Seq(S), NEW k \in 0..Len(s), NEW e \in S
  PROVE  /\ InsertAt(s, k + 1, e) \in Seq(S)
         /\ Len(InsertAt(s, k + 1, e)) = Len(s) + 1
         /\ \A i \in 1..k : InsertAt(s, k + 1, e)[i] = s[i]
         /\ InsertAt(s, k + 1, e)[k + 1] = e
         /\ \A i \in (k + 2)..(Len(s) + 1) : InsertAt(s, k + 1, e)[i] = s[i - 1]
<1> DEFINE a == SubSeq(s, 1, k)
           b == SubSeq(s, k + 1, Len(s))
           ae == a \o <<e>>
<1>1. \A i \in 1..Len(s) : s[i] \in S
  BY ElementOfSeq
<1>2. a \in Seq(S) /\ Len(a) = k /\ \A i \in 1..k : a[i] = s[i]
  BY <1>1, SubSeqProperties, Z3
<1>3. /\ b \in Seq(S) /\ Len(b) = Len(s) - k
      /\ \A i \in 1..(Len(s) - k) : b[i] = s[k + i]
  BY <1>1, SubSeqProperties, Z3
<1>4. <<e>> \in Seq(S) /\ Len(<<e>>) = 1 /\ <<e>>[1] = e
  OBVIOUS
<1> HIDE DEF a, b
<1>5. /\ ae \in Seq(S) /\ Len(ae) = k + 1
      /\ \A i \in 1..k : ae[i] = a[i]
      /\ ae[k + 1] = e
  BY <1>2, <1>4, ConcatProperties
<1> HIDE DEF ae
<1>6. /\ ae \o b \in Seq(S) /\ Len(ae \o b) = Len(s) + 1
      /\ \A i \in 1..(k + 1) : (ae \o b)[i] = ae[i]
      /\ \A i \in (k + 2)..(Len(s) + 1) : (ae \o b)[i] = b[i - (k + 1)]
  BY <1>3, <1>5, ConcatProperties
<1>7. InsertAt(s, k + 1, e) = ae \o b
  <2>1. (k + 1) - 1 = k
    OBVIOUS
  <2> QED BY <2>1, Zenon DEF InsertAt, ae, a, b
<1>8. /\ \A i \in 1..k : (ae \o b)[i] = s[i]
      /\ (ae \o b)[k + 1] = e
  BY <1>2, <1>5, <1>6
<1>9. ASSUME NEW i \in (k + 2)..(Len(s) + 1)
      PROVE  (ae \o b)[i] = s[i - 1]
  <2>1. i - (k + 1) \in 1..(Len(s) - k) /\ k + (i - (k + 1)) = i - 1
    BY LenProperties
  <2> QED BY <1>3, <1>6, <2>1
<1> QED BY <1>6, <1>7, <1>8, <1>9

\* What is assumed of the pauses, for all of them.
LEMMA PausesFacts ==
  /\ Len(Pauses) \in Nat \ {0}
  /\ \A i \in 1..Len(Pauses) : Pauses[i] \in Nat \ {0} /\ Pauses[i] < LockTime
  /\ LockTime \in Nat \ {0}
<1>1. Len(Pauses) \in Nat \ {0}
  BY PausesAssumption
<1>2. \A i \in 1..Len(Pauses) : Pauses[i] \in Nat \ {0}
  BY PausesAssumption, ElementOfSeq
<1>3. Pauses[Len(Pauses)] \in Nat \ {0} /\ Pauses[Len(Pauses)] < LockTime
  BY <1>1, <1>2, PausesAssumption
<1>4. \A i \in 1..Len(Pauses) : Pauses[i] <= Pauses[Len(Pauses)]
  BY <1>1, PausesAssumption
<1> QED BY <1>1, <1>2, <1>3, <1>4, LimitsAssumption

\* An attempt that fails later never sleeps less, and none outlasts a lock.
LEMMA PauseFacts ==
  /\ \A c \in Nat : /\ Pause(c) \in Nat /\ Pause(c) < LockTime
                    /\ Pause(c) > 0 <=> c >= SoftFails
  /\ \A c, d \in Nat : c <= d => Pause(c) <= Pause(d)
<1> DEFINE At(c) == Smaller(c - SoftFails + 1, Len(Pauses))
<1>1. ASSUME NEW c \in Nat, c >= SoftFails
      PROVE  At(c) \in 1..Len(Pauses) /\ Pause(c) = Pauses[At(c)]
  BY <1>1, PausesFacts, LimitsAssumption DEF Pause, Smaller
<1>2. ASSUME NEW c \in Nat, ~(c >= SoftFails)
      PROVE  Pause(c) = 0
  BY <1>2, LimitsAssumption DEF Pause
<1>3. ASSUME NEW c \in Nat, NEW d \in Nat, c <= d, c >= SoftFails
      PROVE  At(c) <= At(d)
  BY <1>3, PausesFacts, LimitsAssumption DEF Smaller
<1> HIDE DEF At
<1>4. ASSUME NEW c \in Nat
      PROVE  /\ Pause(c) \in Nat /\ Pause(c) < LockTime
             /\ Pause(c) > 0 <=> c >= SoftFails
  BY <1>1, <1>2, PausesFacts
<1>5. ASSUME NEW c \in Nat, NEW d \in Nat, c <= d
      PROVE  Pause(c) <= Pause(d)
  <2>1. CASE c >= SoftFails
    <3>1. d >= SoftFails /\ At(c) <= At(d)
      BY <1>3, <1>5, <2>1, LimitsAssumption
    <3> QED BY <1>1, <2>1, <3>1, PausesAssumption
  <2>2. CASE ~(c >= SoftFails)
    BY <1>2, <1>4, <2>2
  <2> QED BY <2>1, <2>2
<1> QED BY <1>4, <1>5
-----------------------------------------------------------------------------
(* The invariant of the guard.                                             *)

\* The queue is in the order of the deadlines, and nobody in it sleeps longer
\* than the failure it is.
SleepersInOrder ==
  /\ \A i, j \in 1..Len(sleeping) : i <= j => sleeping[i].left <= sleeping[j].left
  /\ \A i \in 1..Len(sleeping) :
       /\ sleeping[i].count >= SoftFails
       /\ sleeping[i].left <= Pause(sleeping[i].count)
  /\ Len(sleeping) <= MaxOverlap

\* The first m have read the counter before its last change, the others after.
Levels(m) ==
  /\ \A i \in 1..m : sleeping[i].count = count
  /\ \A i \in (m + 1)..Len(sleeping) : sleeping[i].count = count + 1
  /\ streak <= MaxOverlap * count + (Len(sleeping) - m)
  /\ streak >= count
  /\ m < Len(sleeping) => streak >= count + 1

\* Those who sleep while the panel is locked will lock it again, in time.
Relocking ==
  /\ streak = 0 /\ count = 0
  /\ \A i \in 1..Len(sleeping) :
       sleeping[i].count = HardLock /\ sleeping[i].left < lock

\* What the queue is like as long as no success has overtaken it.
QueueIsTidy ==
  tidy => IF lock = 0 THEN \E m \in 0..Len(sleeping) : Levels(m) ELSE Relocking

GuardInv == GuardTypeOK /\ SleepersInOrder /\ QueueIsTidy

\* Products that the bounds on the history are made of.
LEMMA Products ==
  /\ MaxStreak \in Nat
  /\ \A c \in Nat : MaxOverlap * c \in Nat /\ MaxOverlap * (c + 1) = MaxOverlap * c + MaxOverlap
  /\ \A c \in 0..(HardLock - 1) : MaxOverlap * c + MaxOverlap < MaxStreak
<1>1. \A c \in Nat : MaxOverlap * c \in Nat /\ MaxOverlap * (c + 1) = MaxOverlap * c + MaxOverlap
  BY LimitsAssumption
<1>2. MaxStreak = MaxOverlap * HardLock + 1 /\ MaxStreak \in Nat
  BY <1>1, LimitsAssumption DEF MaxStreak
<1>3. ASSUME NEW c \in 0..(HardLock - 1)
      PROVE  MaxOverlap * (c + 1) <= MaxOverlap * HardLock
  <2> DEFINE d == HardLock - (c + 1)
  <2>1. d \in Nat /\ c + 1 \in Nat /\ MaxOverlap \in Nat /\ HardLock = (c + 1) + d
    BY LimitsAssumption
  <2> HIDE DEF d
  <2>2. MaxOverlap * d \in Nat /\ MaxOverlap * (c + 1) \in Nat
    BY <1>1, <2>1
  <2>3. MaxOverlap * ((c + 1) + d) = MaxOverlap * (c + 1) + MaxOverlap * d
    BY <2>1
  <2>4. MaxOverlap * HardLock = MaxOverlap * (c + 1) + MaxOverlap * d
    BY <2>1, <2>3
  <2> DEFINE a == MaxOverlap * (c + 1)
             b == MaxOverlap * d
             h == MaxOverlap * HardLock
  <2>5. a \in Nat /\ b \in Nat /\ h = a + b
    BY <2>2, <2>4
  <2> HIDE DEF a, b, h
  <2>6. a <= h
    BY <2>5
  <2> QED BY <2>6 DEF a, h
<1>4. ASSUME NEW c \in 0..(HardLock - 1)
      PROVE  MaxOverlap * c + MaxOverlap < MaxStreak
  <2> DEFINE a == MaxOverlap * (c + 1)
             h == MaxOverlap * HardLock
  <2>1. a \in Nat /\ h \in Nat /\ a = MaxOverlap * c + MaxOverlap
    BY <1>1, LimitsAssumption
  <2>2. a <= h /\ MaxStreak = h + 1
    BY <1>2, <1>3
  <2> HIDE DEF a, h
  <2>3. a < MaxStreak
    BY <2>1, <2>2
  <2> QED BY <2>1, <2>3
<1> QED BY <1>1, <1>2, <1>4

\* In a new panel nobody sleeps.
LEMMA GuardStarts == GuardInit => GuardInv
<1> SUFFICES ASSUME GuardInit PROVE GuardInv
  OBVIOUS
<1>1. sleeping = <<>> /\ Len(sleeping) = 0 /\ sleeping \in Seq(Attempts)
  BY DEF GuardInit
<1>2. GuardTypeOK
  BY <1>1, Products, LimitsAssumption DEF GuardInit, GuardTypeOK
<1>3. SleepersInOrder
  BY <1>1, LimitsAssumption DEF SleepersInOrder
<1>4. Levels(0)
  BY <1>1, Products, LimitsAssumption DEF Levels, GuardInit
<1>5. QueueIsTidy
  BY <1>1, <1>4 DEF QueueIsTidy, GuardInit
<1> QED BY <1>2, <1>3, <1>5 DEF GuardInv

\* Elements of the queue have a count and a rest.
LEMMA SleeperFacts ==
  ASSUME GuardTypeOK
  PROVE  /\ Len(sleeping) \in Nat
         /\ \A i \in 1..Len(sleeping) :
              /\ sleeping[i] \in Attempts
              /\ sleeping[i].count \in 1..HardLock
              /\ sleeping[i].left \in 0..LockTime
<1>1. sleeping \in Seq(Attempts)
  BY DEF GuardTypeOK
<1>2. \A i \in 1..Len(sleeping) : sleeping[i] \in Attempts
  BY <1>1, ElementOfSeq
<1>3. Len(sleeping) \in Nat
  BY <1>1, LenProperties
<1> QED BY <1>2, <1>3 DEF Attempts

\* An attempt that goes to sleep keeps the queue in order.  With a pause that
\* no other exceeds it goes to the end.
LEMMA FallAsleepKeepsOrder ==
  ASSUME GuardTypeOK, SleepersInOrder, NEW c \in 1..HardLock, c >= SoftFails,
         Len(sleeping) < MaxOverlap,
         FallAsleep([count |-> c, left |-> Pause(c)])
  PROVE  /\ sleeping' \in Seq(Attempts)
         /\ SleepersInOrder'
         /\ Len(sleeping') = Len(sleeping) + 1
         /\ (\A i \in 1..Len(sleeping) : sleeping[i].count <= c)
              => /\ \A i \in 1..Len(sleeping) : sleeping'[i] = sleeping[i]
                 /\ sleeping'[Len(sleeping) + 1].count = c
<1> DEFINE e == [count |-> c, left |-> Pause(c)]
<1>1. c \in Nat /\ Pause(c) \in Nat /\ Pause(c) < LockTime
  BY PauseFacts, LimitsAssumption
<1>2. e \in Attempts /\ e.count = c /\ e.left = Pause(c)
  BY <1>1, LimitsAssumption DEF Attempts
<1>3. PICK k \in 0..Len(sleeping) :
        /\ \A i \in 1..k : sleeping[i].left <= e.left
        /\ \A i \in (k + 1)..Len(sleeping) : sleeping[i].left > e.left
        /\ sleeping' = InsertAt(sleeping, k + 1, e)
  BY DEF FallAsleep
<1> HIDE DEF e
<1>4. sleeping \in Seq(Attempts)
  BY DEF GuardTypeOK
<1>5. /\ sleeping' \in Seq(Attempts)
      /\ Len(sleeping') = Len(sleeping) + 1
      /\ \A i \in 1..k : sleeping'[i] = sleeping[i]
      /\ sleeping'[k + 1] = e
      /\ \A i \in (k + 2)..(Len(sleeping) + 1) : sleeping'[i] = sleeping[i - 1]
  <2>1. e \in Attempts /\ sleeping' = InsertAt(sleeping, k + 1, e)
    BY <1>2, <1>3
  <2>2. InsertAt(sleeping, k + 1, e) \in Seq(Attempts)
    BY <1>4, <2>1, InsertFacts
  <2>3. Len(InsertAt(sleeping, k + 1, e)) = Len(sleeping) + 1
    BY <1>4, <2>1, InsertFacts
  <2>4. InsertAt(sleeping, k + 1, e)[k + 1] = e
    BY <1>4, <2>1, InsertFacts
  <2>5. \A i \in 1..k : InsertAt(sleeping, k + 1, e)[i] = sleeping[i]
    BY <1>4, <2>1, InsertFacts
  <2>6. \A i \in (k + 2)..(Len(sleeping) + 1) :
          InsertAt(sleeping, k + 1, e)[i] = sleeping[i - 1]
    BY <1>4, <2>1, InsertFacts
  <2> QED BY <2>1, <2>2, <2>3, <2>4, <2>5, <2>6
<1>6. /\ Len(sleeping) \in Nat
      /\ \A i \in 1..Len(sleeping) : sleeping[i].count \in Nat /\ sleeping[i].left \in Nat
  BY SleeperFacts
<1>7. \A i \in 1..Len(sleeping') :
        \/ i \in 1..k /\ sleeping'[i] = sleeping[i]
        \/ i = k + 1 /\ sleeping'[i] = e
        \/ i \in (k + 2)..(Len(sleeping) + 1) /\ sleeping'[i] = sleeping[i - 1]
  BY <1>5, <1>6
<1>8. ASSUME NEW i \in 1..Len(sleeping'), NEW j \in 1..Len(sleeping'), i <= j
      PROVE  sleeping'[i].left <= sleeping'[j].left
  <2>1. i \in Nat /\ j \in Nat /\ k \in Nat
    BY <1>5, <1>6
  <2>2. CASE j <= k
    <3>1. /\ i \in 1..Len(sleeping) /\ j \in 1..Len(sleeping)
          /\ sleeping'[i] = sleeping[i] /\ sleeping'[j] = sleeping[j]
      BY <1>5, <1>6, <1>8, <2>1, <2>2
    <3> QED BY <1>8, <3>1 DEF SleepersInOrder
  <2>3. CASE i <= k /\ j = k + 1
    <3>1. /\ i \in 1..k /\ sleeping'[i] = sleeping[i] /\ sleeping'[j] = e
      BY <1>5, <2>1, <2>3
    <3> QED BY <1>3, <3>1
  <2>4. CASE i <= k /\ j > k + 1
    <3>1. /\ i \in 1..Len(sleeping) /\ j - 1 \in 1..Len(sleeping) /\ i <= j - 1
          /\ sleeping'[i] = sleeping[i] /\ sleeping'[j] = sleeping[j - 1]
      BY <1>5, <1>6, <2>1, <2>4
    <3> QED BY <3>1 DEF SleepersInOrder
  <2>5. CASE i = k + 1 /\ j = k + 1
    <3>1. sleeping'[i] = e /\ sleeping'[j] = e
      BY <1>5, <2>5
    <3> QED BY <1>1, <1>2, <3>1
  <2>6. CASE i = k + 1 /\ j > k + 1
    <3>1. /\ j - 1 \in (k + 1)..Len(sleeping)
          /\ sleeping'[i] = e /\ sleeping'[j] = sleeping[j - 1]
      BY <1>5, <1>6, <2>1, <2>6
    <3>2. sleeping[j - 1].left > e.left /\ sleeping[j - 1].left \in Nat
      BY <1>3, <1>6, <3>1
    <3> QED BY <1>1, <1>2, <3>1, <3>2
  <2>7. CASE i > k + 1
    <3>1. /\ i - 1 \in 1..Len(sleeping) /\ j - 1 \in 1..Len(sleeping)
          /\ i - 1 <= j - 1
          /\ sleeping'[i] = sleeping[i - 1] /\ sleeping'[j] = sleeping[j - 1]
      BY <1>5, <1>6, <1>8, <2>1, <2>7
    <3> QED BY <3>1 DEF SleepersInOrder
  <2> QED BY <1>8, <2>1, <2>2, <2>3, <2>4, <2>5, <2>6, <2>7
<1>9. ASSUME NEW i \in 1..Len(sleeping')
      PROVE  /\ sleeping'[i].count >= SoftFails
             /\ sleeping'[i].left <= Pause(sleeping'[i].count)
  <2>1. CASE sleeping'[i] = e
    BY <1>1, <1>2, <2>1
  <2>2. CASE \E j \in 1..Len(sleeping) : sleeping'[i] = sleeping[j]
    BY <2>2 DEF SleepersInOrder
  <2>3. i - 1 \in 1..Len(sleeping) \/ i \in 1..Len(sleeping) \/ i = k + 1
    BY <1>5, <1>6
  <2> QED BY <1>6, <1>7, <2>1, <2>2, <2>3
<1>10. SleepersInOrder'
  <2>1. Len(sleeping') <= MaxOverlap
    BY <1>5, <1>6, LimitsAssumption
  <2> QED BY <1>8, <1>9, <2>1 DEF SleepersInOrder
<1>11. ASSUME \A i \in 1..Len(sleeping) : sleeping[i].count <= c
       PROVE  k = Len(sleeping)
  <2>1. \A i \in 1..Len(sleeping) : sleeping[i].left <= e.left
    <3>1. TAKE i \in 1..Len(sleeping)
    <3>2. Pause(sleeping[i].count) <= Pause(c) /\ Pause(sleeping[i].count) \in Nat
      BY <1>1, <1>6, <1>11, PauseFacts
    <3> QED BY <1>1, <1>2, <1>6, <3>2 DEF SleepersInOrder
  <2>2. ASSUME k # Len(sleeping) PROVE FALSE
    <3>1. k + 1 \in 1..Len(sleeping) /\ k + 1 \in (k + 1)..Len(sleeping)
      BY <1>6, <2>2
    <3>2. sleeping[k + 1].left > e.left /\ sleeping[k + 1].left <= e.left
      BY <1>3, <2>1, <3>1
    <3> QED BY <1>1, <1>2, <1>6, <3>1, <3>2
  <2> QED BY <2>2
<1> QED BY <1>2, <1>5, <1>6, <1>10, <1>11

\* A failed attempt keeps the invariant.
LEMMA FailKeepsInv ==
  ASSUME GuardInv, Fail
  PROVE  GuardInv'
<1> USE DEF GuardInv
<1>0. /\ count \in 0..(HardLock - 1) /\ count + 1 \in 1..HardLock /\ lock = 0
      /\ streak \in Nat /\ tidy \in BOOLEAN /\ sleeping \in Seq(Attempts)
      /\ HardLock \in Nat /\ LockTime \in Nat
  BY LimitsAssumption, Products DEF Fail, GuardTypeOK
<1>1. streak' \in 0..MaxStreak /\ tidy' = tidy
      /\ (streak < MaxStreak => streak' = streak + 1)
  BY <1>0, Products DEF Fail, CountFailure, Smaller
<1>2. CASE Pause(count + 1) = 0
  <2>1. count + 1 < SoftFails
    BY <1>0, <1>2, PauseFacts, LimitsAssumption
  <2>2. UNCHANGED sleeping /\ count' = count + 1 /\ lock' = 0
    BY <1>0, <1>2, <2>1, LimitsAssumption DEF Fail, CountFailure, Note
  <2>3. count' \in 0..(HardLock - 1)
    BY <1>0, <2>1, <2>2, LimitsAssumption
  <2>4. GuardTypeOK'
    BY <1>0, <1>1, <2>2, <2>3 DEF GuardTypeOK
  <2>5. SleepersInOrder'
    BY <2>2 DEF SleepersInOrder
  <2>6. ASSUME tidy PROVE Levels(0)'
    <3>1. PICK m \in 0..Len(sleeping) : Levels(m)
      BY <1>0, <2>6 DEF QueueIsTidy
    <3>2. ASSUME NEW j \in 1..Len(sleeping) PROVE FALSE
      <4>1. sleeping[j].count = count \/ sleeping[j].count = count + 1
        BY <3>1, SleeperFacts DEF Levels
      <4>2. sleeping[j].count >= SoftFails
        BY DEF SleepersInOrder
      <4> QED BY <1>0, <2>1, <4>1, <4>2, LimitsAssumption
    <3>3. Len(sleeping) = 0
      BY <3>2, SleeperFacts
    <3>4. streak <= MaxOverlap * count /\ streak >= count
      BY <3>1, <3>3, <1>0, Products DEF Levels
    <3>5. /\ MaxOverlap * count \in Nat
          /\ MaxOverlap * (count + 1) = MaxOverlap * count + MaxOverlap
          /\ MaxOverlap * count + MaxOverlap < MaxStreak
          /\ MaxOverlap \in Nat \ {0} /\ MaxStreak \in Nat
      BY <1>0, Products, LimitsAssumption
    <3>6. streak' = streak + 1
      BY <1>0, <1>1, <3>4, <3>5
    <3>7. streak' <= MaxOverlap * count' /\ streak' >= count'
      BY <1>0, <2>2, <3>4, <3>5, <3>6
    <3> QED BY <2>2, <3>3, <3>7, <3>5, <1>0 DEF Levels
  <2>7. QueueIsTidy'
    BY <1>1, <2>2, <2>6, SleeperFacts DEF QueueIsTidy
  <2> QED BY <2>4, <2>5, <2>7
<1>3. CASE Pause(count + 1) # 0
  <2> DEFINE c == count + 1
  <2>1. c >= SoftFails /\ c \in 1..HardLock
    BY <1>0, <1>3, PauseFacts
  <2>2. /\ Len(sleeping) < MaxOverlap
        /\ FallAsleep([count |-> c, left |-> Pause(c)])
        /\ UNCHANGED <<count, lock>>
    BY <1>3 DEF Fail, CountFailure
  <2>3. /\ sleeping' \in Seq(Attempts)
        /\ SleepersInOrder'
        /\ Len(sleeping') = Len(sleeping) + 1
        /\ (\A i \in 1..Len(sleeping) : sleeping[i].count <= c)
             => /\ \A i \in 1..Len(sleeping) : sleeping'[i] = sleeping[i]
                /\ sleeping'[Len(sleeping) + 1].count = c
    BY <2>1, <2>2, FallAsleepKeepsOrder
  <2>4. GuardTypeOK'
    BY <1>0, <1>1, <2>2, <2>3 DEF GuardTypeOK
  <2>5. ASSUME tidy PROVE \E m \in 0..Len(sleeping') : Levels(m)'
    <3>1. PICK m \in 0..Len(sleeping) : Levels(m)
      BY <1>0, <2>5 DEF QueueIsTidy
    <3>2. \A i \in 1..Len(sleeping) :
            sleeping[i].count = count \/ sleeping[i].count = count + 1
      BY <3>1, SleeperFacts DEF Levels
    <3>3. /\ \A i \in 1..Len(sleeping) : sleeping'[i] = sleeping[i]
          /\ sleeping'[Len(sleeping) + 1].count = c
      <4>1. \A i \in 1..Len(sleeping) : sleeping[i].count <= c
        BY <1>0, <3>2
      <4> QED BY <2>3, <4>1
    <3>4. /\ Len(sleeping) \in Nat /\ m \in 0..Len(sleeping')
      BY <2>3, SleeperFacts
    <3>5. \A i \in 1..m : sleeping'[i].count = count'
      BY <2>2, <3>1, <3>3, <3>4 DEF Levels
    <3>6. \A i \in (m + 1)..Len(sleeping') : sleeping'[i].count = count' + 1
      BY <2>2, <2>3, <3>1, <3>3, <3>4 DEF Levels
    <3>7. streak <= MaxOverlap * count + (Len(sleeping) - m) /\ streak >= count
      BY <3>1 DEF Levels
    <3>8. /\ MaxOverlap * count \in Nat
          /\ MaxOverlap * count + MaxOverlap < MaxStreak
          /\ MaxOverlap \in Nat \ {0} /\ MaxStreak \in Nat
      BY <1>0, Products, LimitsAssumption
    <3>9. streak' = streak + 1
      BY <1>0, <1>1, <2>2, <3>4, <3>7, <3>8
    <3>10. /\ streak' <= MaxOverlap * count' + (Len(sleeping') - m)
           /\ streak' >= count' + 1
      BY <1>0, <2>2, <2>3, <3>4, <3>7, <3>8, <3>9
    <3>11. streak' >= count' /\ (m < Len(sleeping') => streak' >= count' + 1)
      BY <1>0, <2>2, <3>9, <3>10
    <3>12. Levels(m)'
      BY <3>5, <3>6, <3>10, <3>11 DEF Levels
    <3> QED BY <3>4, <3>12
  <2>6. QueueIsTidy'
    BY <1>0, <1>1, <2>2, <2>5 DEF QueueIsTidy
  <2> QED BY <2>3, <2>4, <2>6
<1> QED BY <1>2, <1>3

\* So does a success, which ends the count.
LEMMA SucceedKeepsInv ==
  ASSUME GuardInv, Succeed
  PROVE  GuardInv'
<1> USE DEF GuardInv
<1>1. /\ count' = 0 /\ lock' = 0 /\ streak' = 0 /\ tidy' = (sleeping = <<>>)
      /\ UNCHANGED sleeping
  BY DEF Succeed
<1>2. GuardTypeOK'
  BY <1>1, Products, LimitsAssumption DEF GuardTypeOK
<1>3. SleepersInOrder'
  BY <1>1 DEF SleepersInOrder
<1>4. ASSUME tidy' PROVE Levels(0)' /\ 0 \in 0..Len(sleeping')
  <2>1. Len(sleeping') = 0
    BY <1>1, <1>4
  <2>2. MaxOverlap * 0 \in Nat
    BY Products
  <2> QED BY <1>1, <2>1, <2>2 DEF Levels
<1>5. QueueIsTidy'
  BY <1>1, <1>4 DEF QueueIsTidy
<1> QED BY <1>2, <1>3, <1>5

\* What is left of the queue when the first has woken.
LEMMA TailFacts ==
  ASSUME GuardTypeOK, SleepersInOrder, sleeping # <<>>, sleeping' = Tail(sleeping)
  PROVE  /\ Len(sleeping) \in Nat \ {0} /\ Head(sleeping) = sleeping[1]
         /\ Head(sleeping) \in Attempts
         /\ sleeping' \in Seq(Attempts) /\ Len(sleeping') = Len(sleeping) - 1
         /\ \A i \in 1..Len(sleeping') : sleeping'[i] = sleeping[i + 1]
         /\ SleepersInOrder'
<1>1. sleeping \in Seq(Attempts)
  BY DEF GuardTypeOK
<1>2. /\ Len(sleeping) \in Nat \ {0} /\ Head(sleeping) = sleeping[1]
      /\ Head(sleeping) \in Attempts
  BY <1>1, SleeperFacts
<1>3. /\ sleeping' \in Seq(Attempts) /\ Len(sleeping') = Len(sleeping) - 1
      /\ \A i \in 1..Len(sleeping') : sleeping'[i] = sleeping[i + 1]
  BY <1>1, HeadTailProperties
<1>4. ASSUME NEW i \in 1..Len(sleeping')
      PROVE  i + 1 \in 1..Len(sleeping) /\ sleeping'[i] = sleeping[i + 1]
  BY <1>2, <1>3
<1>5. ASSUME NEW i \in 1..Len(sleeping'), NEW j \in 1..Len(sleeping'), i <= j
      PROVE  sleeping'[i].left <= sleeping'[j].left
  <2>1. i + 1 <= j + 1
    BY <1>3, <1>5
  <2> QED BY <1>4, <2>1 DEF SleepersInOrder
<1>6. ASSUME NEW i \in 1..Len(sleeping')
      PROVE  /\ sleeping'[i].count >= SoftFails
             /\ sleeping'[i].left <= Pause(sleeping'[i].count)
  BY <1>4 DEF SleepersInOrder
<1>7. Len(sleeping') <= MaxOverlap
  BY <1>2, <1>3, LimitsAssumption DEF SleepersInOrder
<1> QED BY <1>2, <1>3, <1>5, <1>6, <1>7 DEF SleepersInOrder

\* An attempt that wakes keeps the invariant, also when it locks.
LEMMA WakeKeepsInv ==
  ASSUME GuardInv, Wake
  PROVE  GuardInv'
<1> USE DEF GuardInv
<1> DEFINE c == Head(sleeping).count
<1>1. /\ sleeping # <<>> /\ sleeping' = Tail(sleeping) /\ Note(c)
      /\ streak' = IF lock' > 0 THEN 0 ELSE streak
      /\ tidy' = (tidy \/ (lock' > 0 /\ sleeping' = <<>>))
  BY DEF Wake
<1>2. /\ Len(sleeping) \in Nat \ {0} /\ c = sleeping[1].count
      /\ c \in 1..HardLock
      /\ sleeping' \in Seq(Attempts) /\ Len(sleeping') = Len(sleeping) - 1
      /\ \A i \in 1..Len(sleeping') : sleeping'[i] = sleeping[i + 1]
      /\ SleepersInOrder'
  BY <1>1, TailFacts DEF Attempts
<1>3. /\ count \in 0..(HardLock - 1) /\ lock \in 0..LockTime
      /\ streak \in 0..MaxStreak /\ tidy \in BOOLEAN /\ MaxStreak \in Nat
      /\ HardLock \in Nat \ {0} /\ LockTime \in Nat \ {0} /\ MaxOverlap \in Nat \ {0}
  BY Products, PausesFacts, LimitsAssumption DEF GuardTypeOK
<1>4. /\ c = HardLock => count' = 0 /\ lock' = LockTime /\ streak' = 0
      /\ c # HardLock => count' = c /\ lock' = 0 /\ streak' = streak
  BY <1>1, <1>2, <1>3 DEF Note
<1> HIDE DEF c
<1>5. GuardTypeOK'
  <2>1. count' \in 0..(HardLock - 1) /\ lock' \in 0..LockTime /\ streak' \in 0..MaxStreak
    BY <1>2, <1>3, <1>4
  <2>2. tidy' \in BOOLEAN
    BY <1>1
  <2> QED BY <1>2, <2>1, <2>2 DEF GuardTypeOK
<1>6. ASSUME c = HardLock, \A i \in 1..Len(sleeping') : sleeping'[i].count = HardLock
      PROVE  QueueIsTidy'
  <2>1. ASSUME NEW i \in 1..Len(sleeping')
        PROVE  sleeping'[i].count = HardLock /\ sleeping'[i].left < lock'
    <3>1. sleeping'[i] \in Attempts
      BY <1>2, ElementOfSeq
    <3>2. sleeping'[i].left <= Pause(HardLock) /\ sleeping'[i].left \in Nat
      BY <1>2, <1>6, <3>1 DEF SleepersInOrder, Attempts
    <3>3. Pause(HardLock) < LockTime /\ Pause(HardLock) \in Nat
      BY <1>3, PauseFacts
    <3>4. sleeping'[i].left < LockTime
      BY <1>3, <3>2, <3>3
    <3> QED BY <1>4, <1>6, <3>4
  <2>2. Relocking' /\ lock' # 0
    BY <1>3, <1>4, <1>6, <2>1 DEF Relocking
  <2> QED BY <2>2 DEF QueueIsTidy
<1>7. ASSUME ~tidy
     PROVE  QueueIsTidy'
  <2>1. CASE ~tidy'
    BY <2>1 DEF QueueIsTidy
  <2>2. CASE tidy'
    <3>1. lock' > 0 /\ sleeping' = <<>>
      BY <1>1, <1>7, <2>2
    <3>2. c = HardLock
      BY <1>3, <1>4, <3>1
    <3>3. Len(sleeping') = 0
      BY <3>1
    <3> QED BY <1>6, <3>2, <3>3
  <2> QED BY <2>1, <2>2
<1>8. ASSUME tidy /\ lock # 0
     PROVE  QueueIsTidy'
  <2>1. Relocking
    BY <1>8 DEF QueueIsTidy
  <2>2. c = HardLock
    BY <1>2, <2>1 DEF Relocking
  <2>3. ASSUME NEW i \in 1..Len(sleeping') PROVE sleeping'[i].count = HardLock
    <3>1. i + 1 \in 1..Len(sleeping) /\ sleeping'[i] = sleeping[i + 1]
      BY <1>2
    <3> QED BY <2>1, <3>1 DEF Relocking
  <2> QED BY <1>6, <2>2, <2>3
<1>9. ASSUME tidy /\ lock = 0
     PROVE  QueueIsTidy'
  <2>1. PICK m \in 0..Len(sleeping) : Levels(m)
    BY <1>9 DEF QueueIsTidy
  <2>2. CASE m > 0
    <3>1. c = count /\ c # HardLock
      BY <1>2, <1>3, <2>1, <2>2 DEF Levels
    <3>2. count' = count /\ lock' = 0 /\ streak' = streak
      BY <1>4, <3>1
    <3>3. m - 1 \in 0..Len(sleeping')
      BY <1>2, <2>2
    <3>4. ASSUME NEW i \in 1..(m - 1) PROVE sleeping'[i].count = count'
      <4>1. i + 1 \in 1..m /\ i \in 1..Len(sleeping')
        BY <1>2
      <4> QED BY <1>2, <2>1, <3>2, <4>1 DEF Levels
    <3>5. ASSUME NEW i \in ((m - 1) + 1)..Len(sleeping')
          PROVE  sleeping'[i].count = count' + 1
      <4>1. i + 1 \in (m + 1)..Len(sleeping) /\ i \in 1..Len(sleeping')
        BY <1>2, <2>2
      <4> QED BY <1>2, <2>1, <3>2, <4>1 DEF Levels
    <3>6. /\ streak <= MaxOverlap * count + (Len(sleeping) - m)
          /\ streak >= count
          /\ m < Len(sleeping) => streak >= count + 1
      BY <2>1 DEF Levels
    <3>7. Len(sleeping') - (m - 1) = Len(sleeping) - m
          /\ (m - 1 < Len(sleeping') => m < Len(sleeping))
      BY <1>2
    <3>8. Levels(m - 1)'
      BY <3>2, <3>4, <3>5, <3>6, <3>7 DEF Levels
    <3> QED BY <3>2, <3>3, <3>8 DEF QueueIsTidy
  <2>3. CASE m = 0
    <3>1. \A i \in 1..Len(sleeping) : sleeping[i].count = count + 1
      BY <2>1, <2>3 DEF Levels
    <3>2. \A i \in 1..Len(sleeping') : sleeping'[i].count = count + 1
      BY <1>2, <3>1
    <3>3. c = count + 1
      BY <1>2, <3>1
    <3>4. CASE c = HardLock
      BY <1>6, <3>2, <3>3, <3>4
    <3>5. CASE c # HardLock
      <4>1. count' = count + 1 /\ lock' = 0 /\ streak' = streak
        BY <1>4, <3>3, <3>5
      <4>2. /\ streak <= MaxOverlap * count + (Len(sleeping) - 0)
            /\ streak >= count + 1
        BY <1>2, <2>1, <2>3 DEF Levels
      <4>3. /\ MaxOverlap * count \in Nat
            /\ MaxOverlap * (count + 1) = MaxOverlap * count + MaxOverlap
        BY <1>3, Products
      <4>4. Len(sleeping) <= MaxOverlap
        BY DEF SleepersInOrder
      <4> DEFINE a == MaxOverlap * count
                 b == MaxOverlap * (count + 1)
      <4>5. a \in Nat /\ b = a + MaxOverlap /\ streak <= a + Len(sleeping)
        BY <1>2, <1>3, <4>2, <4>3
      <4> HIDE DEF a, b
      <4>6. streak <= b
        BY <1>2, <1>3, <4>4, <4>5
      <4>7. streak' <= MaxOverlap * count'
        BY <4>1, <4>6 DEF b
      <4>0. PICK l \in Nat : l = Len(sleeping')
        BY <1>2
      <4>8. l \in 0..Len(sleeping') /\ l - l = 0 /\ (l + 1)..l = {}
        BY <4>0
      <4>9. streak' <= MaxOverlap * count' + (l - l)
        <5>1. MaxOverlap * count' \in Nat
          BY <1>3, <4>1, <4>3
        <5> QED BY <4>7, <4>8, <5>1
      <4>10. streak' >= count'
        BY <1>3, <4>1, <4>2
      <4>11. \A i \in 1..l : sleeping'[i].count = count'
        BY <3>2, <4>0, <4>1
      <4>12. Levels(l)'
        BY <4>0, <4>8, <4>9, <4>10, <4>11 DEF Levels
      <4> QED BY <4>1, <4>8, <4>12 DEF QueueIsTidy
    <3> QED BY <3>4, <3>5
  <2> QED BY <2>1, <2>2, <2>3
<1>10. QueueIsTidy'
  BY <1>3, <1>7, <1>8, <1>9
<1> QED BY <1>2, <1>5, <1>10

\* Time does not disturb it: before a lock ends, all who sleep have woken.
LEMMA TickKeepsInv ==
  ASSUME GuardInv, GuardTick
  PROVE  GuardInv'
<1> USE DEF GuardInv
<1>1. /\ sleeping # <<>> => Head(sleeping).left > 0
      /\ lock' = Sooner(lock)
      /\ sleeping' = [i \in DOMAIN sleeping |->
                        [sleeping[i] EXCEPT !.left = Sooner(@)]]
      /\ UNCHANGED <<count, streak, tidy>>
  BY DEF GuardTick
<1>2. /\ sleeping \in Seq(Attempts) /\ lock \in 0..LockTime /\ LockTime \in Nat
      /\ DOMAIN sleeping = 1..Len(sleeping) /\ Len(sleeping) \in Nat
  BY LimitsAssumption DEF GuardTypeOK
<1>3. ASSUME NEW i \in 1..Len(sleeping)
      PROVE  /\ sleeping'[i] \in Attempts
             /\ sleeping'[i].count = sleeping[i].count
             /\ sleeping'[i].left = Sooner(sleeping[i].left)
  <2>1. sleeping[i] \in Attempts
    BY SleeperFacts
  <2>2. sleeping'[i] = [sleeping[i] EXCEPT !.left = Sooner(sleeping[i].left)]
    BY <1>1, <1>2
  <2> QED BY <1>2, <2>1, <2>2 DEF Attempts, Sooner
<1>4. /\ Len(sleeping') = Len(sleeping)
      /\ sleeping' \in Seq(Attempts)
  <2>1. sleeping' \in [1..Len(sleeping) -> Attempts]
    BY <1>1, <1>2, <1>3
  <2> QED BY <1>2, <2>1, SeqDef, LenProperties
<1>5. lock' \in 0..LockTime
  BY <1>1, <1>2 DEF Sooner
<1>6. GuardTypeOK'
  BY <1>1, <1>4, <1>5 DEF GuardTypeOK
<1>7. SleepersInOrder'
  <2>1. ASSUME NEW i \in 1..Len(sleeping), NEW j \in 1..Len(sleeping), i <= j
        PROVE  sleeping'[i].left <= sleeping'[j].left
    <3>1. sleeping[i].left <= sleeping[j].left
      BY <2>1 DEF SleepersInOrder
    <3>2. sleeping[i].left \in Nat /\ sleeping[j].left \in Nat
      BY <1>2, SleeperFacts
    <3> QED BY <1>3, <3>1, <3>2 DEF Sooner
  <2>2. ASSUME NEW i \in 1..Len(sleeping)
        PROVE  /\ sleeping'[i].count >= SoftFails
               /\ sleeping'[i].left <= Pause(sleeping'[i].count)
    <3>1. /\ sleeping[i].count >= SoftFails
          /\ sleeping[i].left <= Pause(sleeping[i].count)
      BY DEF SleepersInOrder
    <3>2. sleeping[i].left \in Nat /\ sleeping[i].count \in Nat
      BY <1>2, SleeperFacts
    <3>3. Pause(sleeping[i].count) \in Nat
      BY <3>2, PauseFacts
    <3> QED BY <1>3, <3>1, <3>2, <3>3 DEF Sooner
  <2> QED BY <1>4, <2>1, <2>2 DEF SleepersInOrder
<1>8. ASSUME ~tidy
     PROVE  QueueIsTidy'
  BY <1>1, <1>8 DEF QueueIsTidy
<1>9. ASSUME tidy /\ lock = 0
     PROVE  QueueIsTidy'
  <2>1. lock' = 0
    BY <1>1, <1>9 DEF Sooner
  <2>2. PICK m \in 0..Len(sleeping) : Levels(m)
    BY <1>9 DEF QueueIsTidy
  <2>3. Levels(m)'
    BY <1>1, <1>2, <1>3, <1>4, <2>2 DEF Levels
  <2> QED BY <1>4, <2>1, <2>2, <2>3 DEF QueueIsTidy
<1>10. ASSUME tidy /\ lock > 1
     PROVE  QueueIsTidy'
  <2>1. lock' = lock - 1 /\ lock' # 0
    BY <1>1, <1>2, <1>10 DEF Sooner
  <2>2. Relocking
    BY <1>2, <1>10 DEF QueueIsTidy
  <2>3. ASSUME NEW i \in 1..Len(sleeping)
        PROVE  sleeping'[i].count = HardLock /\ sleeping'[i].left < lock'
    <3>1. sleeping[i].count = HardLock /\ sleeping[i].left < lock
      BY <2>2 DEF Relocking
    <3>2. sleeping[i].left \in Nat
      BY <1>2, SleeperFacts
    <3> QED BY <1>2, <1>3, <1>10, <2>1, <3>1, <3>2 DEF Sooner
  <2>4. Relocking'
    BY <1>1, <1>4, <2>2, <2>3 DEF Relocking
  <2> QED BY <2>1, <2>4 DEF QueueIsTidy
<1>11. ASSUME tidy /\ lock = 1
     PROVE  QueueIsTidy'
  <2>1. lock' = 0
    BY <1>1, <1>11 DEF Sooner
  <2>2. Relocking
    BY <1>2, <1>11 DEF QueueIsTidy
  <2>3. ASSUME sleeping # <<>> PROVE FALSE
    <3>1. 1 \in 1..Len(sleeping) /\ Head(sleeping) = sleeping[1]
      BY <1>2, <2>3
    <3>2. sleeping[1].left < 1 /\ sleeping[1].left \in Nat
      BY <1>2, <1>11, <2>2, <3>1, SleeperFacts DEF Relocking
    <3> QED BY <1>1, <2>3, <3>1, <3>2
  <2>4. Len(sleeping') = 0 /\ streak' = 0 /\ count' = 0
    BY <1>1, <1>4, <2>2, <2>3 DEF Relocking
  <2>5. MaxOverlap * 0 \in Nat
    BY Products
  <2>6. Levels(0)'
    BY <2>4, <2>5 DEF Levels
  <2> QED BY <2>1, <2>4, <2>6 DEF QueueIsTidy
<1>12. QueueIsTidy'
  <2>1. lock = 0 \/ lock = 1 \/ lock > 1
    BY <1>2
  <2> QED BY <2>1, <1>8, <1>9, <1>10, <1>11
<1> QED BY <1>6, <1>7, <1>12

\* A restart forgets who slept.
LEMMA RestartKeepsInv ==
  ASSUME GuardInv, GuardRestart
  PROVE  GuardInv'
<1> USE DEF GuardInv
<1>1. /\ sleeping' = <<>>
      /\ streak' = IF sleeping = <<>> THEN streak ELSE count
      /\ UNCHANGED <<count, lock, tidy>>
  BY DEF GuardRestart
<1>2. /\ count \in 0..(HardLock - 1) /\ lock \in 0..LockTime
      /\ streak \in 0..MaxStreak /\ HardLock \in Nat /\ LockTime \in Nat
      /\ MaxOverlap \in Nat \ {0} /\ MaxStreak \in Nat
  BY Products, LimitsAssumption DEF GuardTypeOK
<1>3. /\ MaxOverlap * count \in Nat /\ count <= MaxOverlap * count
      /\ count <= MaxStreak
  <2> DEFINE a == MaxOverlap * count
             b == (MaxOverlap - 1) * count
  <2>1. a \in Nat /\ a + MaxOverlap < MaxStreak
    BY <1>2, Products
  <2>2. MaxOverlap - 1 \in Nat
    BY <1>2
  <2>3. b \in Nat
    BY <1>2, <2>2
  <2>4. a = b + count
    BY <1>2
  <2> HIDE DEF a, b
  <2>5. count <= a /\ count <= MaxStreak
    BY <1>2, <2>1, <2>3, <2>4
  <2> QED BY <2>1, <2>5 DEF a
<1>4. Len(sleeping') = 0 /\ sleeping' \in Seq(Attempts)
  BY <1>1
<1>5. GuardTypeOK'
  <2>1. streak' \in 0..MaxStreak
    BY <1>1, <1>2, <1>3
  <2> QED BY <1>1, <1>4, <2>1 DEF GuardTypeOK
<1>6. SleepersInOrder'
  BY <1>2, <1>4 DEF SleepersInOrder
<1>7. ASSUME tidy, lock = 0 PROVE Levels(0)'
  <2>1. PICK m \in 0..Len(sleeping) : Levels(m)
    BY <1>7 DEF QueueIsTidy
  <2>2. CASE sleeping = <<>>
    <3>1. m = 0 /\ Len(sleeping) = 0
      BY <2>2
    <3>2. streak <= MaxOverlap * count /\ streak >= count
      BY <1>2, <1>3, <2>1, <3>1 DEF Levels
    <3> QED BY <1>1, <1>2, <1>3, <1>4, <2>2, <3>2 DEF Levels
  <2>3. CASE sleeping # <<>>
    BY <1>1, <1>2, <1>3, <1>4, <2>3 DEF Levels
  <2> QED BY <2>2, <2>3
<1>8. ASSUME tidy, lock # 0 PROVE Relocking'
  BY <1>1, <1>4, <1>8 DEF QueueIsTidy, Relocking
<1>9. QueueIsTidy'
  BY <1>1, <1>4, <1>7, <1>8 DEF QueueIsTidy
<1> QED BY <1>5, <1>6, <1>9

\* So does another database, which forgets what was counted.
LEMMA ReplaceKeepsInv ==
  ASSUME GuardInv, Replace
  PROVE  GuardInv'
<1> USE DEF GuardInv
<1>1. PICK c \in Counters : GuardReplace(c)
  BY DEF Replace
<1>2. /\ sleeping' = sleeping \/ sleeping' = <<>>
      /\ count' = c.count /\ lock' = c.lock /\ streak' = c.count
      /\ tidy' = (sleeping' = <<>>)
  BY <1>1 DEF Replace, GuardReplace
<1>3. /\ c.count \in 0..(HardLock - 1) /\ c.lock \in 0..LockTime
      /\ c.lock > 0 => c.count = 0
      /\ HardLock \in Nat /\ LockTime \in Nat /\ MaxOverlap \in Nat \ {0}
      /\ MaxStreak \in Nat
  BY Products, LimitsAssumption DEF Counters
<1>4. /\ MaxOverlap * c.count \in Nat /\ c.count <= MaxOverlap * c.count
      /\ c.count <= MaxStreak
  <2> DEFINE n == c.count
             a == MaxOverlap * n
             b == (MaxOverlap - 1) * n
  <2>1. n \in Nat /\ n \in 0..(HardLock - 1)
    BY <1>3
  <2> HIDE DEF n
  <2>2. a \in Nat /\ a + MaxOverlap < MaxStreak
    BY <2>1, Products
  <2>3. MaxOverlap - 1 \in Nat
    BY <1>3
  <2>4. b \in Nat /\ a = b + n
    BY <1>3, <2>1, <2>3
  <2> HIDE DEF a, b
  <2>5. n <= a /\ n <= MaxStreak
    BY <1>3, <2>1, <2>2, <2>4
  <2> QED BY <2>2, <2>5 DEF a, n
<1>5. sleeping' \in Seq(Attempts)
  <2>1. sleeping \in Seq(Attempts) /\ <<>> \in Seq(Attempts)
    BY DEF GuardTypeOK
  <2> QED BY <1>2, <2>1, Zenon
<1>6. GuardTypeOK'
  <2>1. streak' \in 0..MaxStreak
    BY <1>2, <1>3, <1>4
  <2> QED BY <1>2, <1>3, <1>5, <2>1 DEF GuardTypeOK
<1>7. SleepersInOrder'
  <2>1. CASE sleeping' = sleeping
    BY <2>1 DEF SleepersInOrder
  <2>2. CASE sleeping' = <<>>
    <3>1. Len(sleeping') = 0
      BY <2>2
    <3> QED BY <1>3, <3>1 DEF SleepersInOrder
  <2> QED BY <1>2, <2>1, <2>2
<1>8. ASSUME tidy' PROVE Len(sleeping') = 0
  <2>1. sleeping' = <<>>
    BY <1>2, <1>8, Zenon
  <2> QED BY <2>1
<1>9. ASSUME tidy', lock' = 0 PROVE Levels(0)' /\ 0 \in 0..Len(sleeping')
  <2>1. streak' <= MaxOverlap * count' /\ streak' >= count' /\ MaxOverlap * count' \in Nat
    BY <1>2, <1>3, <1>4
  <2> QED BY <1>8, <1>9, <2>1 DEF Levels
<1>10. ASSUME tidy', lock' # 0 PROVE Relocking'
  BY <1>2, <1>3, <1>8, <1>10 DEF Relocking
<1>11. QueueIsTidy'
  BY <1>9, <1>10 DEF QueueIsTidy
<1> QED BY <1>6, <1>7, <1>11

-----------------------------------------------------------------------------
(* The guard within Access.                                                *)

\* A restore replaces the counter by what the backup says.
LEMMA RestoreReplaces ==
  ASSUME NEW file \in Uploads, Restore(file)
  PROVE  Replace
<1>1. file.guard \in Counters
  BY UploadsAssumption
<1>2. GuardReplace(file.guard) /\ sleeping' \in {sleeping, <<>>}
  BY DEF Restore
<1> QED BY <1>1, <1>2 DEF Replace

\* Every step of Access but a restore is one of the guard, or leaves the guard
\* alone.
LEMMA StepsOfGuard ==
  ASSUME [Next]_vars
  PROVE  Restored \/ GuardStep \/ UNCHANGED guardVars
<1>1. CASE UNCHANGED vars
  BY <1>1 DEF vars
<1>2. CASE Crash
  BY <1>2 DEF Crash, Die, GuardStep
<1>3. CASE \E pw \in LongPasswords \cup {NoPassword} : Boot(pw) \/ BootDies(pw)
  BY <1>3 DEF Boot, BootDies, Die, GuardStep
<1>4. CASE Visit \/ Logout \/ \E old \in Typed, new \in Passwords : StartChange(old, new)
  BY <1>4 DEF Visit, Logout, StartChange
<1>5. CASE \E user \in Names, pw \in Typed : Login(user, pw)
  BY <1>5 DEF Login, GuardStep
<1>6. CASE LoginFails \/ LoginAnswered \/ Tick
  BY <1>6 DEF LoginFails, LoginAnswered, Tick, GuardStep
<1>7. CASE \E user \in Names, pw \in Passwords : Setup(user, pw)
  BY <1>7 DEF Setup, Claimed, ClaimDies, Die, GuardStep
<1>8. CASE \E c \in changing : FinishChange(c)
  <2>1. PICK c \in changing : FinishChange(c)
    BY <1>8
  <2> QED BY <2>1 DEF FinishChange, Claimed, ClaimDies, Die, GuardStep
<1>9. CASE StartRestore \/ RestoreFails
  BY <1>9 DEF StartRestore, RestoreFails
<1> QED BY <1>1, <1>2, <1>3, <1>4, <1>5, <1>6, <1>7, <1>8, <1>9 DEF Next, Restored

\* So it keeps the invariant of the guard.
LEMMA GuardKept ==
  ASSUME GuardInv, [Next]_vars
  PROVE  GuardInv'
<1>1. CASE UNCHANGED guardVars
  <2>1. UNCHANGED <<count, lock, sleeping, streak, tidy>>
    BY <1>1 DEF guardVars
  <2>2. GuardTypeOK' /\ SleepersInOrder'
    BY <2>1 DEF GuardInv, GuardTypeOK, SleepersInOrder
  <2>3. ASSUME tidy, lock = 0
        PROVE  \E m \in 0..Len(sleeping') : Levels(m)'
    <3>1. PICK m \in 0..Len(sleeping) : Levels(m)
      BY <2>3 DEF GuardInv, QueueIsTidy
    <3>2. Levels(m)'
      BY <2>1, <3>1 DEF Levels
    <3> QED BY <2>1, <3>2
  <2>4. ASSUME tidy, lock # 0 PROVE Relocking'
    BY <2>1, <2>4 DEF GuardInv, QueueIsTidy, Relocking
  <2>5. QueueIsTidy'
    BY <2>1, <2>3, <2>4 DEF QueueIsTidy
  <2> QED BY <2>2, <2>5 DEF GuardInv
<1>2. CASE GuardStep
  BY <1>2, FailKeepsInv, SucceedKeepsInv, WakeKeepsInv, TickKeepsInv,
     RestartKeepsInv DEF GuardStep
<1>3. CASE Restored
  BY <1>3, RestoreReplaces, ReplaceKeepsInv DEF Restored
<1> QED BY <1>1, <1>2, <1>3, StepsOfGuard

\* The invariant of the guard holds throughout.
THEOREM GuardInvariant == Spec => []GuardInv
<1>1. Init => GuardInv
  BY GuardStarts DEF Init
<1>2. GuardInv /\ [Next]_vars => GuardInv'
  BY GuardKept
<1> QED BY <1>1, <1>2, PTL DEF Spec

\* Overlapping attempts make the counter lag by a bounded factor.
THEOREM GuessesBounded == Spec => []GuessesAreBounded
<1>1. GuardInv => GuessesAreBounded
  <2> SUFFICES ASSUME GuardInv, tidy
               PROVE  streak <= MaxOverlap * (count + 1)
    BY DEF GuessesAreBounded
  <2>1. /\ count \in 0..(HardLock - 1) /\ count \in Nat /\ streak \in Nat
        /\ Len(sleeping) \in Nat /\ Len(sleeping) <= MaxOverlap
        /\ MaxOverlap \in Nat \ {0}
    BY SleeperFacts, Products, LimitsAssumption
       DEF GuardInv, GuardTypeOK, SleepersInOrder
  <2> DEFINE a == MaxOverlap * count
             b == MaxOverlap * (count + 1)
  <2>2. a \in Nat /\ b = a + MaxOverlap
    BY <2>1, Products
  <2>3. CASE lock = 0
    <3>1. PICK m \in 0..Len(sleeping) : Levels(m)
      BY <2>3 DEF GuardInv, QueueIsTidy
    <3>2. streak <= a + (Len(sleeping) - m)
      BY <3>1 DEF Levels
    <3> HIDE DEF a, b
    <3>3. streak <= b
      BY <2>1, <2>2, <3>2
    <3> QED BY <3>3 DEF b
  <2>4. CASE lock # 0
    <3>1. streak = 0
      BY <2>4 DEF GuardInv, QueueIsTidy, Relocking
    <3> HIDE DEF a, b
    <3>2. streak <= b
      BY <2>1, <2>2, <3>1
    <3> QED BY <3>2 DEF b
  <2> QED BY <2>3, <2>4
<1> QED BY <1>1, GuardInvariant, PTL

\* What wakes while the panel is not locked locks it for enough failures.
LEMMA WakeLocksForEnough ==
  ASSUME GuardInv, Wake, tidy, lock = 0, lock' > 0
  PROVE  streak >= HardLock
<1>1. sleeping # <<>> /\ Note(Head(sleeping).count)
  BY DEF Wake
<1>2. /\ Len(sleeping) \in Nat \ {0} /\ Head(sleeping) = sleeping[1]
      /\ count \in 0..(HardLock - 1) /\ HardLock \in Nat /\ streak \in Nat
      /\ sleeping[1].count \in 1..HardLock
  <2>1. Len(sleeping) \in Nat \ {0} /\ Head(sleeping) = sleeping[1]
    BY <1>1 DEF GuardInv, GuardTypeOK
  <2>2. sleeping[1].count \in 1..HardLock
    BY <2>1, SleeperFacts DEF GuardInv
  <2> QED BY <2>1, <2>2, Products, LimitsAssumption DEF GuardInv, GuardTypeOK
<1>3. sleeping[1].count >= HardLock
  BY <1>1, <1>2 DEF Note
<1>4. PICK m \in 0..Len(sleeping) : Levels(m)
  BY DEF GuardInv, QueueIsTidy
<1>5. m = 0
  <2>1. ASSUME m # 0 PROVE FALSE
    <3>1. sleeping[1].count = count
      BY <1>2, <1>4, <2>1 DEF Levels
    <3> QED BY <1>2, <1>3, <3>1
  <2> QED BY <2>1
<1>6. sleeping[1].count = count + 1 /\ streak >= count + 1
  BY <1>2, <1>4, <1>5 DEF Levels
<1> QED BY <1>2, <1>3, <1>6

\* A failure is not the last before the lock, or it sleeps.
LEMMA FailLocksNothing ==
  ASSUME GuardInv, Fail
  PROVE  lock' = 0
<1>1. count + 1 \in 1..HardLock /\ lock = 0 /\ HardLock \in Nat
  BY LimitsAssumption DEF Fail, GuardInv, GuardTypeOK
<1>2. CASE Pause(count + 1) = 0
  <2>1. count + 1 < HardLock
    BY <1>1, <1>2, PauseFacts, LimitsAssumption
  <2> QED BY <1>1, <1>2, <2>1 DEF Fail, CountFailure, Note
<1>3. CASE Pause(count + 1) # 0
  BY <1>1, <1>3 DEF Fail, CountFailure
<1> QED BY <1>2, <1>3

\* The panel is locked only for failures that no success has forgiven, or with
\* the database that was locked.
THEOREM LockEarned == Spec => LockIsEarned
<1>1. ASSUME GuardInv, [Next]_vars
      PROVE  [tidy /\ lock = 0 /\ lock' > 0
                => streak >= HardLock \/ Restored]_vars
  <2> SUFFICES ASSUME Next, tidy, lock = 0, lock' > 0, ~Restored
               PROVE  streak >= HardLock
    BY <1>1
  <2>4. ASSUME UNCHANGED guardVars PROVE FALSE
    BY <2>4 DEF guardVars
  <2>1. CASE Wake
    BY <1>1, <2>1, WakeLocksForEnough
  <2>2. CASE Fail
    BY <1>1, <2>2, FailLocksNothing
  <2>3. CASE Succeed \/ GuardTick \/ GuardRestart
    <3>1. lock' = 0 \/ lock' = Sooner(lock) \/ lock' = lock
      BY <2>3, Zenon DEF Succeed, GuardTick, GuardRestart
    <3> QED BY <3>1 DEF Sooner
  <2> QED BY <2>1, <2>2, <2>3, <2>4, StepsOfGuard DEF GuardStep
<1> QED BY <1>1, GuardInvariant, PTL DEF Spec, LockIsEarned

\* Nothing but the clock, or another database, shortens a lock.
THEOREM LockKept == Spec => LockIsKept
<1>1. ASSUME GuardInv, [Next]_vars
      PROVE  [tidy => lock' >= Sooner(lock) \/ Restored]_vars
  <2> SUFFICES ASSUME Next, tidy, ~Restored
               PROVE  lock' >= Sooner(lock)
    BY <1>1
  <2>1. lock \in 0..LockTime /\ LockTime \in Nat /\ HardLock \in Nat
    BY <1>1, LimitsAssumption DEF GuardInv, GuardTypeOK
  <2>2. CASE lock = 0
    <3>1. lock' >= 0
      BY <1>1, <2>1, GuardKept DEF GuardInv, GuardTypeOK
    <3> QED BY <2>2, <3>1 DEF Sooner
  <2>3. CASE lock # 0
    <3>1. CASE Wake
      <4>1. sleeping # <<>> /\ Note(Head(sleeping).count)
        BY <3>1 DEF Wake
      <4>2. Head(sleeping) = sleeping[1] /\ 1 \in 1..Len(sleeping)
        BY <1>1, <4>1 DEF GuardInv, GuardTypeOK
      <4>3. Head(sleeping).count = HardLock
        BY <1>1, <2>3, <4>2 DEF GuardInv, QueueIsTidy, Relocking
      <4>4. lock' = LockTime
        BY <2>1, <4>1, <4>3 DEF Note
      <4> QED BY <2>1, <4>4 DEF Sooner
    <3>2. CASE Fail \/ Succeed
      BY <2>3, <3>2 DEF Fail, Succeed
    <3>3. CASE GuardTick \/ GuardRestart
      <4>1. lock' = Sooner(lock) \/ lock' = lock
        BY <3>3, Zenon DEF GuardTick, GuardRestart
      <4> QED BY <2>1, <4>1 DEF Sooner
    <3>4. CASE UNCHANGED guardVars
      BY <2>1, <3>4 DEF guardVars, Sooner
    <3> QED BY <3>1, <3>2, <3>3, <3>4, StepsOfGuard DEF GuardStep
  <2> QED BY <2>2, <2>3
<1> QED BY <1>1, GuardInvariant, PTL DEF Spec, LockIsKept

-----------------------------------------------------------------------------
(* The commits of an operation.                                            *)

\* What opening the database leaves.
Born(c) ==
  IF c.user # NoOne THEN c
  ELSE [user |-> DefaultName, pw |-> NoPassword, isDefault |-> "1",
        since |-> Window, created |-> Window]

\* The window is a number of ticks.
LEMMA WindowFacts == Window \in Nat
BY TimesAssumption DEF Window

\* The row of the administrator, written anew.
LEMMA SetAdminFacts ==
  ASSUME NEW c \in Creds, NEW user \in Names, NEW pw \in Typed
  PROVE  /\ SetAdmin(c, user, pw) \in Creds
         /\ SetAdmin(c, user, pw) =
              [user |-> user, pw |-> pw, isDefault |-> c.isDefault,
               since |-> c.since, created |-> Window]
<1> DEFINE x1 == [c EXCEPT !.user = user]
           x2 == [x1 EXCEPT !.pw = pw]
           x3 == [x2 EXCEPT !.created = Window]
<1>1. SetAdmin(c, user, pw) = x3
  BY Zenon DEF SetAdmin
<1>2. /\ x1 \in Creds /\ x1.user = user /\ x1.isDefault = c.isDefault
      /\ x1.since = c.since
  BY DEF Creds
<1> HIDE DEF x1
<1>3. /\ x2 \in Creds /\ x2.user = user /\ x2.pw = pw
      /\ x2.isDefault = c.isDefault /\ x2.since = c.since
  BY <1>2 DEF Creds
<1> HIDE DEF x2
<1>4. /\ x3 \in Creds /\ x3.user = user /\ x3.pw = pw
      /\ x3.isDefault = c.isDefault /\ x3.since = c.since /\ x3.created = Window
  BY <1>3, WindowFacts DEF Creds
<1> HIDE DEF x3
<1>5. x3 = [user |-> user, pw |-> pw, isDefault |-> c.isDefault,
            since |-> c.since, created |-> Window]
  BY <1>4 DEF Creds
<1> QED BY <1>1, <1>4, <1>5

\* A mark in the row, set.
LEMMA MarkFacts ==
  ASSUME NEW c \in Creds, NEW m \in {"0", "1"}
  PROVE  /\ [c EXCEPT !.isDefault = m] \in Creds
         /\ [c EXCEPT !.isDefault = m] =
              [user |-> c.user, pw |-> c.pw, isDefault |-> m,
               since |-> c.since, created |-> c.created]
<1>1. [c EXCEPT !.isDefault = m] \in Creds
  BY DEF Creds
<1>2. [c EXCEPT !.isDefault = m] = [user |-> c.user, pw |-> c.pw,
         isDefault |-> m, since |-> c.since, created |-> c.created]
  BY DEF Creds
<1> QED BY <1>1, <1>2

\* The beginning of the window, set.
LEMMA SinceFacts ==
  ASSUME NEW c \in Creds, NEW t \in 0..Window
  PROVE  /\ [c EXCEPT !.since = t] \in Creds
         /\ [c EXCEPT !.since = t] =
              [user |-> c.user, pw |-> c.pw, isDefault |-> c.isDefault,
               since |-> t, created |-> c.created]
<1>1. [c EXCEPT !.since = t] \in Creds
  BY DEF Creds
<1>2. [c EXCEPT !.since = t] = [user |-> c.user, pw |-> c.pw,
         isDefault |-> c.isDefault, since |-> t, created |-> c.created]
  BY DEF Creds
<1> QED BY <1>1, <1>2

\* Setting a password takes two commits.
LEMMA ClaimFacts ==
  ASSUME NEW c \in Creds, NEW user \in Names, NEW pw \in Passwords
  PROVE  /\ Len(Claim(c, user, pw)) = 2
         /\ SetAdmin(c, user, pw) \in Creds
         /\ Claim(c, user, pw)[1] = SetAdmin(c, user, pw)
         /\ Last(Claim(c, user, pw)) = [SetAdmin(c, user, pw) EXCEPT !.isDefault = "0"]
         /\ Last(Claim(c, user, pw)) = Claim(c, user, pw)[2]
         /\ Last(Claim(c, user, pw)) \in Creds
         /\ Last(Claim(c, user, pw)) =
              [user |-> user, pw |-> pw, isDefault |-> "0", since |-> c.since,
               created |-> Window]
<1> DEFINE x == SetAdmin(c, user, pw)
           y == [x EXCEPT !.isDefault = "0"]
<1>1. /\ x \in Creds
      /\ x = [user |-> user, pw |-> pw, isDefault |-> c.isDefault,
              since |-> c.since, created |-> Window]
  BY SetAdminFacts DEF Typed
<1> HIDE DEF x
<1>2. y \in Creds
  BY <1>1, MarkFacts
<1>3. y = [user |-> user, pw |-> pw, isDefault |-> "0", since |-> c.since,
           created |-> Window]
  <2>1. y = [user |-> x.user, pw |-> x.pw, isDefault |-> "0",
             since |-> x.since, created |-> x.created]
    BY <1>1, MarkFacts
  <2> QED BY <1>1, <2>1
<1>4. Claim(c, user, pw) = <<x, y>>
  BY DEF Claim, x
<1> HIDE DEF y
<1>5. /\ Len(<<x, y>>) = 2 /\ <<x, y>>[1] = x /\ <<x, y>>[2] = y
      /\ Last(<<x, y>>) = y
  BY DEF Last
<1> QED BY <1>1, <1>2, <1>3, <1>4, <1>5 DEF x, y

\* Creating the administrator takes three, or none.
LEMMA CreateFacts ==
  ASSUME NEW c \in Creds
  PROVE  /\ Create(c) \in Seq(Creds) /\ Len(Create(c)) \in Nat \ {0}
         /\ Last(Create(c)) = Born(c)
         /\ Create(c)[Len(Create(c))] = Born(c)
         /\ Born(c) \in Creds /\ Born(c).user # NoOne
         /\ \A i \in 1..Len(Create(c)) : Create(c)[i].user = Born(c).user
<1> DEFINE x == SetAdmin(c, DefaultName, NoPassword)
           y == [x EXCEPT !.isDefault = "1"]
           z == [y EXCEPT !.since = Window]
<1>1. /\ x \in Creds
      /\ x = [user |-> DefaultName, pw |-> NoPassword, isDefault |-> c.isDefault,
              since |-> c.since, created |-> Window]
  BY SetAdminFacts, NamesAssumption DEF Typed
<1>0. c.user = NoOne => Create(c) = <<x, y, z>>
  BY DEF Create
<1> HIDE DEF x
<1>2. /\ y \in Creds
      /\ y = [user |-> DefaultName, pw |-> NoPassword, isDefault |-> "1",
              since |-> c.since, created |-> Window]
  <2>1. y \in Creds
    BY <1>1, MarkFacts
  <2>2. y = [user |-> x.user, pw |-> x.pw, isDefault |-> "1",
             since |-> x.since, created |-> x.created]
    BY <1>1, MarkFacts
  <2> QED BY <1>1, <2>1, <2>2
<1> HIDE DEF y
<1>3. /\ z \in Creds
      /\ z = [user |-> DefaultName, pw |-> NoPassword, isDefault |-> "1",
              since |-> Window, created |-> Window]
  <2>0. Window \in 0..Window
    BY WindowFacts
  <2>1. z \in Creds
    BY <1>2, <2>0, SinceFacts
  <2>2. z = [user |-> y.user, pw |-> y.pw, isDefault |-> y.isDefault,
             since |-> Window, created |-> y.created]
    BY <1>2, <2>0, SinceFacts
  <2> QED BY <1>2, <2>1, <2>2
<1> HIDE DEF z
<1>4. c.user = NoOne => z = Born(c)
  BY <1>3 DEF Born
<1>5. c.user # NoOne => Create(c) = <<c>>
  BY Zenon DEF Create
<1>7. CASE c.user # NoOne
  <2>1. Born(c) = c
    BY <1>7 DEF Born
  <2>2. Len(<<c>>) = 1 /\ <<c>>[1] = c /\ Last(<<c>>) = c /\ <<c>> \in Seq(Creds)
    BY DEF Last
  <2> QED BY <1>5, <1>7, <2>1, <2>2
<1>8. CASE c.user = NoOne
  <2>1. /\ Len(<<x, y, z>>) = 3 /\ <<x, y, z>>[1] = x /\ <<x, y, z>>[2] = y
        /\ <<x, y, z>>[3] = z /\ Last(<<x, y, z>>) = z
        /\ <<x, y, z>> \in Seq(Creds)
    BY <1>1, <1>2, <1>3 DEF Last
  <2>2. Born(c) = z /\ Create(c) = <<x, y, z>> /\ z.user # NoOne
    BY <1>0, <1>3, <1>4, <1>8, NamesAssumption
  <2>3. ASSUME NEW i \in 1..3 PROVE <<x, y, z>>[i].user = z.user
    <3>1. i = 1 \/ i = 2 \/ i = 3
      OBVIOUS
    <3> QED BY <1>1, <1>2, <1>3, <2>1, <3>1
  <2> QED BY <1>3, <2>1, <2>2, <2>3
<1> QED BY <1>7, <1>8

\* A boot: first the administrator, then its password.
LEMMA BootFacts ==
  ASSUME NEW c \in Creds, NEW pw \in LongPasswords \cup {NoPassword}
  PROVE  /\ Last(BootSteps(c, pw)) =
              IF pw = NoPassword THEN Born(c)
              ELSE [user |-> Born(c).user, pw |-> pw, isDefault |-> "0",
                    since |-> Born(c).since, created |-> Window]
         /\ Last(BootSteps(c, pw)) \in Creds
         /\ \A i \in 1..(Len(BootSteps(c, pw)) - 1) :
              /\ BootSteps(c, pw)[i] \in Creds
              /\ BootSteps(c, pw)[i].user = Born(c).user
              /\ \/ i < Len(Create(c))
                 \/ BootSteps(c, pw)[i] = Born(c)
                 \/ pw # NoPassword /\ BootSteps(c, pw)[i] = SetAdmin(Born(c), Born(c).user, pw)
<1>1. CASE pw = NoPassword
  <2>1. BootSteps(c, pw) = Create(c)
    BY <1>1 DEF BootSteps
  <2>2. ASSUME NEW i \in 1..(Len(Create(c)) - 1)
        PROVE  /\ Create(c)[i] \in Creds /\ Create(c)[i].user = Born(c).user
               /\ i < Len(Create(c))
    <3>1. i \in 1..Len(Create(c)) /\ i < Len(Create(c))
      BY CreateFacts
    <3> QED BY <3>1, CreateFacts, ElementOfSeq
  <2> QED BY <1>1, <2>1, <2>2, CreateFacts
<1>2. CASE pw # NoPassword
  <2> DEFINE a == Create(c)
             b == Claim(Born(c), Born(c).user, pw)
             s == SetAdmin(Born(c), Born(c).user, pw)
  <2>1. /\ a \in Seq(Creds) /\ Len(a) \in Nat \ {0} /\ a[Len(a)] = Born(c)
        /\ Born(c) \in Creds /\ Born(c).user \in Names
        /\ \A i \in 1..Len(a) : a[i].user = Born(c).user
    BY CreateFacts DEF Creds
  <2>2. pw \in Passwords
    BY <1>2, PasswordsAssumption
  <2>3. /\ Len(b) = 2 /\ b[1] = s /\ s \in Creds /\ b[2] \in Creds
        /\ b[2] = [user |-> Born(c).user, pw |-> pw, isDefault |-> "0",
                    since |-> Born(c).since, created |-> Window]
    BY <2>1, <2>2, ClaimFacts
  <2>4. b = <<b[1], b[2]>>
    BY DEF Claim
  <2>5. b \in Seq(Creds)
    <3>1. \A u, v : u \in Creds /\ v \in Creds => <<u, v>> \in Seq(Creds)
      OBVIOUS
    <3> QED BY <2>3, <2>4, <3>1
  <2>6. BootSteps(c, pw) = a \o b
    BY <1>2, CreateFacts DEF BootSteps
  <2>7. s.user = Born(c).user
    BY <2>1 DEF SetAdmin, Creds
  <2> HIDE DEF a, b, s
  <2>8. /\ Len(a \o b) = Len(a) + 2
        /\ \A i \in 1..Len(a) : (a \o b)[i] = a[i]
        /\ (a \o b)[Len(a) + 1] = b[1]
        /\ (a \o b)[Len(a) + 2] = b[2]
    <3>1. /\ Len(a \o b) = Len(a) + Len(b)
          /\ \A i \in 1..Len(a) : (a \o b)[i] = a[i]
          /\ \A i \in (Len(a) + 1)..(Len(a) + Len(b)) : (a \o b)[i] = b[i - Len(a)]
      BY <2>1, <2>5, ConcatProperties
    <3>2. /\ Len(a) + 1 \in (Len(a) + 1)..(Len(a) + Len(b))
          /\ Len(a) + 2 \in (Len(a) + 1)..(Len(a) + Len(b))
          /\ (Len(a) + 1) - Len(a) = 1 /\ (Len(a) + 2) - Len(a) = 2
      BY <2>1, <2>3
    <3> QED BY <2>3, <3>1, <3>2
  <2>9. Last(a \o b) = b[2]
    BY <2>8 DEF Last
  <2>10. ASSUME NEW i \in 1..(Len(a) + 1)
         PROVE  /\ (a \o b)[i] \in Creds
                /\ (a \o b)[i].user = Born(c).user
                /\ i < Len(a) \/ (a \o b)[i] = Born(c) \/ (a \o b)[i] = s
    <3>1. CASE i = Len(a) + 1
      BY <2>3, <2>7, <2>8, <3>1
    <3>2. CASE i # Len(a) + 1
      <4>1. i \in 1..Len(a)
        BY <2>1, <3>2
      <4>2. (a \o b)[i] = a[i] /\ a[i] \in Creds
        BY <2>1, <2>8, <4>1, ElementOfSeq
      <4> QED BY <2>1, <4>1, <4>2
    <3> QED BY <3>1, <3>2
  <2>11. (Len(a) + 2) - 1 = Len(a) + 1
    BY <2>1
  <2> QED BY <1>2, <2>3, <2>6, <2>8, <2>9, <2>10, <2>11 DEF a, s
<1> QED BY <1>1, <1>2

-----------------------------------------------------------------------------
(* The invariant of Access.                                                *)

\* Without a password there is the first-run mode, and with it a beginning
\* of the window that lies as far back as the creation of the panel.
InWindow(c) ==
  c.user # NoOne =>
    /\ c.pw = NoPassword => c.isDefault = "1"
    /\ c.isDefault = "1" => c.since # Unset /\ c.since + age <= Window

\* What holds of the administrator.
CredInv ==
  /\ up => cred.user # NoOne
  /\ up /\ env # NoPassword => cred.pw = env /\ cred.isDefault = "0"
  /\ claimed => cred.isDefault = "0" /\ cred.user # NoOne /\ cred.pw # NoPassword
  /\ cred.user = NoOne => age = 0
  /\ ~torn => InWindow(cred)

\* The types of Access, apart from those of the guard.
RestTyped ==
  /\ up \in BOOLEAN
  /\ cred \in Creds
  /\ changing \subseteq [old : Typed, new : Passwords]
  /\ restoring \in BOOLEAN
  /\ cookie \in [user : Names, left : 1..SessionAge] \cup {NoCookie}
  /\ opened \in Typed \cup {NotOpened}
  /\ env \in LongPasswords \cup {NoPassword}
  /\ age \in 0..Window
  /\ claimed \in BOOLEAN
  /\ torn \in BOOLEAN

AccessInv == RestTyped /\ CredInv /\ FirstRunIsBounded

\* Filling in the beginning of the window changes nothing else.
LEMMA NotedFacts ==
  ASSUME RestTyped
  PROVE  /\ Noted \in Creds
         /\ Noted.user = cred.user /\ Noted.pw = cred.pw
         /\ Noted.isDefault = cred.isDefault
         /\ cred.isDefault # "1" \/ cred.since # Unset => Noted = cred
<1>1. CASE IsDefault /\ Hours >= 0 /\ cred.since = Unset
  <2>1. cred \in Creds /\ cred.created \in 0..Window
    BY DEF RestTyped, Creds
  <2>2. Noted = [cred EXCEPT !.since = cred.created]
    BY <1>1 DEF Noted
  <2>3. Noted \in Creds
    BY <2>1, <2>2, SinceFacts
  <2>4. [cred EXCEPT !.since = cred.created] =
           [user |-> cred.user, pw |-> cred.pw, isDefault |-> cred.isDefault,
            since |-> cred.created, created |-> cred.created]
    BY <2>1, SinceFacts
  <2>5. /\ Noted.user = cred.user /\ Noted.pw = cred.pw
        /\ Noted.isDefault = cred.isDefault
    BY <2>2, <2>4
  <2> QED BY <1>1, <2>3, <2>5 DEF IsDefault
<1>2. CASE ~(IsDefault /\ Hours >= 0 /\ cred.since = Unset)
  BY <1>2 DEF Noted, RestTyped
<1> QED BY <1>1, <1>2

\* A step that leaves the administrator alone, or fills in the beginning.
LEMMA QuietStep ==
  ASSUME RestTyped, CredInv, cred' = cred \/ cred' = Noted,
         up' = up \/ up' = FALSE, UNCHANGED <<env, age, claimed, torn>>
  PROVE  cred' \in Creds /\ CredInv'
<1>1. /\ cred' \in Creds
      /\ cred'.user = cred.user /\ cred'.pw = cred.pw
      /\ cred'.isDefault = cred.isDefault
      /\ cred.isDefault # "1" \/ cred.since # Unset => cred' = cred
  BY NotedFacts DEF RestTyped
<1>2. ~torn' => InWindow(cred)'
  <2> SUFFICES ASSUME ~torn, cred.user # NoOne
               PROVE  /\ cred'.pw = NoPassword => cred'.isDefault = "1"
                      /\ cred'.isDefault = "1"
                           => cred'.since # Unset /\ cred'.since + age <= Window
    BY <1>1 DEF InWindow
  <2>1. InWindow(cred)
    BY DEF CredInv
  <2> QED BY <1>1, <2>1 DEF InWindow
<1>3. /\ up' => cred'.user # NoOne
      /\ up' /\ env' # NoPassword => cred'.pw = env' /\ cred'.isDefault = "0"
  <2>1. up' => up
    BY Zenon
  <2> QED BY <1>1, <2>1, Zenon DEF CredInv
<1>4. /\ claimed' => cred'.isDefault = "0" /\ cred'.user # NoOne /\ cred'.pw # NoPassword
      /\ cred'.user = NoOne => age' = 0
  BY <1>1, Zenon DEF CredInv
<1> QED BY <1>1, <1>2, <1>3, <1>4 DEF CredInv

\* A password is set and acknowledged.
LEMMA ClaimStep ==
  ASSUME RestTyped, CredInv, NEW c \in {cred, Noted}, NEW user \in Names,
         NEW pw \in Passwords, Claimed(Claim(c, user, pw))
  PROVE  /\ cred' \in Creds /\ CredInv'
         /\ cred'.user = user /\ cred'.pw = pw /\ cred'.isDefault = "0"
<1>1. c \in Creds
  BY NotedFacts DEF RestTyped
<1>2. /\ cred' \in Creds
      /\ cred' = [user |-> user, pw |-> pw, isDefault |-> "0", since |-> c.since,
                  created |-> Window]
      /\ claimed' = TRUE /\ env' = NoPassword /\ UNCHANGED <<up, age, torn>>
  BY <1>1, ClaimFacts DEF Claimed
<1>3. cred'.user = user /\ cred'.pw = pw /\ cred'.isDefault = "0"
  BY <1>2
<1>4. user # NoOne /\ pw # NoPassword
  BY NamesAssumption, PasswordsAssumption
<1>5. ~torn' => InWindow(cred)'
  BY <1>3, <1>4 DEF InWindow
<1>6. CredInv'
  BY <1>2, <1>3, <1>4, <1>5, Zenon DEF CredInv
<1> QED BY <1>2, <1>3, <1>6

\* The process dies between the two commits.
LEMMA ClaimDiesStep ==
  ASSUME RestTyped, CredInv, up, NEW c \in {cred, Noted}, NEW user \in Names,
         NEW pw \in Passwords, ClaimDies(Claim(c, user, pw))
  PROVE  /\ cred' \in Creds /\ CredInv'
         /\ cred'.user = user /\ cred'.pw = pw /\ opened' = NotOpened
<1>1. /\ c \in Creds /\ c.isDefault = cred.isDefault
      /\ cred.isDefault # "1" \/ cred.since # Unset => c = cred
  BY NotedFacts DEF RestTyped
<1>2. c \in Creds
  BY <1>1
<1>3. Len(Claim(c, user, pw)) = 2 /\ Claim(c, user, pw)[1] = SetAdmin(c, user, pw)
  <2>1. Len(Claim(c, user, pw)) = 2
    BY ONLY <1>2, ClaimFacts, user \in Names, pw \in Passwords
  <2>2. Claim(c, user, pw)[1] = SetAdmin(c, user, pw)
    BY ONLY <1>2, ClaimFacts, user \in Names, pw \in Passwords
  <2> QED BY <2>1, <2>2
<1>4. cred' = SetAdmin(c, user, pw)
  <2>1. PICK i \in 1..(Len(Claim(c, user, pw)) - 1) : cred' = Claim(c, user, pw)[i]
    BY DEF ClaimDies
  <2>2. i = 1
    BY <1>3, <2>1
  <2> QED BY <1>3, <2>1, <2>2
<1>5. /\ cred' \in Creds
      /\ cred' = [user |-> user, pw |-> pw, isDefault |-> c.isDefault,
                  since |-> c.since, created |-> Window]
  <2>1. pw \in Typed
    BY DEF Typed
  <2> QED BY <1>2, <1>4, <2>1, SetAdminFacts
<1>6. /\ cred'.user = user /\ cred'.pw = pw /\ cred'.isDefault = cred.isDefault
      /\ cred.since # Unset => cred'.since = cred.since
  BY <1>1, <1>5
<1>7. up' = FALSE /\ UNCHANGED <<env, age, claimed, torn>> /\ opened' = NotOpened
  BY DEF ClaimDies, Die
<1>8. user # NoOne /\ pw # NoPassword
  BY NamesAssumption, PasswordsAssumption
<1>9. ~torn' => InWindow(cred)'
  <2> SUFFICES ASSUME ~torn, cred.isDefault = "1"
               PROVE  cred'.since # Unset /\ cred'.since + age <= Window
    BY <1>6, <1>7, <1>8 DEF InWindow
  <2>1. cred.user # NoOne
    BY DEF CredInv
  <2>2. cred.since # Unset /\ cred.since + age <= Window
    BY <2>1 DEF CredInv, InWindow
  <2> QED BY <1>6, <2>2
<1>10. CredInv'
  BY <1>6, <1>7, <1>8, <1>9, Zenon DEF CredInv
<1> QED BY <1>5, <1>6, <1>7, <1>10

\* What a boot creates begins its window at once.
LEMMA BornInWindow ==
  ASSUME RestTyped, CredInv, ~torn
  PROVE  InWindow(Born(cred))
<1>1. CASE cred.user # NoOne
  BY <1>1 DEF Born, CredInv
<1>2. CASE cred.user = NoOne
  <2>1. age = 0 /\ Window \in Nat /\ Unset # Window
    BY <1>2, WindowFacts, MarksAssumption DEF CredInv
  <2>2. Born(cred).since = Window /\ Born(cred).isDefault = "1"
    BY <1>2 DEF Born
  <2> QED BY <2>1, <2>2 DEF InWindow
<1> QED BY <1>1, <1>2

\* A boot.
LEMMA BootStep ==
  ASSUME RestTyped, CredInv, NEW pw \in LongPasswords \cup {NoPassword}, Boot(pw)
  PROVE  /\ cred' \in Creds /\ CredInv'
         /\ cred.user # NoOne => cred'.user = cred.user
<1>1. cred \in Creds
  BY DEF RestTyped
<1>2. /\ cred' = Last(BootSteps(cred, pw)) /\ env' = pw
      /\ claimed' = (claimed \/ pw # NoPassword) /\ UNCHANGED <<age, torn>>
  BY DEF Boot
<1>3. /\ cred' \in Creds
      /\ pw = NoPassword => cred' = Born(cred)
      /\ pw # NoPassword =>
           cred' = [user |-> Born(cred).user, pw |-> pw, isDefault |-> "0",
                    since |-> Born(cred).since, created |-> Window]
  BY <1>1, <1>2, BootFacts
<1>4. Born(cred).user # NoOne /\ (cred.user # NoOne => Born(cred) = cred)
  BY <1>1, CreateFacts DEF Born
<1>5. CASE pw = NoPassword
  <2>1. claimed' = claimed
    BY <1>2, <1>5 DEF RestTyped
  <2>2. cred' = Born(cred)
    BY <1>3, <1>5
  <2>3. ~torn' => InWindow(cred)'
    BY <1>2, <2>2, BornInWindow DEF InWindow
  <2>4. claimed' => cred'.isDefault = "0" /\ cred'.user # NoOne /\ cred'.pw # NoPassword
    BY <1>4, <2>1, <2>2 DEF CredInv
  <2>5. CredInv'
    BY <1>2, <1>4, <1>5, <2>2, <2>3, <2>4, Zenon DEF CredInv
  <2> QED BY <1>3, <1>4, <2>2, <2>5
<1>6. CASE pw # NoPassword
  <2>1. cred'.user = Born(cred).user /\ cred'.pw = pw /\ cred'.isDefault = "0"
    BY <1>3, <1>6
  <2>2. ~torn' => InWindow(cred)'
    BY <1>6, <2>1 DEF InWindow
  <2>3. CredInv'
    BY <1>2, <1>4, <1>6, <2>1, <2>2, Zenon DEF CredInv
  <2> QED BY <1>3, <1>4, <2>1, <2>3
<1> QED BY <1>5, <1>6

\* A boot that dies.
LEMMA BootDiesStep ==
  ASSUME RestTyped, CredInv, NEW pw \in LongPasswords \cup {NoPassword}, BootDies(pw)
  PROVE  /\ cred' \in Creds /\ CredInv' /\ torn' \in BOOLEAN
         /\ opened' = NotOpened
         /\ cred.user # NoOne => cred'.user = cred.user
<1>1. cred \in Creds /\ torn \in BOOLEAN
  BY DEF RestTyped
<1>2. PICK i \in 1..(Len(BootSteps(cred, pw)) - 1) :
        /\ cred' = BootSteps(cred, pw)[i]
        /\ torn' = (torn \/ i < Len(Create(cred)))
  BY DEF BootDies
<1>3. /\ cred' \in Creds /\ cred'.user = Born(cred).user
      /\ \/ i < Len(Create(cred))
         \/ cred' = Born(cred)
         \/ pw # NoPassword /\ cred' = SetAdmin(Born(cred), Born(cred).user, pw)
  BY <1>1, <1>2, BootFacts
<1>4. up' = FALSE /\ UNCHANGED <<env, age, claimed>> /\ opened' = NotOpened
  BY DEF BootDies, Die
<1>5. /\ Born(cred) \in Creds /\ Born(cred).user # NoOne
      /\ cred.user # NoOne => Born(cred) = cred /\ Len(Create(cred)) = 1
  <2>1. cred.user # NoOne => Create(cred) = <<cred>>
    BY Zenon DEF Create
  <2> QED BY <1>1, <2>1, CreateFacts DEF Born
<1>6. \/ torn' = TRUE /\ i < Len(Create(cred))
      \/ cred' = Born(cred)
      \/ /\ pw # NoPassword
         /\ cred' = [user |-> Born(cred).user, pw |-> pw,
                     isDefault |-> Born(cred).isDefault,
                     since |-> Born(cred).since, created |-> Window]
  <2>1. pw \in Typed /\ (Born(cred).user \in Names)
    BY <1>5, PasswordsAssumption DEF Typed, Creds
  <2>2. SetAdmin(Born(cred), Born(cred).user, pw) =
          [user |-> Born(cred).user, pw |-> pw,
           isDefault |-> Born(cred).isDefault,
           since |-> Born(cred).since, created |-> Window]
    BY <1>5, <2>1, SetAdminFacts
  <2> QED BY <1>2, <1>3, <2>2
<1>7. ~torn' => InWindow(cred)'
  <2> SUFFICES ASSUME ~torn' PROVE InWindow(cred)'
    OBVIOUS
  <2>1. ~torn /\ ~(i < Len(Create(cred))) /\ age' = age
    BY <1>1, <1>2, <1>4
  <2>2. InWindow(Born(cred))
    BY <2>1, BornInWindow
  <2>3. CASE cred' = Born(cred)
    BY <2>1, <2>2, <2>3 DEF InWindow
  <2>4. CASE /\ pw # NoPassword
             /\ cred' = [user |-> Born(cred).user, pw |-> pw,
                         isDefault |-> Born(cred).isDefault,
                         since |-> Born(cred).since, created |-> Window]
    <3>1. /\ cred'.user = Born(cred).user /\ cred'.pw # NoPassword
          /\ cred'.isDefault = Born(cred).isDefault
          /\ cred'.since = Born(cred).since
      BY <2>4
    <3> QED BY <2>1, <2>2, <3>1 DEF InWindow
  <2> QED BY <1>6, <2>1, <2>3, <2>4
<1>8. claimed' => cred'.isDefault = "0" /\ cred'.user # NoOne /\ cred'.pw # NoPassword
  <2> SUFFICES ASSUME claimed
               PROVE  cred'.isDefault = "0" /\ cred'.user # NoOne /\ cred'.pw # NoPassword
    BY <1>4
  <2>1. /\ cred.isDefault = "0" /\ cred.pw # NoPassword /\ Born(cred) = cred
        /\ Len(Create(cred)) = 1
    BY <1>5 DEF CredInv
  <2>2. ~(i < Len(Create(cred)))
    BY <2>1
  <2>3. cred'.isDefault = cred.isDefault /\ cred'.pw # NoPassword
    BY <1>6, <2>1, <2>2
  <2> QED BY <1>3, <1>5, <2>1, <2>3
<1>9. CredInv'
  <2>1. cred'.user # NoOne
    BY <1>3, <1>5
  <2> QED BY <1>4, <1>7, <1>8, <2>1, Zenon DEF CredInv
<1> QED BY <1>1, <1>2, <1>3, <1>4, <1>5, <1>9

\* A tick: the window comes nearer to its end as the panel gets older.
LEMMA TickStep ==
  ASSUME RestTyped, CredInv, Tick
  PROVE  /\ cred' \in Creds /\ CredInv' /\ age' \in 0..Window
         /\ cookie' \in [user : Names, left : 1..SessionAge] \cup {NoCookie}
         /\ cred'.user = cred.user /\ cred'.pw = cred.pw
<1> DEFINE c1 == [cred EXCEPT !.created = Sooner(cred.created)]
           t == IF cred.since = Unset THEN Unset ELSE Sooner(cred.since)
           c2 == [c1 EXCEPT !.since = t]
<1>1. /\ cred \in Creds /\ age \in 0..Window /\ Window \in Nat
      /\ cred.created \in 0..Window /\ cred.since \in (0..Window) \cup {Unset}
  BY WindowFacts DEF RestTyped, Creds
<1>2. Sooner(cred.created) \in 0..Window /\ t \in (0..Window) \cup {Unset}
  BY <1>1, MarksAssumption DEF Sooner
<1>3. cred' = c2
  <2>1. cred.since = c1.since
    BY <1>1 DEF Creds
  <2> QED BY <2>1 DEF Tick
<1>4. /\ c1 \in Creds /\ c1.user = cred.user /\ c1.pw = cred.pw
      /\ c1.isDefault = cred.isDefault
  BY <1>1, <1>2 DEF Creds
<1> HIDE DEF c1, t
<1>5. /\ c2 \in Creds /\ c2.user = cred.user /\ c2.pw = cred.pw
      /\ c2.isDefault = cred.isDefault /\ c2.since = t
  BY <1>2, <1>4 DEF Creds
<1> HIDE DEF c2
<1>6. /\ UNCHANGED <<up, env, claimed, torn>>
      /\ age' = IF cred.user = NoOne THEN age ELSE Smaller(age + 1, Window)
  BY DEF Tick
<1>7. age' \in 0..Window /\ (cred.user = NoOne => age' = age)
  BY <1>1, <1>6 DEF Smaller
<1>8. ~torn' => InWindow(cred)'
  <2> SUFFICES ASSUME ~torn, cred.user # NoOne
               PROVE  /\ cred'.pw = NoPassword => cred'.isDefault = "1"
                      /\ cred'.isDefault = "1"
                           => cred'.since # Unset /\ cred'.since + age' <= Window
    BY <1>3, <1>5, <1>6 DEF InWindow
  <2>1. /\ cred.pw = NoPassword => cred.isDefault = "1"
        /\ cred.isDefault = "1" => cred.since # Unset /\ cred.since + age <= Window
    BY DEF CredInv, InWindow
  <2>2. ASSUME cred.isDefault = "1"
        PROVE  cred'.since # Unset /\ cred'.since + age' <= Window
    <3>1. cred.since \in 0..Window /\ cred.since + age <= Window
      BY <1>1, <2>1, <2>2
    <3>2. cred'.since = Sooner(cred.since) /\ age' = Smaller(age + 1, Window)
      BY <1>3, <1>5, <1>6, <2>1, <2>2 DEF t
    <3>3. cred'.since \in Nat /\ cred'.since + age' <= Window
      BY <1>1, <3>1, <3>2 DEF Sooner, Smaller
    <3> QED BY <3>3, MarksAssumption
  <2> QED BY <1>3, <1>5, <2>1, <2>2
<1>9. CredInv'
  <2>1. /\ cred'.user = cred.user /\ cred'.pw = cred.pw
        /\ cred'.isDefault = cred.isDefault
    BY <1>3, <1>5
  <2>2. cred'.user = NoOne => age' = 0
    BY <1>7, <2>1 DEF CredInv
  <2>3. /\ up' => cred'.user # NoOne
        /\ up' /\ env' # NoPassword => cred'.pw = env' /\ cred'.isDefault = "0"
        /\ claimed' => cred'.isDefault = "0" /\ cred'.user # NoOne /\ cred'.pw # NoPassword
    BY <1>6, <2>1 DEF CredInv
  <2> QED BY <1>8, <2>2, <2>3, Zenon DEF CredInv
<1>10. cookie' \in [user : Names, left : 1..SessionAge] \cup {NoCookie}
  <2>1. CASE cookie = NoCookie \/ cookie.left = 1
    BY <2>1 DEF Tick
  <2>2. CASE ~(cookie = NoCookie \/ cookie.left = 1)
    <3>1. cookie \in [user : Names, left : 1..SessionAge] /\ cookie.left # 1
      BY <2>2 DEF RestTyped
    <3>2. cookie.left - 1 \in 1..SessionAge
      BY <3>1, TimesAssumption
    <3>3. cookie' = [cookie EXCEPT !.left = cookie.left - 1]
      BY <2>2 DEF Tick
    <3> QED BY <3>1, <3>2, <3>3
  <2> QED BY <2>1, <2>2
<1> QED BY <1>3, <1>5, <1>7, <1>9, <1>10

\* What the steps of a restore leave: the administrator of the backup, or one
\* that is created.
LEMMA RestoreFacts ==
  ASSUME NEW c \in Creds
  PROVE  /\ \A i \in 1..(Len(RestoreSteps(c)) - 1) : RestoreSteps(c)[i] \in Creds
         /\ Last(RestoreSteps(c)) = Born(c)
<1> DEFINE a == <<c>>
           b == Create(c)
<1>1. /\ b \in Seq(Creds) /\ Len(b) \in Nat \ {0} /\ b[Len(b)] = Born(c)
  BY CreateFacts
<1>2. a \in Seq(Creds) /\ Len(a) = 1 /\ RestoreSteps(c) = a \o b
  BY DEF RestoreSteps
<1> HIDE DEF a, b
<1>3. /\ a \o b \in Seq(Creds) /\ Len(a \o b) = 1 + Len(b)
      /\ \A i \in (1 + 1)..(1 + Len(b)) : (a \o b)[i] = b[i - 1]
  <2>1. a \in Seq(Creds) /\ b \in Seq(Creds)
    BY <1>1, <1>2
  <2>2. a \o b \in Seq(Creds) /\ Len(a \o b) = Len(a) + Len(b)
    BY ONLY <2>1, ConcatProperties
  <2>3. \A i \in (Len(a) + 1)..(Len(a) + Len(b)) : (a \o b)[i] = b[i - Len(a)]
    BY ONLY <2>1, ConcatProperties
  <2> QED BY <1>2, <2>2, <2>3
<1>4. ASSUME NEW i \in 1..(Len(a \o b) - 1) PROVE (a \o b)[i] \in Creds
  <2>1. i \in 1..Len(a \o b)
    BY <1>1, <1>3
  <2> QED BY <1>3, <2>1, ElementOfSeq
<1>5. Last(a \o b) = Born(c)
  <2>1. 1 + Len(b) \in (1 + 1)..(1 + Len(b)) /\ (1 + Len(b)) - 1 = Len(b)
    BY <1>1
  <2> QED BY <1>1, <1>3, <2>1 DEF Last
<1> QED BY <1>2, <1>4, <1>5

\* A restore: what is claimed, and how old it is, the backup says.
LEMMA RestoreStep ==
  ASSUME RestTyped, CredInv, NEW file \in Uploads, Restore(file)
  PROVE  /\ cred' \in Creds /\ CredInv' /\ age' \in 0..Window
         /\ claimed' \in BOOLEAN /\ torn' \in BOOLEAN
<1>1. file.cred \in Creds
  BY UploadsAssumption
<1>2. /\ age' = IF cred'.user = NoOne \/ cred'.since = Unset THEN 0
                ELSE Window - cred'.since
      /\ claimed' = (cred'.user # NoOne /\ cred'.isDefault = "0"
                       /\ cred'.pw # NoPassword)
      /\ torn' = Interrupted(cred')
      /\ env' = NoPassword
  BY DEF Restore
<1>3. \/ cred' = Last(RestoreSteps(file.cred))
      \/ /\ up' = FALSE
         /\ \E i \in 1..(Len(RestoreSteps(file.cred)) - 1) :
              cred' = RestoreSteps(file.cred)[i]
  BY DEF Restore
<1>4. cred' \in Creds /\ (up' => cred'.user # NoOne)
  BY <1>1, <1>3, RestoreFacts, CreateFacts
<1>5. /\ Window \in Nat /\ cred'.since \in (0..Window) \cup {Unset}
      /\ cred'.pw \in Typed
  BY <1>4, WindowFacts DEF Creds
<1>6. age' \in 0..Window /\ (cred'.user = NoOne => age' = 0)
      /\ (cred'.user # NoOne /\ cred'.since # Unset => cred'.since + age' = Window)
  BY <1>2, <1>5
<1>7. claimed' \in BOOLEAN /\ torn' \in BOOLEAN
  BY <1>2 DEF Interrupted
<1>8. ASSUME ~torn', cred'.user # NoOne
      PROVE  /\ cred'.pw = NoPassword => cred'.isDefault = "1"
             /\ cred'.isDefault = "1" => cred'.since # Unset /\ cred'.since + age' <= Window
  <2>1. IF cred'.isDefault = "1" THEN cred'.since # Unset ELSE cred'.pw # NoPassword
    BY <1>2, <1>8 DEF Interrupted
  <2>2. cred'.since # Unset => cred'.since + age' <= Window
    BY <1>5, <1>6, <1>8
  <2> QED BY <2>1, <2>2
<1>9. ~torn' => InWindow(cred)'
  BY <1>8 DEF InWindow
<1>10. CredInv'
  BY <1>2, <1>4, <1>6, <1>9, Zenon DEF CredInv
<1> QED BY <1>4, <1>6, <1>7, <1>10

\* A session that opens without a password opens within the window.
LEMMA OpensInWindow ==
  ASSUME RestTyped, CredInv, up, NEW user \in Names, Accepts(user, NoPassword)
  PROVE  torn \/ Hours < 0 \/ age < Window
<1> SUFFICES ASSUME ~torn, ~(Hours < 0)
             PROVE  age < Window
  OBVIOUS
<1>1. cred.user # NoOne /\ InWindow(cred)
  BY DEF CredInv
<1>2. IsDefault
  <2>1. ~IsDefault => cred.pw = NoPassword
    BY DEF Accepts
  <2> QED BY <1>1, <2>1 DEF InWindow, IsDefault
<1>3. cred.since # Unset /\ cred.since + age <= Window
  BY <1>1, <1>2 DEF InWindow, IsDefault
<1>4. cred.since > 0
  <2>1. Noted = cred
    BY <1>3, NotedFacts
  <2>2. FirstRunOpen
    BY <1>2 DEF Accepts
  <2> QED BY <2>1, <2>2 DEF FirstRunOpen
<1>5. cred.since \in 0..Window /\ age \in 0..Window /\ Window \in Nat
  BY <1>3, WindowFacts DEF RestTyped, Creds
<1> QED BY <1>3, <1>4, <1>5

\* Every step keeps the invariant.
LEMMA AccessStep ==
  ASSUME AccessInv, [Next]_vars
  PROVE  AccessInv'
<1>1. RestTyped /\ CredInv /\ FirstRunIsBounded
  BY DEF AccessInv
<1>2. NotOpened # NoPassword /\ NotOpened \in Typed \cup {NotOpened}
  BY MarksAssumption DEF NotOpened
<1>3. ASSUME opened' = NotOpened PROVE FirstRunIsBounded'
  BY <1>2, <1>3 DEF FirstRunIsBounded
<1>4. CASE UNCHANGED vars
  BY <1>1, <1>4 DEF vars, accessVars, AccessInv, RestTyped, CredInv, InWindow,
     FirstRunIsBounded
<1>5. CASE Crash
  <2>1. /\ up' = FALSE /\ changing' = {} /\ restoring' = FALSE /\ opened' = NotOpened
        /\ UNCHANGED <<cookie, env, age, claimed, cred, torn>>
    BY <1>5 DEF Crash, Die
  <2>2. cred' \in Creds /\ CredInv'
    BY <1>1, <2>1, QuietStep
  <2>3. RestTyped'
    BY <1>1, <1>2, <2>1, <2>2, Zenon DEF RestTyped
  <2> QED BY <1>3, <2>1, <2>2, <2>3 DEF AccessInv
<1>6. ASSUME NEW pw \in LongPasswords \cup {NoPassword}, Boot(pw)
      PROVE  AccessInv'
  <2>1. /\ up' = TRUE /\ env' = pw /\ opened' = NotOpened
        /\ claimed' = (claimed \/ pw # NoPassword)
        /\ UNCHANGED <<changing, restoring, cookie, age, torn>>
    BY <1>6 DEF Boot
  <2>2. cred' \in Creds /\ CredInv'
    BY <1>1, <1>6, BootStep
  <2>3. claimed' \in BOOLEAN
    BY <2>1
  <2>4. RestTyped'
    BY <1>1, <1>2, <2>1, <2>2, <2>3, Zenon DEF RestTyped
  <2> QED BY <1>3, <2>1, <2>2, <2>4 DEF AccessInv
<1>7. ASSUME NEW pw \in LongPasswords \cup {NoPassword}, BootDies(pw)
      PROVE  AccessInv'
  <2>1. /\ up' = FALSE /\ changing' = {} /\ restoring' = FALSE /\ opened' = NotOpened
        /\ UNCHANGED <<cookie, env, age, claimed>>
    BY <1>7 DEF BootDies, Die
  <2>2. cred' \in Creds /\ CredInv' /\ torn' \in BOOLEAN
    BY <1>1, <1>7, BootDiesStep
  <2>3. RestTyped'
    BY <1>1, <1>2, <2>1, <2>2, Zenon DEF RestTyped
  <2> QED BY <1>3, <2>1, <2>2, <2>3 DEF AccessInv
<1>8. CASE Visit \/ LoginFails \/ LoginAnswered \/ Logout
            \/ StartRestore \/ RestoreFails
            \/ \E old \in Typed, new \in Passwords : StartChange(old, new)
  <2>1. /\ opened' = NotOpened /\ UNCHANGED <<up, env, age, claimed, torn>>
        /\ cred' = cred \/ cred' = Noted
        /\ cookie' = cookie \/ cookie' = NoCookie
    BY <1>8 DEF Visit, LoginFails, LoginAnswered, Logout, StartRestore,
       RestoreFails, StartChange
  <2>6. restoring' \in BOOLEAN
    BY <1>1, <1>8 DEF Visit, LoginFails, LoginAnswered, Logout, StartRestore,
       RestoreFails, StartChange, RestTyped
  <2>2. changing' \subseteq [old : Typed, new : Passwords]
    <3>1. CASE \E old \in Typed, new \in Passwords : StartChange(old, new)
      BY <1>1, <3>1 DEF StartChange, RestTyped
    <3>2. CASE Visit \/ LoginFails \/ LoginAnswered \/ Logout
               \/ StartRestore \/ RestoreFails
      BY <1>1, <3>2 DEF Visit, LoginFails, LoginAnswered, Logout, StartRestore,
         RestoreFails, RestTyped
    <3> QED BY <1>8, <3>1, <3>2
  <2>3. cred' \in Creds /\ CredInv'
    BY <1>1, <2>1, QuietStep
  <2>4. cookie' \in [user : Names, left : 1..SessionAge] \cup {NoCookie}
    BY <1>1, <2>1 DEF RestTyped
  <2>5. RestTyped'
    BY <1>1, <1>2, <2>1, <2>2, <2>3, <2>4, <2>6, Zenon DEF RestTyped
  <2> QED BY <1>3, <2>1, <2>3, <2>5 DEF AccessInv
<1>9. ASSUME NEW user \in Names, NEW pw \in Typed, Login(user, pw)
      PROVE  AccessInv'
  <2>1. /\ up /\ Accepts(user, pw) /\ cred' = Noted /\ opened' = pw
        /\ cookie' = [user |-> user, left |-> SessionAge]
        /\ UNCHANGED <<up, changing, restoring, env, age, claimed, torn>>
    BY <1>9 DEF Login, OpenSession
  <2>2. cred' \in Creds /\ CredInv'
    BY <1>1, <2>1, QuietStep
  <2>3. cookie' \in [user : Names, left : 1..SessionAge] \cup {NoCookie}
    BY <2>1, TimesAssumption
  <2>4. opened' \in Typed \cup {NotOpened}
    BY <2>1
  <2>5. RestTyped'
    BY <1>1, <2>1, <2>2, <2>3, <2>4, Zenon DEF RestTyped
  <2>6. opened' = NoPassword => torn \/ Hours < 0 \/ age < Window
    <3>1. ASSUME pw = NoPassword PROVE torn \/ Hours < 0 \/ age < Window
      <4>1. Accepts(user, NoPassword) /\ up
        BY <2>1, <3>1
      <4> QED BY <1>1, <4>1, OpensInWindow
    <3> QED BY <2>1, <3>1
  <2>7. FirstRunIsBounded'
    BY <2>1, <2>6 DEF FirstRunIsBounded
  <2> QED BY <2>2, <2>5, <2>7 DEF AccessInv
<1>10. ASSUME NEW user \in Names, NEW pw \in Passwords, Setup(user, pw)
       PROVE  AccessInv'
  <2>0. up
    BY <1>10 DEF Setup
  <2>1. CASE /\ Claimed(Claim(Noted, user, pw))
             /\ OpenSession(user, pw)
             /\ UNCHANGED changing
    <3>1. /\ claimed' = TRUE /\ env' = NoPassword /\ opened' = pw
          /\ cookie' = [user |-> user, left |-> SessionAge]
          /\ UNCHANGED <<up, restoring, age, torn, changing>>
      BY <2>1 DEF Claimed, OpenSession
    <3>2. cred' \in Creds /\ CredInv'
      BY <1>1, <2>1, ClaimStep
    <3>3. cookie' \in [user : Names, left : 1..SessionAge] \cup {NoCookie}
      BY <3>1, TimesAssumption
    <3>4. /\ opened' \in Typed \cup {NotOpened} /\ claimed' \in BOOLEAN
          /\ env' \in LongPasswords \cup {NoPassword} /\ opened' # NoPassword
      BY <3>1, PasswordsAssumption DEF Typed
    <3>5. RestTyped'
      BY <1>1, <3>1, <3>2, <3>3, <3>4, Zenon DEF RestTyped
    <3>6. FirstRunIsBounded'
      BY <3>4 DEF FirstRunIsBounded
    <3> QED BY <3>2, <3>5, <3>6 DEF AccessInv
  <2>2. CASE ClaimDies(Claim(Noted, user, pw))
    <3>1. /\ up' = FALSE /\ changing' = {} /\ restoring' = FALSE /\ opened' = NotOpened
          /\ UNCHANGED <<cookie, env, age, claimed, torn>>
      BY <2>2 DEF ClaimDies, Die
    <3>2. cred' \in Creds /\ CredInv'
      BY <1>1, <2>0, <2>2, ClaimDiesStep
    <3>3. RestTyped'
      BY <1>1, <1>2, <3>1, <3>2, Zenon DEF RestTyped
    <3> QED BY <1>3, <3>1, <3>2, <3>3 DEF AccessInv
  <2> QED BY <1>10, <2>1, <2>2 DEF Setup
<1>11. ASSUME NEW c \in changing, FinishChange(c)
       PROVE  AccessInv'
  <2>9. up
    BY <1>11 DEF FinishChange
  <2>0. /\ c.new \in Passwords /\ cred.user \in Names
        /\ changing \ {c} \subseteq [old : Typed, new : Passwords]
    BY <1>1, <1>11, <2>9 DEF RestTyped, CredInv, Creds
  <2>1. CASE /\ changing' = changing \ {c} /\ opened' = NotOpened
             /\ UNCHANGED <<cookie, up, cred, restoring, env, age, claimed, torn>>
    <3>1. cred' \in Creds /\ CredInv'
      BY <1>1, <2>1, QuietStep
    <3>2. RestTyped'
      BY <1>1, <1>2, <2>0, <2>1, <3>1, Zenon DEF RestTyped
    <3> QED BY <1>3, <2>1, <3>1, <3>2 DEF AccessInv
  <2>2. CASE /\ changing' = changing \ {c} /\ opened' = NotOpened
             /\ UNCHANGED cookie /\ Claimed(Claim(cred, cred.user, c.new))
    <3>1. /\ claimed' = TRUE /\ env' = NoPassword
          /\ UNCHANGED <<up, restoring, age, torn>>
      BY <2>2 DEF Claimed
    <3>2. cred' \in Creds /\ CredInv'
      BY <1>1, <2>0, <2>2, ClaimStep
    <3>3. claimed' \in BOOLEAN /\ env' \in LongPasswords \cup {NoPassword}
      BY <3>1
    <3>4. RestTyped'
      BY <1>1, <1>2, <2>0, <2>2, <3>1, <3>2, <3>3, Zenon DEF RestTyped
    <3> QED BY <1>3, <2>2, <3>2, <3>4 DEF AccessInv
  <2>3. CASE ClaimDies(Claim(cred, cred.user, c.new))
    <3>1. /\ up' = FALSE /\ changing' = {} /\ restoring' = FALSE /\ opened' = NotOpened
          /\ UNCHANGED <<cookie, env, age, claimed, torn>>
      BY <2>3 DEF ClaimDies, Die
    <3>2. cred' \in Creds /\ CredInv'
      BY <1>1, <2>0, <2>3, <2>9, ClaimDiesStep
    <3>3. RestTyped'
      BY <1>1, <1>2, <3>1, <3>2, Zenon DEF RestTyped
    <3> QED BY <1>3, <3>1, <3>2, <3>3 DEF AccessInv
  <2> QED BY <1>11, <2>1, <2>2, <2>3 DEF FinishChange
<1>12. CASE Tick
  <2>1. /\ opened' = NotOpened /\ UNCHANGED <<up, changing, restoring, env, claimed, torn>>
    BY <1>12 DEF Tick
  <2>2. /\ cred' \in Creds /\ CredInv' /\ age' \in 0..Window
        /\ cookie' \in [user : Names, left : 1..SessionAge] \cup {NoCookie}
    BY <1>1, <1>12, TickStep
  <2>3. RestTyped'
    BY <1>1, <1>2, <2>1, <2>2, Zenon DEF RestTyped
  <2> QED BY <1>3, <2>1, <2>2, <2>3 DEF AccessInv
<1>13. ASSUME NEW file \in Uploads, Restore(file)
       PROVE  AccessInv'
  <2>1. /\ restoring' = FALSE /\ opened' = NotOpened /\ env' = NoPassword
        /\ up' = up \/ up' = FALSE
        /\ changing' = changing \/ changing' = {}
        /\ cookie' = cookie \/ cookie' = NoCookie
    BY <1>13 DEF Restore
  <2>2. /\ cred' \in Creds /\ CredInv' /\ age' \in 0..Window
        /\ claimed' \in BOOLEAN /\ torn' \in BOOLEAN
    BY <1>1, <1>13, RestoreStep
  <2>3. /\ changing' \subseteq [old : Typed, new : Passwords]
        /\ cookie' \in [user : Names, left : 1..SessionAge] \cup {NoCookie}
        /\ up' \in BOOLEAN
    BY <1>1, <2>1 DEF RestTyped
  <2>4. opened' \in Typed \cup {NotOpened} /\ env' \in LongPasswords \cup {NoPassword}
    BY <1>2, <2>1
  <2>5. RestTyped'
    BY <2>1, <2>2, <2>3, <2>4, Zenon DEF RestTyped
  <2> QED BY <1>3, <2>1, <2>2, <2>5 DEF AccessInv
<1> QED BY <1>4, <1>5, <1>6, <1>7, <1>8, <1>9, <1>10, <1>11, <1>12, <1>13 DEF Next

\* The panel, before it is first started.
LEMMA AccessStarts == Init => AccessInv
<1> SUFFICES ASSUME Init PROVE AccessInv
  OBVIOUS
<1>1. cred \in Creds /\ cred.user = NoOne
  BY WindowFacts DEF Init, Creds, Typed
<1>2. NotOpened # NoPassword
  BY MarksAssumption DEF NotOpened
<1>3. age \in 0..Window
  BY WindowFacts DEF Init
<1>4. RestTyped
  BY <1>1, <1>3 DEF Init, RestTyped
<1>5. CredInv
  BY <1>1 DEF Init, CredInv, InWindow
<1>6. FirstRunIsBounded
  BY <1>2 DEF Init, FirstRunIsBounded
<1> QED BY <1>4, <1>5, <1>6 DEF AccessInv

\* The invariant of Access holds throughout.
THEOREM AccessInvariant == Spec => []AccessInv
<1>1. AccessInv /\ [Next]_vars => AccessInv'
  BY AccessStep
<1> QED BY <1>1, AccessStarts, PTL DEF Spec

\* All variables keep their types.
THEOREM TypeCorrect == Spec => []TypeOK
<1>1. GuardInv /\ AccessInv => TypeOK
  BY DEF GuardInv, AccessInv, RestTyped, TypeOK
<1> QED BY <1>1, GuardInvariant, AccessInvariant, PTL

\* A session without a password opens within the first-run window only.
THEOREM FirstRunBounded == Spec => []FirstRunIsBounded
<1>1. AccessInv => FirstRunIsBounded
  BY DEF AccessInv
<1> QED BY <1>1, AccessInvariant, PTL

\* The password of the environment is accepted from the boot that sets it.
THEOREM RecoveryAlwaysWorks == Spec => []RecoveryWorks
<1>1. AccessInv => RecoveryWorks
  <2> SUFFICES ASSUME AccessInv, up, env # NoPassword
               PROVE  Accepts(cred.user, env)
    BY DEF RecoveryWorks
  <2>1. cred.pw = env /\ cred.isDefault = "0"
    BY DEF AccessInv, CredInv
  <2> QED BY <2>1 DEF Accepts, IsDefault
<1> QED BY <1>1, AccessInvariant, PTL

\* A panel with an acknowledged password is never open without one, until a
\* backup is restored.
THEOREM ClaimFinal == Spec => ClaimIsFinal
<1>1. ASSUME AccessInv, [Next]_vars
      PROVE  [claimed => opened' # NoPassword
                           /\ (cred'.user = cred.user \/ Restored)]_vars
  <2> SUFFICES ASSUME Next, claimed
               PROVE  opened' # NoPassword /\ (cred'.user = cred.user \/ Restored)
    BY <1>1
  <2>1. /\ RestTyped /\ CredInv /\ ~IsDefault /\ cred.user # NoOne
        /\ cred.pw # NoPassword /\ NotOpened # NoPassword
    BY <1>1, MarksAssumption DEF AccessInv, CredInv, IsDefault, NotOpened
  <2>2. Noted = cred
    BY <2>1 DEF Noted
  <2>3. CASE Crash \/ Visit \/ LoginFails \/ LoginAnswered \/ Logout
             \/ StartRestore \/ RestoreFails
             \/ \E old \in Typed, new \in Passwords : StartChange(old, new)
    BY <2>1, <2>2, <2>3 DEF Crash, Die, Visit, LoginFails, LoginAnswered, Logout,
       StartRestore, RestoreFails, StartChange
  <2>4. ASSUME NEW pw \in LongPasswords \cup {NoPassword}, Boot(pw) \/ BootDies(pw)
        PROVE  opened' # NoPassword /\ cred'.user = cred.user
    <3>1. opened' = NotOpened
      BY <2>4 DEF Boot, BootDies, Die
    <3>2. cred'.user = cred.user
      BY <2>1, <2>4, BootStep, BootDiesStep
    <3> QED BY <2>1, <3>1, <3>2
  <2>5. ASSUME NEW user \in Names, NEW pw \in Typed, Login(user, pw)
        PROVE  opened' # NoPassword /\ cred'.user = cred.user
    BY <2>1, <2>2, <2>5 DEF Login, Accepts, OpenSession
  <2>6. ASSUME NEW user \in Names, NEW pw \in Passwords, Setup(user, pw)
        PROVE  FALSE
    BY <2>1, <2>6 DEF Setup, FirstRunOpen
  <2>7. ASSUME NEW c \in changing, FinishChange(c)
        PROVE  opened' # NoPassword /\ cred'.user = cred.user
    <3>1. c.new \in Passwords /\ cred.user \in Names /\ up
      BY <2>1, <2>7 DEF RestTyped, Creds, FinishChange
    <3>2. CASE opened' = NotOpened /\ cred' = cred
      BY <2>1, <3>2
    <3>3. CASE opened' = NotOpened /\ Claimed(Claim(cred, cred.user, c.new))
      <4>1. cred'.user = cred.user
        BY <2>1, <3>1, <3>3, ClaimStep
      <4> QED BY <2>1, <3>3, <4>1
    <3>4. CASE ClaimDies(Claim(cred, cred.user, c.new))
      <4>1. cred'.user = cred.user /\ opened' = NotOpened
        BY <2>1, <3>1, <3>4, ClaimDiesStep
      <4> QED BY <2>1, <4>1
    <3> QED BY <2>7, <3>2, <3>3, <3>4 DEF FinishChange
  <2>8. CASE Tick
    <3>1. cred'.user = cred.user
      BY <2>1, <2>8, TickStep
    <3>2. opened' = NotOpened
      BY <2>8 DEF Tick
    <3> QED BY <2>1, <3>1, <3>2
  <2>9. CASE Restored
    <3>1. opened' = NotOpened
      BY <2>9 DEF Restored, Restore
    <3> QED BY <2>1, <2>9, <3>1
  <2> QED BY <2>3, <2>4, <2>5, <2>6, <2>7, <2>8, <2>9 DEF Next, Restored
<1> QED BY <1>1, AccessInvariant, PTL DEF Spec, ClaimIsFinal

\* Who changes the password has typed the one that is in force, or restores a
\* backup.
THEOREM ChangesAuthorised == Spec => PasswordChangesAreAuthorised
<1> DEFINE Auth == \E c \in changing \ changing' : c.old = cred.pw /\ c.new = cred'.pw
<1>1. ASSUME AccessInv, [Next]_vars
      PROVE  [up /\ ~IsDefault /\ cred'.pw # cred.pw => Auth \/ Restored]_vars
  <2> SUFFICES ASSUME Next, up, ~IsDefault, cred'.pw # cred.pw, ~Restored
               PROVE  Auth
    BY <1>1
  <2>1. RestTyped /\ CredInv /\ Noted = cred
    BY <1>1 DEF AccessInv, Noted
  <2>2. CASE Crash \/ Visit \/ LoginFails \/ LoginAnswered \/ Logout
             \/ StartRestore \/ RestoreFails
             \/ \E old \in Typed, new \in Passwords : StartChange(old, new)
    BY <2>1, <2>2 DEF Crash, Visit, LoginFails, LoginAnswered, Logout,
       StartRestore, RestoreFails, StartChange
  <2>3. CASE \E pw \in LongPasswords \cup {NoPassword} : Boot(pw) \/ BootDies(pw)
    BY <2>3 DEF Boot, BootDies
  <2>4. CASE \E user \in Names, pw \in Typed : Login(user, pw)
    BY <2>1, <2>4 DEF Login
  <2>5. CASE \E user \in Names, pw \in Passwords : Setup(user, pw)
    BY <2>5 DEF Setup, FirstRunOpen
  <2>6. ASSUME NEW c \in changing, FinishChange(c)
        PROVE  Auth
    <3>1. c.new \in Passwords /\ cred.user \in Names
      BY <2>1, <2>6 DEF RestTyped, CredInv, Creds
    <3>2. c.old = cred.pw /\ c \notin changing'
      BY <2>6 DEF FinishChange, ClaimDies, Die
    <3>3. CASE Claimed(Claim(cred, cred.user, c.new))
      <4>1. cred'.pw = c.new
        BY <2>1, <3>1, <3>3, ClaimStep
      <4> QED BY <3>2, <4>1
    <3>4. CASE ClaimDies(Claim(cred, cred.user, c.new))
      <4>1. cred'.pw = c.new
        BY <2>1, <3>1, <3>4, ClaimDiesStep
      <4> QED BY <3>2, <4>1
    <3> QED BY <2>6, <3>3, <3>4 DEF FinishChange
  <2>7. CASE Tick
    BY <2>1, <2>7, TickStep
  <2> QED BY <2>2, <2>3, <2>4, <2>5, <2>6, <2>7 DEF Next, Restored
<1> QED BY <1>1, AccessInvariant, PTL DEF Spec, PasswordChangesAreAuthorised
=============================================================================
