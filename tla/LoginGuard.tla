----------------------------- MODULE LoginGuard -----------------------------
(***************************************************************************)
(* The guard against guessing in api_login of app/main.py, with the limits *)
(* of app/config.py.  A login reads the counter before it judges the       *)
(* password; a failed one sleeps, and only then writes the counter it has  *)
(* read, plus one.  Attempts overlap while they sleep.                     *)
(*                                                                         *)
(* The counter is kept in the database, under the address of the peer.     *)
(* Behind nginx every visitor has the same one, so there is one counter.   *)
(* A restored backup replaces it, while attempts go on sleeping.           *)
(*                                                                         *)
(* Time passes in ticks.  A pause or a lock is the number of ticks it has  *)
(* left, and the event loop runs a timer that is due before the next tick. *)
(* A login that finds the lock set answers 429 and changes nothing, and is *)
(* not modelled.                                                           *)
(***************************************************************************)
EXTENDS Naturals, Sequences, SequencesExt

CONSTANTS
  SoftFails,    \* failures after which an attempt is answered late
  HardLock,     \* failures after which the panel is locked
  LockTime,     \* how long it is locked
  Pauses,       \* how late the answers are, one after the other
  MaxOverlap    \* bound on the attempts that sleep at a time

ASSUME LimitsAssumption ==
  /\ SoftFails \in Nat \ {0}
  /\ HardLock \in Nat /\ SoftFails <= HardLock
  /\ LockTime \in Nat
  /\ MaxOverlap \in Nat \ {0}

\* The pauses grow, and the lock outlasts the longest.
ASSUME PausesAssumption ==
  /\ Pauses \in Seq(Nat \ {0}) /\ Pauses # <<>>
  /\ \A i, j \in 1..Len(Pauses) : i <= j => Pauses[i] <= Pauses[j]
  /\ Pauses[Len(Pauses)] < LockTime

VARIABLES
  count,      \* the failures that have been written
  lock,       \* how long the panel is still locked
  sleeping,   \* failed attempts, in the order in which they will wake
  streak,     \* history: failures since the last success or lock
  tidy        \* history: no success has come in while attempts slept

guardVars == <<count, lock, sleeping, streak, tidy>>

Smaller(a, b) == IF a <= b THEN a ELSE b

\* How long the attempt that is failure number c waits.
Pause(c) ==
  IF c < SoftFails THEN 0
  ELSE Pauses[Smaller(c - SoftFails + 1, Len(Pauses))]

\* The history is counted as far as GuessesAreBounded needs it.
MaxStreak == MaxOverlap * HardLock + 1

Attempts == [count : 1..HardLock, left : 0..LockTime]

\* What the database may say: a lock is written with a counter of zero.
Counters == {c \in [count : 0..(HardLock - 1), lock : 0..LockTime] :
               c.lock > 0 => c.count = 0}

GuardTypeOK ==
  /\ count \in 0..(HardLock - 1)
  /\ lock \in 0..LockTime
  /\ sleeping \in Seq(Attempts)
  /\ streak \in 0..MaxStreak
  /\ tidy \in BOOLEAN

GuardInit ==
  /\ count = 0
  /\ lock = 0
  /\ sleeping = <<>>
  /\ streak = 0
  /\ tidy = TRUE

-----------------------------------------------------------------------------
\* Failure number c is written, or the lock it leads to.
Note(c) ==
  IF c >= HardLock
  THEN count' = 0 /\ lock' = LockTime
  ELSE count' = c /\ lock' = 0

\* An attempt goes to sleep.  Timers run in the order of their deadlines.
FallAsleep(attempt) ==
  \E k \in 0..Len(sleeping) :
    /\ \A i \in 1..k : sleeping[i].left <= attempt.left
    /\ \A i \in (k + 1)..Len(sleeping) : sleeping[i].left > attempt.left
    /\ sleeping' = InsertAt(sleeping, k + 1, attempt)

\* A failed attempt is written at once, or when it has slept.
CountFailure(c) ==
  /\ streak' = Smaller(streak + 1, MaxStreak)
  /\ UNCHANGED tidy
  /\ \/ Pause(c) = 0 /\ Note(c) /\ UNCHANGED sleeping
     \/ /\ Pause(c) > 0
        /\ Len(sleeping) < MaxOverlap
        /\ FallAsleep([count |-> c, left |-> Pause(c)])
        /\ UNCHANGED <<count, lock>>

\* Faulty: an attempt while the panel is locked renews the lock.
FailAndRenew ==
  \/ lock = 0 /\ CountFailure(count + 1)
  \/ lock > 0 /\ lock' = LockTime /\ UNCHANGED <<count, sleeping, streak, tidy>>

\* An attempt is judged and fails.
Fail == lock = 0 /\ CountFailure(count + 1)

\* An attempt is judged and succeeds.
Succeed ==
  /\ lock = 0
  /\ count' = 0
  /\ lock' = 0
  /\ streak' = 0
  /\ tidy' = (sleeping = <<>>)
  /\ UNCHANGED sleeping

\* Faulty: what was counted meanwhile is overwritten by what was read.
WakeAndWriteBack ==
  /\ sleeping # <<>> /\ Head(sleeping).left = 0
  /\ sleeping' = Tail(sleeping)
  /\ Note(Head(sleeping).count - 1)
  /\ streak' = IF lock' > 0 THEN 0 ELSE streak
  /\ tidy' = (tidy \/ (lock' > 0 /\ sleeping' = <<>>))

\* A failed attempt has slept and writes what it counted.
Wake ==
  /\ sleeping # <<>> /\ Head(sleeping).left = 0
  /\ sleeping' = Tail(sleeping)
  /\ Note(Head(sleeping).count)
  /\ streak' = IF lock' > 0 THEN 0 ELSE streak
  /\ tidy' = (tidy \/ (lock' > 0 /\ sleeping' = <<>>))

Sooner(t) == IF t = 0 THEN 0 ELSE t - 1

\* Time passes.
GuardTick ==
  /\ sleeping # <<>> => Head(sleeping).left > 0
  /\ lock' = Sooner(lock)
  /\ sleeping' = [i \in DOMAIN sleeping |->
                    [sleeping[i] EXCEPT !.left = Sooner(@)]]
  /\ UNCHANGED <<count, streak, tidy>>

\* The process dies: attempts that sleep are forgotten, also by the history.
GuardRestart ==
  /\ sleeping' = <<>>
  /\ streak' = IF sleeping = <<>> THEN streak ELSE count
  /\ UNCHANGED <<count, lock, tidy>>

\* The database is replaced by one that says c.  The history begins anew.
GuardReplace(c) ==
  /\ count' = c.count
  /\ lock' = c.lock
  /\ streak' = c.count
  /\ tidy' = (sleeping' = <<>>)

\* Attempts sleep on, or have died with the process.
Replace == sleeping' \in {sleeping, <<>>} /\ \E c \in Counters : GuardReplace(c)

GuardStep == Fail \/ Succeed \/ Wake \/ GuardTick \/ GuardRestart

GuardNext == GuardStep \/ Replace

\* A timer that is due runs, and time passes.
GuardSpec ==
  GuardInit /\ [][GuardNext]_guardVars /\ WF_guardVars(Wake)
  /\ WF_guardVars(GuardTick)

-----------------------------------------------------------------------------
\* Overlapping attempts make the counter lag behind, by no more than as many
\* failures for each it counts as there are attempts that overlap.
GuessesAreBounded == tidy => streak <= MaxOverlap * (count + 1)
=============================================================================
