------------------------------- MODULE Access -------------------------------
(***************************************************************************)
(* Who may administer the panel: the administrator that the panel creates  *)
(* for itself, the first-run window in which it lets in without a password,*)
(* setup, login, change of the password, recovery by the environment       *)
(* variable TITAN_ADMIN_PASSWORD, and the restore of a backup, which puts  *)
(* another database in the place of this one (app/main.py, app/db.py).     *)
(*                                                                         *)
(* Every set_admin and every set_meta is a commit of its own, and the      *)
(* process may die between two of them.  A handler that awaits the body of *)
(* its request sees the database as it is afterwards.  Failed logins are   *)
(* counted by LoginGuard.                                                  *)
(*                                                                         *)
(* Data abstracted: a password is a value, compared instead of hashed; the *)
(* key that signs sessions is that of the database, so a restore may end   *)
(* the session; time is the number of ticks left, as in LoginGuard.  One   *)
(* browser is modelled, and a backup is what it says of administrator and  *)
(* counter.                                                                *)
(***************************************************************************)
EXTENDS LoginGuard, Integers, FiniteSets

CONSTANTS
  Names,          \* user names that are tried
  DefaultName,    \* the name of the administrator the panel creates
  Passwords,      \* passwords, long enough to be accepted
  LongPasswords,  \* those that TITAN_ADMIN_PASSWORD may set
  NoPassword,     \* the empty password, and no password in the environment
  NoOne,          \* there is no administrator yet
  NoCookie,       \* the browser has no session
  Unset,          \* a row of the meta table that is not there
  Hours,          \* length of the first-run window, negative: without end
  SessionAge,     \* how long a session is accepted
  MaxChanging,    \* bound on the changes of the password under way
  Uploads         \* the backups that are restored, of this panel or another

ASSUME NamesAssumption == DefaultName \in Names /\ NoOne \notin Names
ASSUME PasswordsAssumption ==
  LongPasswords \subseteq Passwords /\ NoPassword \notin Passwords
ASSUME TimesAssumption == Hours \in Int /\ SessionAge \in Nat \ {0}
ASSUME MarksAssumption ==
  /\ Unset \notin Nat \cup {"0", "1"}
  /\ "none" \notin Passwords \cup {NoPassword}
ASSUME ChangingAssumption == MaxChanging \in Nat
ASSUME CookieAssumption == NoCookie \notin [user : Names, left : 1..SessionAge]

VARIABLES
  up,         \* the panel is running
  cred,       \* the administrator, and what the meta table says of it
  changing,   \* changes of the password that await their body
  restoring,  \* a restore awaits its file
  cookie,     \* the session the browser holds
  opened,     \* the password typed for the session opened by this step
  env,        \* the password last set by the environment, until another is
  age,        \* history: how long ago this database was created
  claimed,    \* history: its password has been set and acknowledged
  torn        \* history: the creation of its administrator was interrupted

accessVars == <<up, cred, changing, restoring, cookie, opened, env, age, claimed, torn>>
vars == <<guardVars, accessVars>>

Window == IF Hours > 0 THEN Hours ELSE 0
Typed == Passwords \cup {NoPassword}
NotOpened == "none"

Creds == [user : Names \cup {NoOne}, pw : Typed, isDefault : {"0", "1", Unset},
          since : (0..Window) \cup {Unset}, created : 0..Window]

ASSUME UploadsAssumption == Uploads \subseteq [cred : Creds, guard : Counters]

TypeOK ==
  /\ GuardTypeOK
  /\ up \in BOOLEAN
  /\ cred \in Creds
  /\ changing \subseteq [old : Typed, new : Passwords]
  /\ restoring \in BOOLEAN
  /\ cookie \in [user : Names, left : 1..SessionAge] \cup {NoCookie}
  /\ opened \in Typed \cup {NotOpened}
  /\ env \in LongPasswords \cup {NoPassword}
  /\ age \in 0..Window
  /\ claimed \in BOOLEAN
  /\ torn \in BOOLEAN

\* A new data directory.
Init ==
  /\ GuardInit
  /\ up = FALSE
  /\ cred = [user |-> NoOne, pw |-> NoPassword, isDefault |-> Unset,
             since |-> Unset, created |-> 0]
  /\ changing = {}
  /\ restoring = FALSE
  /\ cookie = NoCookie
  /\ opened = NotOpened
  /\ env = NoPassword
  /\ age = 0
  /\ claimed = FALSE
  /\ torn = FALSE

-----------------------------------------------------------------------------
(* The database after each commit of an operation.                         *)

\* set_admin: the row is written anew.
SetAdmin(c, user, pw) ==
  [c EXCEPT !.user = user, !.pw = pw, !.created = Window]

\* Faulty: the first-run mode is not left.
SetAdminOnly(c, user, pw) == <<SetAdmin(c, user, pw)>>

\* A password is set, and the first-run mode is left.
Claim(c, user, pw) ==
  LET new == SetAdmin(c, user, pw) IN <<new, [new EXCEPT !.isDefault = "0"]>>

\* Faulty: the window opens anew with every boot.
CreateAndReopen(c) ==
  LET new == SetAdmin(c, DefaultName, NoPassword)
      marked == [new EXCEPT !.isDefault = "1"] IN
  IF c.user # NoOne THEN <<[c EXCEPT !.since = Window]>>
  ELSE <<new, marked, [marked EXCEPT !.since = Window]>>

\* Opening the database creates the administrator if there is none.
Create(c) ==
  LET new == SetAdmin(c, DefaultName, NoPassword)
      marked == [new EXCEPT !.isDefault = "1"] IN
  IF c.user # NoOne THEN <<c>>
  ELSE <<new, marked, [marked EXCEPT !.since = Window]>>

\* Faulty: the password of the environment applies to a new panel only.
BootOnce(c, pw) ==
  IF c.user # NoOne \/ pw = NoPassword THEN Create(c)
  ELSE Create(c) \o Claim(Last(Create(c)), Last(Create(c)).user, pw)

\* ... and apply_env_admin_password sets the one of the environment.
BootSteps(c, pw) ==
  IF pw = NoPassword THEN Create(c)
  ELSE Create(c) \o Claim(Last(Create(c)), Last(Create(c)).user, pw)

-----------------------------------------------------------------------------
(* _first_run_state.                                                       *)

IsDefault == cred.isDefault = "1"

\* It makes up for a beginning that was not recorded.
Noted ==
  IF IsDefault /\ Hours >= 0 /\ cred.since = Unset
  THEN [cred EXCEPT !.since = cred.created] ELSE cred

FirstRunOpen == IsDefault /\ (Hours < 0 \/ Noted.since > 0)

-----------------------------------------------------------------------------
(* Start and stop.                                                         *)

\* The process dies, after what the caller has committed.
Die ==
  /\ up' = FALSE
  /\ changing' = {}
  /\ restoring' = FALSE
  /\ opened' = NotOpened
  /\ GuardRestart
  /\ UNCHANGED <<cookie, env, age, claimed>>

Crash == up /\ Die /\ UNCHANGED <<cred, torn>>

Boot(pw) ==
  /\ ~up
  /\ up' = TRUE
  /\ cred' = Last(BootSteps(cred, pw))
  /\ env' = pw
  /\ claimed' = (claimed \/ pw # NoPassword)
  /\ opened' = NotOpened
  /\ UNCHANGED <<guardVars, changing, restoring, cookie, age, torn>>

\* It dies in between.
BootDies(pw) ==
  /\ ~up
  /\ \E i \in 1..(Len(BootSteps(cred, pw)) - 1) :
       /\ cred' = BootSteps(cred, pw)[i]
       /\ torn' = (torn \/ i < Len(Create(cred)))
  /\ Die

-----------------------------------------------------------------------------
(* The handlers.                                                           *)

\* Any page or answer that asks for the first-run state, also a login that
\* comes when the window is closed (403).
Visit ==
  /\ up
  /\ cred' = Noted
  /\ opened' = NotOpened
  /\ UNCHANGED <<guardVars, up, changing, restoring, cookie, env, age, claimed, torn>>

\* A session is opened for a user who has typed pw.
OpenSession(user, pw) ==
  /\ cookie' = [user |-> user, left |-> SessionAge]
  /\ opened' = pw

\* In first-run mode the empty password is accepted, and no other.
Accepts(user, pw) ==
  /\ user = cred.user
  /\ IF IsDefault THEN pw = NoPassword /\ FirstRunOpen ELSE pw = cred.pw

\* What is neither accepted nor answered with 403.
Rejects(user, pw) ==
  user # cred.user \/ pw # IF IsDefault THEN NoPassword ELSE cred.pw

Login(user, pw) ==
  /\ up
  /\ Accepts(user, pw)
  /\ Succeed
  /\ OpenSession(user, pw)
  /\ cred' = Noted
  /\ UNCHANGED <<up, changing, restoring, env, age, claimed, torn>>

LoginFails ==
  /\ up
  /\ \E user \in Names, pw \in Typed : Rejects(user, pw)
  /\ Fail
  /\ cred' = Noted
  /\ opened' = NotOpened
  /\ UNCHANGED <<up, changing, restoring, cookie, env, age, claimed, torn>>

\* It has slept.
LoginAnswered ==
  /\ Wake
  /\ opened' = NotOpened
  /\ UNCHANGED <<up, cred, changing, restoring, cookie, env, age, claimed, torn>>

\* A handler sets the password, and is acknowledged.
Claimed(steps) ==
  /\ cred' = Last(steps)
  /\ claimed' = TRUE
  /\ env' = NoPassword
  /\ UNCHANGED <<guardVars, up, restoring, age, torn>>

\* It dies in between.
ClaimDies(steps) ==
  /\ \E i \in 1..(Len(steps) - 1) : cred' = steps[i]
  /\ Die
  /\ UNCHANGED torn

\* api_setup.  Its body has been read before it looks at the database.
Setup(user, pw) ==
  /\ up
  /\ FirstRunOpen
  /\ \/ /\ Claimed(Claim(Noted, user, pw))
        /\ OpenSession(user, pw)
        /\ UNCHANGED changing
     \/ ClaimDies(Claim(Noted, user, pw))

SignedIn == cookie # NoCookie /\ cookie.user = cred.user

\* api_change_password authenticates, and awaits the body.
StartChange(old, new) ==
  /\ up
  /\ SignedIn
  /\ Cardinality(changing) < MaxChanging
  /\ changing' = changing \cup {[old |-> old, new |-> new]}
  /\ opened' = NotOpened
  /\ UNCHANGED <<guardVars, up, cred, restoring, cookie, env, age, claimed, torn>>

\* Faulty: a form without an old password is taken for the first-run mode.
TrustTheForm(c) ==
  /\ up
  /\ changing' = changing \ {c}
  /\ opened' = NotOpened
  /\ UNCHANGED cookie
  /\ IF c.old # NoPassword /\ c.old # cred.pw
     THEN UNCHANGED <<guardVars, up, cred, restoring, env, age, claimed, torn>>
     ELSE Claimed(Claim(cred, cred.user, c.new))

\* The body has come.
FinishChange(c) ==
  /\ up
  /\ \/ /\ changing' = changing \ {c}
        /\ opened' = NotOpened
        /\ UNCHANGED cookie
        /\ IF ~IsDefault /\ c.old # cred.pw
           THEN UNCHANGED <<guardVars, up, cred, restoring, env, age, claimed, torn>>
           ELSE Claimed(Claim(cred, cred.user, c.new))
     \/ /\ IsDefault \/ c.old = cred.pw
        /\ ClaimDies(Claim(cred, cred.user, c.new))

\* api_backup_restore authenticates, and awaits the file.
StartRestore ==
  /\ up
  /\ SignedIn
  /\ ~restoring
  /\ restoring' = TRUE
  /\ opened' = NotOpened
  /\ UNCHANGED <<guardVars, up, cred, changing, cookie, env, age, claimed, torn>>

\* replace_db: the file is in place, and is opened.
RestoreSteps(c) == <<c>> \o Create(c)

\* The creation of the administrator of c was interrupted.
Interrupted(c) ==
  c.user # NoOne /\ IF c.isDefault = "1" THEN c.since = Unset ELSE c.pw = NoPassword

\* The file has come, whatever has become of the session meanwhile.  From then
\* on the histories are those of the database it holds.
Restore(file) ==
  /\ up
  /\ restoring
  /\ restoring' = FALSE
  /\ \/ /\ cred' = Last(RestoreSteps(file.cred))
        /\ UNCHANGED <<up, changing, sleeping>>
     \/ /\ \E i \in 1..(Len(RestoreSteps(file.cred)) - 1) :
             cred' = RestoreSteps(file.cred)[i]
        /\ up' = FALSE /\ changing' = {} /\ sleeping' = <<>>
  /\ GuardReplace(file.guard)
  /\ cookie' \in {cookie, NoCookie}
  /\ opened' = NotOpened
  /\ env' = NoPassword
  /\ age' = IF cred'.user = NoOne \/ cred'.since = Unset THEN 0
            ELSE Window - cred'.since
  /\ claimed' = (cred'.user # NoOne /\ cred'.isDefault = "0" /\ cred'.pw # NoPassword)
  /\ torn' = Interrupted(cred')

\* What has come is no backup (400).
RestoreFails ==
  /\ up
  /\ restoring
  /\ restoring' = FALSE
  /\ opened' = NotOpened
  /\ UNCHANGED <<guardVars, up, cred, changing, cookie, env, age, claimed, torn>>

\* api_logout drops the cookie; the token is not revoked.
Logout ==
  /\ up
  /\ cookie' = NoCookie
  /\ opened' = NotOpened
  /\ UNCHANGED <<guardVars, up, cred, changing, restoring, env, age, claimed, torn>>

Tick ==
  /\ GuardTick
  /\ cred' = [cred EXCEPT !.created = Sooner(@),
                          !.since = IF @ = Unset THEN Unset ELSE Sooner(@)]
  /\ cookie' = IF cookie = NoCookie \/ cookie.left = 1 THEN NoCookie
               ELSE [cookie EXCEPT !.left = @ - 1]
  /\ age' = IF cred.user = NoOne THEN age ELSE Smaller(age + 1, Window)
  /\ opened' = NotOpened
  /\ UNCHANGED <<up, changing, restoring, env, claimed, torn>>

Next ==
  \/ Crash
  \/ \E pw \in LongPasswords \cup {NoPassword} : Boot(pw) \/ BootDies(pw)
  \/ Visit
  \/ \E user \in Names, pw \in Typed : Login(user, pw)
  \/ LoginFails
  \/ LoginAnswered
  \/ \E user \in Names, pw \in Passwords : Setup(user, pw)
  \/ \E old \in Typed, new \in Passwords : StartChange(old, new)
  \/ \E c \in changing : FinishChange(c)
  \/ StartRestore
  \/ \E file \in Uploads : Restore(file)
  \/ RestoreFails
  \/ Logout
  \/ Tick

\* Timers run and time passes, as in LoginGuard.
Spec == Init /\ [][Next]_vars /\ WF_vars(LoginAnswered) /\ WF_vars(Tick)

-----------------------------------------------------------------------------
\* The empty password opens a session in the first-run window only, which is
\* not prolonged by boots, crashes or restores, except a crash that hits the
\* creation of the administrator itself, of this panel or of that of a backup.
FirstRunIsBounded ==
  opened = NoPassword => torn \/ Hours < 0 \/ age < Window

\* A database is replaced.
Restored == \E file \in Uploads : Restore(file)

\* Once a password has been acknowledged the panel is not unclaimed again, but
\* by the restore of a backup: no session without a password, and the user
\* name stays.
ClaimIsFinal ==
  [][claimed => opened' # NoPassword /\ (cred'.user = cred.user \/ Restored)]_vars

\* While the panel runs, and outside first-run mode, the password changes for
\* those only who typed the one that is in force when it changes, or with the
\* restore of a backup.
PasswordChangesAreAuthorised ==
  [][up /\ ~IsDefault /\ cred'.pw # cred.pw
       => \/ \E c \in changing \ changing' : c.old = cred.pw /\ c.new = cred'.pw
          \/ Restored]_vars

\* Whatever has happened before, a boot with TITAN_ADMIN_PASSWORD lets its
\* owner in, until the password is changed or a backup restored.
RecoveryWorks == up /\ env # NoPassword => Accepts(cred.user, env)

\* The panel is locked for failures only that nothing has forgiven since, or
\* with a backup that was locked.
LockIsEarned ==
  [][tidy /\ lock = 0 /\ lock' > 0 => streak >= HardLock \/ Restored]_vars

\* A lock ends by the clock, or with a restore: no failure that was counted
\* before it and is written after it shortens it.
LockIsKept == [][tidy => lock' >= Sooner(lock) \/ Restored]_vars

\* A lock comes to an end, whatever is tried meanwhile, but a restore, which
\* may bring another.
LocksEnd == lock > 0 ~> lock = 0 \/ restoring
=============================================================================
