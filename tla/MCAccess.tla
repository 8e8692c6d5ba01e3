------------------------------ MODULE MCAccess ------------------------------
(* Access with two names and two passwords, one of them long, and two      *)
(* backups: one of this panel in its first-run mode, after two failures,   *)
(* and one of another panel that is claimed and locked.                    *)
EXTENDS Access
CONSTANTS titan, owner, short, long
MCNames == {titan, owner}
MCPasswords == {short, long}
MCLongPasswords == {long}
MCPauses == <<1, 2>>

FirstRunBackup ==
  [cred |-> [user |-> titan, pw |-> NoPassword, isDefault |-> "1", since |-> 1,
             created |-> 1],
   guard |-> [count |-> 2, lock |-> 0]]
OtherPanel ==
  [cred |-> [user |-> owner, pw |-> short, isDefault |-> "0", since |-> 0,
             created |-> 0],
   guard |-> [count |-> 0, lock |-> 3]]
MCUploads == {FirstRunBackup, OtherPanel}
=============================================================================
