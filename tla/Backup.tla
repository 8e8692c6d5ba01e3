------------------------------- MODULE Backup -------------------------------
(***************************************************************************)
(* Copies of the database and their restoration: backup_bytes and          *)
(* replace_db of app/db.py, api_backup_download and api_backup_restore of  *)
(* app/main.py, _maybe_backup of app/tasks.py, with the part of sync_all   *)
(* (app/nodes.py) that relies on what the database remembers of the nodes. *)
(*                                                                         *)
(* SQLite runs in WAL mode: a commit goes to the log, a checkpoint moves   *)
(* the log into the database file, and opening the database reads the file *)
(* and whatever log lies beside it.  The process may die at any moment.    *)
(*                                                                         *)
(* Data abstracted: a content of the users table is a member of Tables, so *)
(* a table may return to what it was; a recorded hash is the table it was  *)
(* computed from.  Users of all nodes change together.  A copy is read in  *)
(* one step.  A push is applied as a whole; how it proceeds is the matter  *)
(* of NodeSync.                                                            *)
(***************************************************************************)
EXTENDS Naturals, Sequences, SequencesExt

CONSTANTS
  Nodes,        \* the remote nodes
  Tables,       \* what the users table can hold
  NoUsers,      \* the table of a new panel
  NoHash,       \* no node_sync_hash, or no push under way
  NoLog,        \* there is no log beside the database file
  Mixed,        \* a file with the log of another one
  Retained,     \* number of automatic copies that are kept (7)
  MaxChanges,   \* bound on the changes of the users table
  MaxRestores,  \* bound on the restores
  MaxFaults     \* bound on crashes, failing checkpoints and lost answers

ASSUME NamesAssumption == NoUsers \in Tables /\ NoHash \notin Tables
ASSUME RetainedAssumption == Retained \in Nat \ {0}
ASSUME BoundsAssumption ==
  MaxChanges \in Nat /\ MaxRestores \in Nat /\ MaxFaults \in Nat

\* What a database says: its users, and what it believes its nodes have.
Hashes == Tables \cup {NoHash}
Contents == [users : Tables, hash : [Nodes -> Hashes]]
Logs == [of : Nat, content : Contents]

ASSUME ValuesAssumption == NoLog \notin Logs /\ Mixed \notin Contents

VARIABLES
  file,      \* the database file
  inode,     \* which file that is
  log,       \* the WAL: the file it belongs to, and the newest commit
  restore,   \* the restore under way, see Stages
  copies,    \* automatic copies, oldest first
  download,  \* the copy last downloaded
  pushing,   \* the table a push to each node carries, not yet recorded
  has,       \* the table each node has
  changes,   \* number of changes of the users table
  faults,    \* number of crashes, failing checkpoints and lost answers
  truth,     \* history: what was committed last
  misled     \* history: nodes about which the database is wrong, by a restore
             \* or because a push that was applied has not been recorded

diskVars == <<file, inode, log>>
nodeVars == <<pushing, has>>
vars == <<diskVars, restore, copies, download, nodeVars, changes, faults,
          truth, misled>>

(***************************************************************************)
(* A restore after each of its steps.  It holds the event loop and the     *)
(* lock of the database, so only a crash can come between them.  `failed`  *)
(* says that the checkpoint it begins with has failed.                     *)
(***************************************************************************)
Stages == {"closed", "written", "bare"}
NoRestore == [stage |-> "none"]
Restores == [stage : Stages, upload : Contents, failed : BOOLEAN]

TypeOK ==
  /\ file \in Contents
  /\ inode \in Nat
  /\ log \in Logs \cup {NoLog}
  /\ restore \in Restores \cup {NoRestore}
  /\ copies \in Seq(Contents) /\ Len(copies) <= Retained
  /\ download \in Contents
  /\ pushing \in [Nodes -> Hashes]
  /\ has \in [Nodes -> Tables]
  /\ changes \in 0..MaxChanges
  /\ faults \in 0..MaxFaults
  /\ truth \in Contents
  /\ misled \subseteq Nodes

Fresh == [users |-> NoUsers, hash |-> [n \in Nodes |-> NoHash]]

\* A new panel, whose administrator has downloaded a copy at once.
Init ==
  /\ file = Fresh
  /\ inode = 0
  /\ log = NoLog
  /\ restore = NoRestore
  /\ copies = <<>>
  /\ download = Fresh
  /\ pushing = [n \in Nodes |-> NoHash]
  /\ has = [n \in Nodes |-> NoUsers]
  /\ changes = 0
  /\ faults = 0
  /\ truth = Fresh
  /\ misled = {}

-----------------------------------------------------------------------------
(* SQLite.                                                                 *)

\* What a connection to the files finds.
Stored ==
  IF log = NoLog THEN file
  ELSE IF log.of = inode THEN log.content ELSE Mixed

Open == restore = NoRestore

\* A commit.  One that fills the log is followed by a checkpoint.
Commit(content) ==
  /\ truth' = content
  /\ log' = [of |-> inode, content |-> content]
  /\ file' \in {file, content}
  /\ UNCHANGED inode

\* Faulty: the log is not moved into the file.
CheckpointSkipped == UNCHANGED diskVars

\* PRAGMA wal_checkpoint(FULL): the log stays, to be written anew.
CheckpointFull == file' = Stored /\ UNCHANGED <<inode, log>>

\* Faulty: the database is closed with what is in its log.
CloseOnly == UNCHANGED diskVars

\* PRAGMA wal_checkpoint(TRUNCATE), and the connection is closed.
CheckpointAndClose == file' = Stored /\ log' = NoLog /\ UNCHANGED inode

-----------------------------------------------------------------------------
(* Use of the database.                                                    *)

\* A handler changes the users, perhaps back to what they were.
ChangeUsers(table) ==
  /\ Open
  /\ changes < MaxChanges
  /\ changes' = changes + 1
  /\ table # Stored.users
  /\ Commit([Stored EXCEPT !.users = table])
  /\ UNCHANGED <<restore, copies, download, nodeVars, faults, misled>>

\* Faulty: a node is skipped that has been pushed to before.
PushOnce(n) ==
  /\ Open
  /\ pushing[n] = NoHash
  /\ Stored.hash[n] = NoHash
  /\ pushing' = [pushing EXCEPT ![n] = Stored.users]
  /\ has' = [has EXCEPT ![n] = Stored.users]
  /\ UNCHANGED <<diskVars, restore, copies, download, changes, faults, truth,
                 misled>>

\* sync_all up to its await: a node whose recorded hash is that of the users
\* is skipped, another is pushed to and applies the users.
Push(n) ==
  /\ Open
  /\ pushing[n] = NoHash
  /\ Stored.hash[n] # Stored.users
  /\ pushing' = [pushing EXCEPT ![n] = Stored.users]
  /\ has' = [has EXCEPT ![n] = Stored.users]
  /\ UNCHANGED <<diskVars, restore, copies, download, changes, faults, truth,
                 misled>>

\* Faulty: the hash is computed after the await, from the users of then.
RecordCurrent(n) ==
  /\ Open
  /\ pushing[n] # NoHash
  /\ Commit([Stored EXCEPT !.hash[n] = Stored.users])
  /\ pushing' = [pushing EXCEPT ![n] = NoHash]
  /\ misled' = misled \ {n}
  /\ UNCHANGED <<restore, copies, download, has, changes, faults>>

\* sync_all after its await, in the database that is there by then.
Record(n) ==
  /\ Open
  /\ pushing[n] # NoHash
  /\ Commit([Stored EXCEPT !.hash[n] = pushing[n]])
  /\ pushing' = [pushing EXCEPT ![n] = NoHash]
  /\ misled' = misled \ {n}
  /\ UNCHANGED <<restore, copies, download, has, changes, faults>>

\* The nodes about which a database is wrong.
Misremembered(content) ==
  {n \in Nodes : content.hash[n] \notin {NoHash, has[n]}}

\* The push was applied, its answer is lost, and no hash is recorded.
LoseAnswer(n) ==
  /\ Open
  /\ pushing[n] # NoHash
  /\ faults < MaxFaults
  /\ faults' = faults + 1
  /\ pushing' = [pushing EXCEPT ![n] = NoHash]
  /\ misled' = misled \cup (Misremembered(Stored) \cap {n})
  /\ UNCHANGED <<diskVars, restore, copies, download, has, changes, truth>>

-----------------------------------------------------------------------------
(* Copies.                                                                 *)

\* api_backup_download: backup_bytes checkpoints, then reads the file.
Download ==
  /\ Open
  /\ CheckpointFull
  /\ download' = file'
  /\ UNCHANGED <<restore, copies, nodeVars, changes, faults, truth, misled>>

\* The sorted names end with the newest, files[:-7] are removed.
LastOf(n, s) == SubSeq(s, IF Len(s) > n THEN Len(s) - n + 1 ELSE 1, Len(s))

\* _maybe_backup: read the file as it is, commit the time, remove old copies.
CopyAutomatically ==
  /\ Open
  /\ copies' = LastOf(Retained, Append(copies, file))
  /\ Commit(Stored)
  /\ UNCHANGED <<restore, download, nodeVars, changes, faults, misled>>

-----------------------------------------------------------------------------
(* replace_db, called by api_backup_restore.                               *)

\* An error of the checkpoint is ignored.
BeginRestore(upload) ==
  /\ Open
  /\ inode < MaxRestores
  /\ \/ /\ CheckpointAndClose
        /\ restore' = [stage |-> "closed", upload |-> upload, failed |-> FALSE]
        /\ UNCHANGED faults
     \/ /\ faults < MaxFaults
        /\ faults' = faults + 1
        /\ restore' = [stage |-> "closed", upload |-> upload, failed |-> TRUE]
        /\ UNCHANGED diskVars
  /\ UNCHANGED <<copies, download, nodeVars, changes, truth, misled>>

Advance(from, to) ==
  /\ restore # NoRestore
  /\ restore.stage = from
  /\ restore' = [restore EXCEPT !.stage = to]
  /\ UNCHANGED <<copies, download, nodeVars, changes, faults, truth, misled>>

\* The upload is written to a file beside the database.
WriteUpload == Advance("closed", "written") /\ UNCHANGED diskVars

\* That fails: the exception leaves replace_db, and the next use of the
\* database opens it again.
GiveUp ==
  /\ restore # NoRestore
  /\ restore.stage = "closed"
  /\ faults < MaxFaults
  /\ faults' = faults + 1
  /\ restore' = NoRestore
  /\ UNCHANGED <<diskVars, copies, download, nodeVars, changes, truth, misled>>

\* Faulty: the log stays beside the file.
KeepLog == Advance("written", "bare") /\ UNCHANGED diskVars

\* The files with the suffixes -wal and -shm are removed.
RemoveLog ==
  /\ Advance("written", "bare")
  /\ log' = NoLog
  /\ UNCHANGED <<file, inode>>

\* os.replace, and the database is opened again.
Replace ==
  /\ restore # NoRestore
  /\ restore.stage = "bare"
  /\ file' = restore.upload
  /\ inode' = inode + 1
  /\ truth' = restore.upload
  /\ misled' = Misremembered(restore.upload)
  /\ restore' = NoRestore
  /\ UNCHANGED <<log, copies, download, nodeVars, changes, faults>>

\* The process dies and starts again: tasks are gone, files are not.
Crash ==
  /\ faults < MaxFaults
  /\ faults' = faults + 1
  /\ restore' = NoRestore
  /\ pushing' = [n \in Nodes |-> NoHash]
  /\ truth' = IF Open THEN truth ELSE Stored
  /\ misled' = Misremembered(Stored)
  /\ UNCHANGED <<diskVars, copies, download, has, changes>>

Uploads == {download} \cup ToSet(copies)

Next ==
  \/ \E table \in Tables : ChangeUsers(table)
  \/ \E n \in Nodes : Push(n) \/ Record(n) \/ LoseAnswer(n)
  \/ Download
  \/ CopyAutomatically
  \/ \E upload \in Uploads : BeginRestore(upload)
  \/ WriteUpload \/ GiveUp \/ RemoveLog \/ Replace
  \/ Crash

\* A restore that has begun runs to its end unless the process dies; sync_all
\* runs periodically.
Fairness ==
  /\ WF_vars(WriteUpload) /\ WF_vars(RemoveLog) /\ WF_vars(Replace)
  /\ \A n \in Nodes : WF_vars(Push(n)) /\ WF_vars(Record(n))

Spec == Init /\ [][Next]_vars /\ Fairness

-----------------------------------------------------------------------------
(* Properties.                                                             *)

(***************************************************************************)
(* Whatever crashes and restores there have been, the panel finds what it  *)
(* committed last, or the upload of the last restore.                      *)
(***************************************************************************)
CommitsSurvive == Open => Stored = truth

(***************************************************************************)
(* While a restore is under way, the files are at each moment either the   *)
(* old database with every commit or the upload, so a crash leaves one of  *)
(* the two; unless the checkpoint failed the restore begins with.          *)
(***************************************************************************)
RestoreIsAtomic ==
  ~Open => \/ Stored = truth
           \/ restore.failed /\ restore.stage = "bare"

(***************************************************************************)
(* What sync_all relies on when it skips a node, across crashes and        *)
(* restores: a node whose recorded hash is that of the users has these     *)
(* users, unless the hash is of another push than the node's last: because *)
(* a restore has brought it back, or because the last one was applied and  *)
(* could not be recorded, and nothing has been recorded since.             *)
(***************************************************************************)
SkippedNodesAreCurrent ==
  Open => \A n \in Nodes \ misled :
            pushing[n] = NoHash /\ Stored.hash[n] = Stored.users
              => has[n] = Stored.users

(***************************************************************************)
(* Nodes follow the table, after a crash and a restore as well; but a node *)
(* the panel is misled about stays behind when its hash is that of the     *)
(* users the table has come back to.                                       *)
(***************************************************************************)
NodesFollowTheTable ==
  \A n \in Nodes :
    <>[](\/ has[n] = truth.users
         \/ n \in misled /\ truth.hash[n] = truth.users)

(***************************************************************************)
(* backup_bytes: "a consistent snapshot of the DB file": a download holds  *)
(* everything committed before it.                                         *)
(***************************************************************************)
DownloadsAreComplete == [][Download => download' = truth]_vars
=============================================================================
