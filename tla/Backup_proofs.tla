--------------------------- MODULE Backup_proofs ---------------------------
(***************************************************************************)
(* Commits, restores and skipped nodes, for every number of nodes, of      *)
(* copies kept, of changes, restores and faults.                           *)
(***************************************************************************)
EXTENDS Backup, SequenceTheorems, TLAPS

\* The files, through a restore: up to the removal of the log they are the
\* database, and the file alone is, unless the checkpoint failed.
FilesInOrder ==
  /\ restore = NoRestore => Stored = truth
  /\ restore # NoRestore /\ restore.stage # "bare" => Stored = truth
  /\ restore # NoRestore /\ restore.stage = "bare" => log = NoLog
  /\ restore # NoRestore => restore.failed \/ (log = NoLog /\ file = truth)

\* What is committed about the nodes.
HashesInOrder ==
  /\ \A n \in Nodes : pushing[n] \in {NoHash, has[n]}
  /\ \A n \in Nodes \ misled :
       pushing[n] = NoHash => truth.hash[n] \in {NoHash, has[n]}

\* The inductive invariant.
BackupInv == TypeOK /\ FilesInOrder /\ HashesInOrder

\* A restore that has begun is not NoRestore.
LEMMA RestoresDiffer == NoRestore \notin Restores
BY DEF NoRestore, Restores, Stages

\* The last elements of a sequence are some of its elements, and as many as
\* asked for at most.
LEMMA LastOfType ==
  ASSUME NEW S, NEW s \in Seq(S), NEW n \in Nat
  PROVE  LastOf(n, s) \in Seq(S) /\ Len(LastOf(n, s)) <= n
<1> DEFINE m == IF Len(s) > n THEN Len(s) - n + 1 ELSE 1
<1>1. /\ Len(s) \in Nat
      /\ m \in Int
      /\ \A i \in m..Len(s) : s[i] \in S
  OBVIOUS
<1>2. /\ SubSeq(s, m, Len(s)) \in Seq(S)
      /\ Len(SubSeq(s, m, Len(s))) = IF m <= Len(s) THEN Len(s) - m + 1 ELSE 0
  BY <1>1, SubSeqProperties
<1>3. Len(SubSeq(s, m, Len(s))) <= n
  BY <1>1, <1>2
<1> QED BY <1>2, <1>3 DEF LastOf

\* Uploads are databases of the past.
LEMMA UploadsType == ASSUME TypeOK PROVE Uploads \subseteq Contents
<1>1. ToSet(copies) \subseteq Contents
  BY DEF TypeOK, ToSet
<1> QED BY <1>1 DEF Uploads, TypeOK

\* The panel opens to what was committed, which is a database.
LEMMA StoredType ==
  ASSUME TypeOK
  PROVE  Stored \in Contents \cup {Mixed}
BY DEF TypeOK, Stored, Logs

\* What a commit leaves.
LEMMA CommitStores ==
  ASSUME TypeOK, NEW content \in Contents, Commit(content)
  PROVE  /\ truth' = content
         /\ Stored' = content
         /\ file' \in Contents
         /\ inode' = inode
         /\ log' \in Logs
<1>1. truth' = content /\ inode' = inode /\ inode \in Nat
  BY DEF Commit, TypeOK
<1>3. file' \in Contents
  BY DEF Commit, TypeOK
<1>4. log' = [of |-> inode, content |-> content]
  BY DEF Commit
<1>5. log' \in Logs
  BY <1>1, <1>4 DEF Logs
<1>6. log' # NoLog
  BY <1>5, ValuesAssumption
<1>7. log'.of = inode' /\ log'.content = content
  BY <1>1, <1>4
<1>8. Stored' = content
  BY <1>6, <1>7 DEF Stored
<1> QED BY <1>1, <1>3, <1>5, <1>8

\* The invariant holds on a new panel.
LEMMA InitiallyInOrder == Init => BackupInv
<1> SUFFICES ASSUME Init PROVE BackupInv
  OBVIOUS
<1>1. Fresh \in Contents
  BY NamesAssumption DEF Fresh, Contents, Hashes
<1>2. TypeOK
  BY <1>1, NamesAssumption, RetainedAssumption, BoundsAssumption DEF Init, TypeOK, Hashes
<1>3. FilesInOrder
  BY DEF Init, FilesInOrder, Stored
<1>4. HashesInOrder
  BY NamesAssumption DEF Init, HashesInOrder, Fresh
<1> QED BY <1>2, <1>3, <1>4 DEF BackupInv

\* The panel changing the users, and pushing them to nodes, keeps the invariant.
LEMMA UseKeepsInOrder ==
  ASSUME BackupInv,
         \/ \E table \in Tables : ChangeUsers(table)
         \/ \E n \in Nodes : Push(n) \/ Record(n) \/ LoseAnswer(n)
  PROVE  BackupInv'
<1> USE DEF BackupInv
<1>1. restore = NoRestore /\ restore' = NoRestore /\ Stored = truth
  BY DEF ChangeUsers, Push, Record, LoseAnswer, Open, FilesInOrder
<1>2. truth \in Contents /\ changes \in Nat
  BY BoundsAssumption DEF TypeOK
<1>3. ASSUME NEW table \in Tables, ChangeUsers(table)
      PROVE  BackupInv'
  <2> DEFINE content == [truth EXCEPT !.users = table]
  <2>1. changes' \in 0..MaxChanges
    BY <1>2, <1>3, BoundsAssumption DEF ChangeUsers, TypeOK
  <2>2. content \in Contents /\ content.hash = truth.hash
    BY <1>2 DEF Contents
  <2>3. Commit(content)
    BY <1>1, <1>3 DEF ChangeUsers
  <2> HIDE DEF content
  <2>4. /\ truth' = content /\ Stored' = content /\ file' \in Contents
        /\ inode' = inode /\ log' \in Logs
    BY <2>2, <2>3, CommitStores
  <2>5. UNCHANGED <<copies, download, pushing, has, faults, misled>>
    BY <1>3 DEF ChangeUsers, nodeVars
  <2>6. TypeOK'
    BY <1>1, <2>1, <2>2, <2>4, <2>5 DEF TypeOK
  <2>7. FilesInOrder'
    BY <1>1, <2>4 DEF FilesInOrder
  <2>8. HashesInOrder'
    BY <2>2, <2>4, <2>5 DEF HashesInOrder
  <2> QED BY <2>6, <2>7, <2>8
<1>4. ASSUME NEW n \in Nodes, Push(n)
      PROVE  BackupInv'
  <2>1. /\ UNCHANGED <<file, inode, log, restore, copies, download, changes, faults, truth, misled>>
        /\ pushing' = [pushing EXCEPT ![n] = truth.users]
        /\ has' = [has EXCEPT ![n] = truth.users]
        /\ truth.hash[n] # truth.users
    BY <1>1, <1>4 DEF Push, diskVars
  <2>2. truth.users \in Tables /\ truth.users \in Hashes /\ truth.users # NoHash
    BY <1>2, NamesAssumption DEF Contents, Hashes
  <2>3. TypeOK'
    BY <2>1, <2>2 DEF TypeOK
  <2>4. FilesInOrder'
    BY <1>1, <2>1 DEF FilesInOrder, Stored
  <2>5. \A p \in Nodes : pushing'[p] \in {NoHash, has'[p]}
    BY <2>1 DEF HashesInOrder, TypeOK
  <2>6. \A p \in Nodes \ misled' :
          pushing'[p] = NoHash => truth'.hash[p] \in {NoHash, has'[p]}
    BY <2>1, <2>2 DEF HashesInOrder, TypeOK
  <2> QED BY <2>3, <2>4, <2>5, <2>6 DEF HashesInOrder
<1>5. ASSUME NEW n \in Nodes, Record(n)
      PROVE  BackupInv'
  <2> DEFINE content == [truth EXCEPT !.hash[n] = pushing[n]]
  <2>1. /\ UNCHANGED <<copies, download, has, changes, faults>>
        /\ pushing' = [pushing EXCEPT ![n] = NoHash]
        /\ misled' = misled \ {n}
        /\ pushing[n] # NoHash
        /\ Commit(content)
    BY <1>1, <1>5 DEF Record
  <2>2. content \in Contents
    BY <1>2 DEF Contents, TypeOK
  <2>3. /\ content.users = truth.users
        /\ content.hash[n] = pushing[n]
        /\ \A p \in Nodes \ {n} : content.hash[p] = truth.hash[p]
    BY <1>2 DEF Contents
  <2> HIDE DEF content
  <2>4. /\ truth' = content /\ Stored' = content /\ file' \in Contents
        /\ inode' = inode /\ log' \in Logs
    BY <2>1, <2>2, CommitStores
  <2>5. TypeOK'
    <3>1. pushing' \in [Nodes -> Hashes]
      BY <2>1 DEF TypeOK, Hashes
    <3> QED BY <3>1, <1>1, <2>1, <2>2, <2>4 DEF TypeOK
  <2>6. FilesInOrder'
    BY <1>1, <2>4 DEF FilesInOrder
  <2>7. \A p \in Nodes : pushing'[p] \in {NoHash, has'[p]}
    BY <2>1 DEF HashesInOrder, TypeOK
  <2>8. \A p \in Nodes \ misled' :
          pushing'[p] = NoHash => truth'.hash[p] \in {NoHash, has'[p]}
    <3>1. pushing[n] = has[n]
      BY <2>1 DEF HashesInOrder
    <3>2. \A p \in Nodes \ {n} : pushing'[p] = pushing[p]
      BY <2>1 DEF TypeOK
    <3> QED BY <3>1, <3>2, <2>1, <2>3, <2>4 DEF HashesInOrder
  <2> QED BY <2>5, <2>6, <2>7, <2>8 DEF HashesInOrder
<1>6. ASSUME NEW n \in Nodes, LoseAnswer(n)
      PROVE  BackupInv'
  <2>1. /\ UNCHANGED <<file, inode, log, copies, download, has, changes, truth>>
        /\ pushing' = [pushing EXCEPT ![n] = NoHash]
        /\ misled' = misled \cup (Misremembered(truth) \cap {n})
        /\ faults' \in 0..MaxFaults
    BY <1>1, <1>6, BoundsAssumption DEF LoseAnswer, diskVars, TypeOK
  <2>2. TypeOK'
    BY <1>1, <2>1 DEF TypeOK, Hashes
  <2>3. FilesInOrder'
    BY <1>1, <2>1 DEF FilesInOrder, Stored
  <2>4. \A p \in Nodes : pushing'[p] \in {NoHash, has'[p]}
    BY <2>1 DEF HashesInOrder, TypeOK
  <2>5. \A p \in Nodes \ misled' :
          pushing'[p] = NoHash => truth'.hash[p] \in {NoHash, has'[p]}
    <3>1. n \notin misled' => truth.hash[n] \in {NoHash, has[n]}
      BY <2>1 DEF Misremembered
    <3>2. \A p \in Nodes \ {n} : pushing'[p] = pushing[p]
      BY <2>1 DEF TypeOK
    <3> QED BY <2>1, <3>1, <3>2 DEF HashesInOrder
  <2> QED BY <2>2, <2>3, <2>4, <2>5 DEF HashesInOrder
<1> QED BY <1>3, <1>4, <1>5, <1>6

\* Copies keep the invariant.
LEMMA CopiesKeepInOrder ==
  ASSUME BackupInv, Download \/ CopyAutomatically
  PROVE  BackupInv'
<1> USE DEF BackupInv
<1>1. restore = NoRestore /\ restore' = NoRestore /\ Stored = truth
  BY DEF Download, CopyAutomatically, Open, FilesInOrder
<1>2. truth \in Contents /\ changes' = changes
  BY DEF TypeOK, Download, CopyAutomatically
<1>3. UNCHANGED <<pushing, has, truth, misled, inode, faults>>
  BY <1>1 DEF Download, CopyAutomatically, CheckpointFull, Commit, nodeVars
<1>4. HashesInOrder'
  BY <1>3 DEF HashesInOrder
<1>5. CASE Download
  <2>1. file' = truth /\ download' = truth /\ UNCHANGED <<log, copies>>
    BY <1>1, <1>5 DEF Download, CheckpointFull
  <2>2. TypeOK'
    BY <1>1, <1>2, <1>3, <2>1 DEF TypeOK
  <2>3. Stored' = truth
    BY <1>1, <1>3, <2>1 DEF Stored
  <2> QED BY <1>1, <1>3, <1>4, <2>2, <2>3 DEF FilesInOrder
<1>6. CASE CopyAutomatically
  <2>1. Commit(truth) /\ download' = download
    BY <1>1, <1>6 DEF CopyAutomatically
  <2>2. /\ Stored' = truth /\ file' \in Contents /\ log' \in Logs
    BY <1>2, <2>1, CommitStores
  <2>3. copies' \in Seq(Contents) /\ Len(copies') <= Retained
    <3>1. copies' = LastOf(Retained, Append(copies, file))
      BY <1>6 DEF CopyAutomatically
    <3>2. Append(copies, file) \in Seq(Contents)
      BY DEF TypeOK
    <3> QED BY <3>1, <3>2, LastOfType, RetainedAssumption
  <2>4. TypeOK'
    BY <1>1, <1>2, <1>3, <2>1, <2>2, <2>3 DEF TypeOK
  <2> QED BY <1>1, <1>3, <1>4, <2>2, <2>4 DEF FilesInOrder
<1> QED BY <1>5, <1>6

\* The steps of a restore keep the invariant.
LEMMA RestoreKeepsInOrder ==
  ASSUME BackupInv,
         \/ \E upload \in Uploads : BeginRestore(upload)
         \/ WriteUpload \/ GiveUp \/ RemoveLog \/ Replace
  PROVE  BackupInv'
<1> USE DEF BackupInv
<1>1. UNCHANGED <<copies, download, pushing, has, changes>>
  BY DEF BeginRestore, WriteUpload, GiveUp, RemoveLog, Replace, Advance, nodeVars
<1>2. restore # NoRestore => restore \in Restores
  BY DEF TypeOK
<1>3. ASSUME NEW upload \in Uploads, BeginRestore(upload)
      PROVE  BackupInv'
  <2>1. Stored = truth /\ UNCHANGED <<truth, misled>>
    BY <1>3 DEF BeginRestore, Open, FilesInOrder
  <2>2. upload \in Contents
    BY UploadsType
  <2>3. restore' \in Restores /\ restore'.stage = "closed"
    <3>1. PICK failed \in BOOLEAN :
            restore' = [stage |-> "closed", upload |-> upload, failed |-> failed]
      BY <1>3 DEF BeginRestore
    <3> QED BY <3>1, <2>2 DEF Restores, Stages
  <2>4. /\ file' \in {file, truth} /\ log' \in {log, NoLog} /\ inode' = inode
        /\ Stored' = truth
        /\ faults' \in 0..MaxFaults
    BY <1>3, <2>1, BoundsAssumption DEF BeginRestore, CheckpointAndClose, diskVars, Stored, TypeOK
  <2>5. TypeOK'
    BY <1>1, <2>1, <2>3, <2>4 DEF TypeOK
  <2>6. FilesInOrder'
    <3>1. restore'.failed = TRUE \/ (log' = NoLog /\ file' = truth')
      BY <1>3, <2>1 DEF BeginRestore, CheckpointAndClose
    <3>2. restore' # NoRestore /\ restore'.stage # "bare"
      BY <2>3, RestoresDiffer
    <3>3. restore'.failed \/ (log' = NoLog /\ file' = truth')
      BY <3>1, Zenon
    <3> QED BY <2>1, <2>4, <3>2, <3>3, Zenon DEF FilesInOrder
  <2> QED BY <1>1, <2>1, <2>5, <2>6 DEF HashesInOrder
<1>4. CASE WriteUpload
  <2>1. /\ restore # NoRestore /\ restore.stage = "closed"
        /\ restore' = [restore EXCEPT !.stage = "written"]
        /\ UNCHANGED <<file, inode, log, faults, truth, misled>>
    BY <1>4 DEF WriteUpload, Advance, diskVars
  <2>2. restore' \in Restores /\ restore'.stage = "written"
    BY <1>2, <2>1 DEF Restores, Stages
  <2>3. TypeOK'
    BY <1>1, <2>1, <2>2 DEF TypeOK
  <2>4. FilesInOrder'
    BY <2>1, <2>2, RestoresDiffer DEF FilesInOrder, Stored
  <2> QED BY <1>1, <2>1, <2>3, <2>4 DEF HashesInOrder
<1>5. CASE GiveUp
  <2>1. /\ restore # NoRestore /\ restore.stage = "closed" /\ restore' = NoRestore
        /\ UNCHANGED <<file, inode, log, truth, misled>>
        /\ faults' \in 0..MaxFaults
    BY <1>5, BoundsAssumption DEF GiveUp, diskVars, TypeOK
  <2>2. TypeOK'
    BY <1>1, <2>1 DEF TypeOK
  <2>3. FilesInOrder'
    BY <2>1 DEF FilesInOrder, Stored
  <2> QED BY <1>1, <2>1, <2>2, <2>3 DEF HashesInOrder
<1>6. CASE RemoveLog
  <2>1. /\ restore # NoRestore /\ restore.stage = "written"
        /\ restore' = [restore EXCEPT !.stage = "bare"]
        /\ log' = NoLog
        /\ UNCHANGED <<file, inode, faults, truth, misled>>
    BY <1>6 DEF RemoveLog, Advance
  <2>2. restore' \in Restores /\ restore'.stage = "bare"
    BY <1>2, <2>1 DEF Restores, Stages
  <2>3. TypeOK'
    BY <1>1, <2>1, <2>2 DEF TypeOK
  <2>4. FilesInOrder'
    <3>1. restore.failed \/ file' = truth'
      BY <2>1, Zenon DEF FilesInOrder
    <3>2. restore'.failed = restore.failed
      BY <1>2, <2>1 DEF Restores
    <3>3. restore' # NoRestore /\ ~(restore'.stage # "bare")
      BY <2>2, RestoresDiffer
    <3>4. restore'.failed \/ (log' = NoLog /\ file' = truth')
      BY <2>1, <3>1, <3>2, Zenon
    <3> QED BY <2>1, <3>3, <3>4, Zenon DEF FilesInOrder
  <2> QED BY <1>1, <2>1, <2>3, <2>4 DEF HashesInOrder
<1>7. CASE Replace
  <2>1. /\ log = NoLog /\ log' = NoLog /\ restore' = NoRestore
        /\ file' = restore.upload /\ truth' = restore.upload
        /\ inode' = inode + 1 /\ faults' = faults
        /\ misled' = Misremembered(restore.upload)
    BY <1>7 DEF Replace, FilesInOrder
  <2>2. restore.upload \in Contents
    BY <1>2, <1>7 DEF Replace, Restores
  <2>3. TypeOK'
    BY <1>1, <2>1, <2>2 DEF TypeOK, Misremembered
  <2>4. FilesInOrder'
    BY <2>1 DEF FilesInOrder, Stored
  <2>5. HashesInOrder'
    BY <1>1, <2>1 DEF HashesInOrder, Misremembered
  <2> QED BY <2>3, <2>4, <2>5
<1> QED BY <1>3, <1>4, <1>5, <1>6, <1>7

\* A crash at any moment keeps the invariant.
LEMMA CrashKeepsInOrder == ASSUME BackupInv, Crash PROVE BackupInv'
<1> USE DEF BackupInv
<1>1. /\ UNCHANGED <<file, inode, log, copies, download, has, changes>>
      /\ restore' = NoRestore
      /\ pushing' = [n \in Nodes |-> NoHash]
      /\ faults' \in 0..MaxFaults
      /\ misled' = Misremembered(Stored)
      /\ truth' = IF Open THEN truth ELSE Stored
  BY BoundsAssumption DEF Crash, diskVars, TypeOK
<1>2. truth' = Stored /\ Stored' = Stored /\ Stored \in Contents
  BY <1>1 DEF Open, FilesInOrder, Stored, TypeOK
<1>3. TypeOK'
  BY <1>1, <1>2 DEF TypeOK, Misremembered, Hashes
<1>4. FilesInOrder'
  BY <1>1, <1>2 DEF FilesInOrder
<1>5. \A n \in Nodes \ misled' : truth'.hash[n] \in {NoHash, has'[n]}
  BY <1>1, <1>2 DEF Misremembered
<1> QED BY <1>1, <1>3, <1>4, <1>5 DEF HashesInOrder

\* Every behaviour keeps the invariant.
LEMMA AlwaysInOrder == Spec => []BackupInv
<1>1. ASSUME BackupInv, [Next]_vars
      PROVE  BackupInv'
  <2>1. CASE Next
    BY <1>1, <2>1, UseKeepsInOrder, CopiesKeepInOrder, RestoreKeepsInOrder, CrashKeepsInOrder
       DEF Next
  <2>2. CASE UNCHANGED vars
    BY <1>1, <2>2 DEF BackupInv, TypeOK, FilesInOrder, HashesInOrder, Stored,
                      vars, diskVars, nodeVars
  <2> QED BY <1>1, <2>1, <2>2
<1> QED BY <1>1, InitiallyInOrder, PTL DEF Spec

-----------------------------------------------------------------------------

\* Files, log, uploads and pushes stay well typed through crashes between any
\* two steps, and no more automatic copies than `Retained` are kept.
THEOREM TypesCorrect == Spec => []TypeOK
<1>1. BackupInv => TypeOK
  BY DEF BackupInv
<1> QED BY <1>1, AlwaysInOrder, PTL

\* The panel finds what it committed last, or the last restore.
THEOREM CommitsAlwaysSurvive == Spec => []CommitsSurvive
<1>1. BackupInv => CommitsSurvive
  BY DEF BackupInv, FilesInOrder, CommitsSurvive, Open
<1> QED BY <1>1, AlwaysInOrder, PTL

\* A crash inside a restore leaves the old database or the new one, unless
\* the checkpoint the restore begins with has failed.
THEOREM RestoresAreAtomic == Spec => []RestoreIsAtomic
<1>1. BackupInv => RestoreIsAtomic
  BY DEF BackupInv, FilesInOrder, RestoreIsAtomic, Open, Stored
<1> QED BY <1>1, AlwaysInOrder, PTL

\* The nodes that sync_all skips have the users, but for those about which a
\* restore, or a push that could not be recorded, has misled the panel.
THEOREM SkipsAreSound == Spec => []SkippedNodesAreCurrent
<1>1. BackupInv => SkippedNodesAreCurrent
  BY NamesAssumption
     DEF BackupInv, TypeOK, FilesInOrder, HashesInOrder, SkippedNodesAreCurrent, Open, Contents
<1> QED BY <1>1, AlwaysInOrder, PTL

\* A download holds everything committed before it.
THEOREM DownloadsComplete == Spec => DownloadsAreComplete
<1>1. BackupInv /\ [Next]_vars => [Download => download' = truth]_vars
  BY DEF BackupInv, FilesInOrder, Download, Open, CheckpointFull
<1> QED BY <1>1, AlwaysInOrder, PTL DEF Spec, DownloadsAreComplete
=============================================================================
