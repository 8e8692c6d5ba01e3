CONSTANTS
  n1 = n1
  t0 = t0
  t1 = t1
  NoHash = NoHash
  NoLog = NoLog
  Mixed = Mixed
  Nodes <- MCOneNode
  Tables <- MCTables
  NoUsers = t0
  Retained = 2
  MaxChanges = 3
  MaxRestores = 2
  MaxFaults = 2
SPECIFICATION Spec
INVARIANTS
  CommitsSurvive
  RestoreIsAtomic
  SkippedNodesAreCurrent
PROPERTIES
  DownloadsAreComplete
  NodesFollowTheTable
