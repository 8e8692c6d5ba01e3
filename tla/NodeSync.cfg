CONSTANTS
  u1 = u1
  t1 = t1
  Everywhere = 0
  NoUser = NoUser
  NoTime = NoTime
  NoHash = NoHash
  Periodic = Periodic
  Nobody = Nobody
  Nodes <- MCTwoNodes
  Users <- MCUsers
  Rows <- MCRows
  Spawned <- MCOneSpawned
  MaxChanges = 2
  MaxFaults = 1
SPECIFICATION Spec
INVARIANTS
  TypeOK
  HashDescribesNode
PROPERTIES
  UndisturbedNodesConverge
