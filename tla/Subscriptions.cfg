CONSTANTS
  u1 = u1
  u2 = u2
  Users <- MCUsers
  Dated <- MCDated
  LastHost = 2
  Absent = Absent
  NoHash = NoHash
  NoPush = NoPush
  NoGroup = NoGroup
  NoPatch = NoPatch
  MaxChanges = 3
  MaxFaults = 1
SPECIFICATION Spec
INVARIANTS
  PeersAreDistinct
  RevokedKeysStayDead
PROPERTIES
  PoolSpec
  LinksWork
  ExpiredMembersLeave
CHECK_DEADLOCK FALSE
