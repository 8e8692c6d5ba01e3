CONSTANTS
  n1 = n1
  n2 = n2
  a1 = a1
  a2 = a2
  None = None
  Nodes <- MCNodes
  Addresses <- MCAddresses
  Speed <- MCSpeed
  MaxChanges = 1
  MaxAwaiting = 2
SPECIFICATION Spec
INVARIANTS
  TypeOK
  LocationIsCurrent
PROPERTIES
  AutoFollowsTheFastest
  KeysFollowServers
CHECK_DEADLOCK FALSE
