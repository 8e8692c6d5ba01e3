CONSTANTS
  l1 = l1
  l2 = l2
  l3 = l3
  Handler = Handler
  Loops <- MCLoops
  MaxChanges = 4
  Absent = Absent
  Empty = Empty
  Torn = Torn
  Dead = Dead
SPECIFICATION Spec
INVARIANTS
  NoStrandedRequest
  SerialReloadsServeTheDatabase
PROPERTIES
  KeepsReloadPromise
CHECK_DEADLOCK FALSE
