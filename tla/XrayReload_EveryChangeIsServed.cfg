CONSTANTS
  l1 = l1
  l2 = l2
  l3 = l3
  Handler = Handler
  Loops <- MCLoops
  MaxChanges = 3
  Absent = Absent
  Empty = Empty
  Torn = Torn
  Dead = Dead
SPECIFICATION Spec
PROPERTY EveryChangeIsServed
CHECK_DEADLOCK FALSE
