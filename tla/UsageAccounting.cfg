CONSTANTS
  n1 = n1
  u1 = u1
  Main = Main
  NoReading = NoReading
  Nodes <- MCNodes
  Users <- MCOneUser
  Incidents <- MCAllIncidents
  MaxCarried = 2
  MaxIncidents = 2
SPECIFICATION Spec
INVARIANTS
  NeverOvercharged
  NothingVanishes
PROPERTIES
  EveryByteIsSettled
