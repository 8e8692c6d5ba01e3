CONSTANTS
  n1 = n1
  u1 = u1
  u2 = u2
  u3 = u3
  d1 = d1
  Main = Main
  Nodes <- MCNodes
  Raw <- MCRaw
  Users <- MCThree
  Home <- MCHome
  Dates <- MCDates
  NoDate = NoDate
  Limited <- MCTwo
  Given <- MCGiven
  MaxEdits = 2
SPECIFICATION EnforcementSpec
INVARIANTS
  OnlyAutoDisabledLinger
PROPERTIES
  AdminDisableCutsOff
  ExpiryIsEnforced
  QuotaIsEnforcedLocally
