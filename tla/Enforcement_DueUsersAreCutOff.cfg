CONSTANTS
  n1 = n1
  u1 = u1
  u2 = u2
  u3 = u3
  d1 = d1
  Main = Main
  Nodes <- MCNodes
  Raw <- MCNone
  Users <- MCTwo
  Home <- MCTwoHome
  Dates <- MCDates
  NoDate = NoDate
  Limited <- MCTwo
  Given <- MCTwoGiven
  MaxEdits = 1
SPECIFICATION EnforcementSpec
PROPERTIES
  DueUsersAreCutOff
