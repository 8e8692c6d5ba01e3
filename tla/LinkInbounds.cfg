CONSTANTS
  u1 = u1
  u2 = u2
  q1 = q1
  q2 = q2
  Users <- MCTwo
  Sites <- MCSites
  Choices <- MCChoices
  Bodies <- MCBodies
  Defaults <- MCDefaults
  MaxEdits = 3
  Requests <- MCTwoRequests
  Hy2On443 = TRUE
  Hy2Obfs = FALSE
SPECIFICATION Spec
SYMMETRY MCSymmetry
CHECK_DEADLOCK FALSE
INVARIANTS
  RowsAreServable
  ExactlyTheseLinksWork
  ExactlyTheseFilesAgree
