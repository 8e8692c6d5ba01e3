SPECIFICATION RotationSpec
CONSTANTS
  Main = main
  Remotes = {n1}
  Names <- MCNames
  Default <- MCDefault
  Counts <- MCSix
  Ways = {"grace", "no grace", "settings"}
  MaxMinted = 18
INVARIANTS
  RotationTypeOK
  NewestLinkWorks
  RecentLinksWork
PROPERTIES
  NodesKeepLinks
