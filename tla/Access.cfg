CONSTANTS
  SoftFails = 2
  HardLock = 3
  LockTime = 3
  Pauses <- MCPauses
  MaxOverlap = 2
  titan = titan
  owner = owner
  short = short
  long = long
  Names <- MCNames
  DefaultName = titan
  Passwords <- MCPasswords
  LongPasswords <- MCLongPasswords
  NoPassword = NoPassword
  NoOne = NoOne
  NoCookie = NoCookie
  Unset = Unset
  Hours = 1
  SessionAge = 1
  MaxChanging = 2
  Uploads <- MCUploads
SPECIFICATION Spec
INVARIANTS
  FirstRunIsBounded
  RecoveryWorks
  GuessesAreBounded
PROPERTIES
  ClaimIsFinal
  PasswordChangesAreAuthorised
  LocksEnd
