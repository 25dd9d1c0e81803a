SPECIFICATION FairSpec
CONSTANTS
  sv1 = sv1  A = A  B = B  c1 = c1  c2 = c2
  None = None
  Services = {sv1}
  SrvTypes = {A, B}
  KnownSrv = {A}
  SrvWhite = {sv1}
  HasGateway = FALSE
  MaxSrvChanges = 1
  Calls = {c1, c2}
INVARIANTS
  TypeOK
  RespondedOnce
  TimeoutOnlyLate
  OpenIsWatched
PROPERTIES
  ImplementsOneShot
  EveryCallAnswered
  PendingDrains
CHECK_DEADLOCK FALSE
