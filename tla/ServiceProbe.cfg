SPECIFICATION ProbeFairSpec
CONSTANTS
  sv1 = sv1  sv2 = sv2  sv3 = sv3  A = A  B = B
  None = None
  Services = {sv1, sv2, sv3}
  SrvTypes = {A, B}
  KnownSrv = {A}
  SrvWhite = {sv1, sv2}
  HasGateway = TRUE
  MaxSrvChanges = 2
INVARIANTS
  DiscoveryTypeOK
  OfferedIsKnown
  MapMatchesServer
  AnswerIsOwn
PROPERTY ServicesConverge
