SPECIFICATION FairSpec
CONSTANTS
  ws = ws  gw = gw
  Transports = {ws, gw}
  Publishers = {gw}
  ServicesEnabled = FALSE
  MaxPeriod = 5000
  MaxCount = 1
  MaxCycles = 70
INVARIANTS
  PollTypeOK
  NoLostWakeup
  GraphCountExact
  BackoffGrows
PROPERTIES
  PokeIsServed
  DestructorJoins
  GraphIsServed
CHECK_DEADLOCK FALSE
