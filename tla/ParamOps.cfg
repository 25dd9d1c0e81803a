SPECIFICATION MCFairSpec
CONSTANTS
  ws = ws  gw = gw  x = x  y = y
  Params = {x, y}
  Visible = {x}
  Transports = {ws, gw}
  MaxCalls = 3
INVARIANTS
  ParamTypeOK
  CountFollowsTransports
  RegisteredFollowsCount
  AnsweredOnce
  PushesIntoRunning
PROPERTIES
  EveryRequestAnswered
  DestructorReturns
CHECK_DEADLOCK FALSE
