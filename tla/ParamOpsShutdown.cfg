SPECIFICATION FairSpec
CONSTANTS
  ws = ws  gw = gw  x = x  y = y
  Params = {x, y}
  Visible = {x, y}
  Transports = {ws, gw}
  MaxCalls = 1
PROPERTY NoRegistrationAfterShutdown
CHECK_DEADLOCK FALSE
