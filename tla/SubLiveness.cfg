SPECIFICATION FairSpec
CONSTANTS
  t1 = t1  t2 = t2  A = A  B = B  p1 = p1
  None = None
  Topics = {t1, t2}
  Types = {A, B}
  KnownTypes = {A, B}
  Whitelist = {t1}
  Clients <- OneClient
  Callers = {p1}
  Latching = {p1}
  PubTopic <- P1OnT1
  SubIds = {s1, s2}
  Sysinfo = TRUE
  QueueLen = 1
  MaxChannels = 3
  MaxMsgs = 1
  MaxChanges = 1
PROPERTIES
  DiscoveryConverges
  EveryCallReturns
