SPECIFICATION FairSpec
CONSTANTS
  t1 = t1  t2 = t2  A = A  B = B  p1 = p1
  None = None
  Topics = {t1}
  Types = {A, B}
  KnownTypes = {A}
  Whitelist = {t1}
  Clients <- OneClient
  Callers = {p1}
  Latching = {p1}
  PubTopic <- P1OnT1
  SubIds = {s1, s2}
  Sysinfo = FALSE
  QueueLen = 1
  MaxChannels = 2
  MaxMsgs = 1
  MaxChanges = 0
INVARIANT OnlyGoneRemoved
