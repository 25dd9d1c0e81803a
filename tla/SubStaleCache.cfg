SPECIFICATION FairSpec
CONSTANTS
  t1 = t1  t2 = t2  A = A  B = B  p1 = p1
  None = None
  Topics = {t1}
  Types = {A, B}
  KnownTypes = {A, B}
  Whitelist = {t1}
  Clients <- TwoClients
  Callers = {p1}
  Latching = {p1}
  PubTopic <- P1OnT1
  SubIds = {s1, s2, s3}
  Sysinfo = FALSE
  QueueLen = 1
  MaxChannels = 1
  MaxMsgs = 2
  MaxChanges = 0
PROPERTY CacheKeepsLast
