SPECIFICATION Spec
CONSTANTS
  t1 = t1  t2 = t2  A = A  B = B  p1 = p1
  None = None
  Topics = {t1}
  Types = {A, B}
  KnownTypes = {A, B}
  Whitelist = {t1}
  Clients <- BothTransports
  Callers = {p1}
  Latching = {p1}
  PubTopic <- P1OnT1
  SubIds = {s1, s2, s3}
  Sysinfo = FALSE
  QueueLen = 1
  MaxChannels = 2
  MaxMsgs = 2
  MaxChanges = 1
INVARIANTS
  TypeOK
  NoOrphanSubscription
  RegisteredMatchesSdk
  SubscriberOwnedOnce
  LatchedChannelsExact
  LateJoinerCaughtUp
  TornDownBeforeAdvertise
