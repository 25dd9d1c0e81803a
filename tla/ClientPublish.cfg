SPECIFICATION MCSpec
CONSTANTS
  pt = pt  s1 = s1  s2 = s2  sp = sp  se = se  A = A  B = B
  None = None
  PollThreads = {pt}
  Sdk = {s1, s2}
  Spinners = {sp}
  Sessions = {se}
  Keys <- BothKeys
  Types = {A, B}
  Known = {A, B}
INVARIANTS
  AdvertisedFollowsSdk
  MessageGoesOut
PROPERTY KeepsLockOrder
