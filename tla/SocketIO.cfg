SPECIFICATION FairSpec
CONSTANTS
  Sender = {s1, s2}
  None = None
  Cap = 4
  RCap = 3
  KOut = 2
  KIn = 3
  LockMod = 4
  Lengths = {1, 2}
  MaxSends = 4
  MaxRecvs = 3
INVARIANTS PendingIsPosted
PROPERTIES SentUnlessWrapped ReadUnlessBurst
CHECK_DEADLOCK FALSE
