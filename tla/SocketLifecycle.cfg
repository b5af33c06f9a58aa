SPECIFICATION FairSpec
CONSTANTS
  Sock = {a, b}
  NFd = 1
  None = None
INVARIANTS CloseOwnFd TableIsLive NoUseAfterFree
PROPERTY DeadIsCollected
CHECK_DEADLOCK FALSE
