SPECIFICATION FairSpec
CONSTANTS
  a = a
  b = b
  c = c
  Sock = {1, 2, 3}
  Request = {1, 2, 3, 4}
  From <- MCFrom
  Account = {a, b, c}
  AccountOf <- MCAccountOf
  GM = {b}
  Limit = 1
  NoSock = 0
INVARIANTS ClosedIsForgotten ListedIsLive
PROPERTIES LoginIsAnswered QueueMoves
CHECK_DEADLOCK FALSE
