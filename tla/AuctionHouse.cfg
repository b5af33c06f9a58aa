CONSTANTS
  Player = {p1, p2, p3}
  Seller = {p1}
  Auction = {a1}
  MaxPrice = 2
  Buyout = {0, 1, 2}
  MaxAsks = 3
  MaxRestarts = 1
  None = None
SPECIFICATION Spec
INVARIANTS MoneyIsReturned ItemOnce UsedAfterDelete
CHECK_DEADLOCK FALSE
