CONSTANTS
  World = World
  Map = {m1, m2}
  Instance = {m1}
  MaxMoves = 2
  MaxLogins = 1
  None = None
SPECIFICATION HandoverFairSpec
INVARIANTS SessionIsFound OnePlace OwnThread
PROPERTIES GoneEnds
CHECK_DEADLOCK FALSE
