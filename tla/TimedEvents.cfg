SPECIFICATION FairSpec
CONSTANTS
  Event = {e1, e2}
  Flagged = {e1}
  Deletes = {e2}
  Map = {m}
  World = World
  None = None
  MaxMoves = 2
INVARIANTS RefsExact HeldIsListed FlaggedNotInWorld
PROPERTIES EventIsReached RemovedIsFreed
CHECK_DEADLOCK FALSE
