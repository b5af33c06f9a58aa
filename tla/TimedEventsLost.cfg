SPECIFICATION Spec
CONSTANTS
  Event = {e1, e2}
  Flagged = {e1}
  Deletes = {e2}
  Map = {m}
  World = World
  None = None
  MaxMoves = 2
CHECK_DEADLOCK FALSE
INVARIANTS EventsComeBack
