CONSTANTS
  b1 = b1
  s1 = s1
  Job = {b1, s1}
  Size <- MCSize
  Buffer = {b1}
  Untransacted <- MCUntransacted
  Thread = {t1, t2}
  Conn = {k1, k2}
  None = None
SPECIFICATION Spec
INVARIANTS FreeIsClean WholeUnlessTroubled TwiceOnlyIfUnanswered
CHECK_DEADLOCK FALSE
