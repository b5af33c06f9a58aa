CONSTANTS
  Query = {q1, q2}
  Batch = {b1}
  Caller = {c1, Main}
  Main = Main
  Exec = Exec
  Buff = Buff
  ConnectionCount = 2
  None = None
SPECIFICATION Spec
INVARIANTS NoUseAfterDelete OwedIsPerformed
PROPERTIES ServesInOrder EndThreadsReturns
CHECK_DEADLOCK FALSE
