SPECIFICATION FairSpec
CONSTANTS
  Thread = {t1, t2, t3}
  Task = {k1, s1}
  Service = {s1}
  NoTask = NoTask
  Reserve = 1
  MaxSem = 2
  MaxChecks = 2
INVARIANTS NoDanglingThread NoThreadForgotten
PROPERTIES RunsOnce EveryTaskRuns ShutdownReturnsIfCounted
CHECK_DEADLOCK FALSE
