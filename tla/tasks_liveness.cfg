SPECIFICATION FairSpec
CONSTANTS
  t1 = t1
  t2 = t2
  m1 = m1
  Tasks = {t1, t2}
  Managers = {m1}
  Home <- MCHome
  MaxTasks = 2
  MaxConcurrent = 1
  MaxRetries = 0
  AnyId = FALSE
  Uses = {"shutdown"}
  NoTask = NoTask
PROPERTIES
  EveryTaskSettles
  BookkeepingIsReleased
  ShutdownReturns
CHECK_DEADLOCK FALSE
