SPECIFICATION Spec
CONSTANTS
  t1 = t1
  t2 = t2
  m1 = m1
  Tasks = {t1, t2}
  Managers = {m1}
  Home <- MCHome
  MaxTasks = 1
  MaxConcurrent = 1
  MaxRetries = 1
  AnyId = FALSE
  Uses = {"faults", "drop", "cleanup", "reaper"}
  NoTask = NoTask
SYMMETRY Symmetry
INVARIANTS
  TypeOK
  ActiveWithinLimit
  StopIsPhysical
  CancelledIsStopped
  TokenCoversInvocations
  NoStaleHandle
PROPERTY
  TerminalIsFinal
  ImplementsLifecycle
CHECK_DEADLOCK FALSE
