SPECIFICATION FairSpec
CONSTANTS
  root = root
  child = child
  e1 = e1
  e2 = e2
  c1 = c1
  c2 = c2
  Scopes = {root, child}
  Parent <- MCParent
  Executions = {e1, e2}
  Home <- MCHome
  Callers = {c1, c2}
  Aborters = {c1}
  None = None
INVARIANTS
  DrainIsPhysical
  AbortReaches
PROPERTIES
  AbortReturns
CHECK_DEADLOCK FALSE
