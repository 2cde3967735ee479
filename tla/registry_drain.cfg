SPECIFICATION Spec
CONSTANTS
  a = a
  b = b
  c = c
  u = u
  v = v
  old = old
  Callers = {a, b, c}
  Users = {u, v}
  Old = old
  Version <- MCVersion
  Jobs = {"safe"}
  MayOverlap <- MCOverlap
  None = None
INVARIANT WokenMeansUnused
CHECK_DEADLOCK FALSE
