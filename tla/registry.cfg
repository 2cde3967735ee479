SPECIFICATION Spec
CONSTANTS
  a = a
  b = b
  c = c
  u = u
  v = v
  old = old
  Callers = {a, b, c}
  Users = {u, v}
  Old = old
  Version <- MCVersion
  Jobs = {"register", "version", "discover", "unregister", "safe", "reload", "watch"}
  MayOverlap <- MCOverlap
  None = None
SYMMETRY Symmetry
INVARIANTS
  TypeOK
  VisibleIsLoaded
  OneInFlight
  NoLeakedReference
  DrainIsTold
PROPERTIES
  OneWinner
  ReloadKeepsModule
CHECK_DEADLOCK FALSE
