SPECIFICATION Spec
CONSTANTS
  a = a
  b = b
  c = c
  u = u
  v = v
  old = old
  Callers = {a, b, c}
  Users = {u}
  Old = old
  Version <- MCVersion
  Jobs = {"register", "discover"}
  MayOverlap <- Overlapping
  None = None
PROPERTY OneWinner
CHECK_DEADLOCK FALSE
