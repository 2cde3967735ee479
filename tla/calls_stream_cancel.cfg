SPECIFICATION Spec
CONSTANTS
  a = a
  b = b
  Me = "me"
  None = None
  Chains <- Nested
  Modes = {"stream"}
  Mw = {a, b}
  Initially <- MCOne
  Retrying = {}
  MaxCallDepth = 4
  MaxModuleRepeat = 2
  GlobalTimeouts = {0}
  DefaultTimeout = 0
  Entries <- MCPlain
  MaxTime = 0
  MaxChunks = 1
  Uses = {"chunk_cancel"}
INVARIANT
  CancelledNeverRecovered
CHECK_DEADLOCK FALSE
