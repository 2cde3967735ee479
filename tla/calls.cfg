SPECIFICATION Spec
CONSTANTS
  a = a
  b = b
  Me = "me"
  None = None
  Chains <- MCChains
  Modes = {"call", "trace", "stream", "validate"}
  Mw = {a, b}
  Initially <- MCTwo
  Retrying = {}
  MaxCallDepth = 4
  MaxModuleRepeat = 2
  GlobalTimeouts = {0, 1}
  DefaultTimeout = 0
  Entries <- MCEntries
  MaxTime = 1
  MaxChunks = 1
  Uses = {"cancel", "registry"}
INVARIANTS
  TypeOK
  InvocationGoverned
  CancelledNeverRecovered
  BoundedByDeadline
  TokenIsStripped
  OnErrorMatchesBefore
CHECK_DEADLOCK FALSE
