SPECIFICATION FairSpec
CONSTANTS
  a = a
  b = b
  Me = "me"
  None = None
  Chains <- TopLevel
  Modes = {"call", "trace", "stream", "validate"}
  Mw = {a}
  Initially <- MCOne
  Retrying = {}
  MaxCallDepth = 4
  MaxModuleRepeat = 2
  GlobalTimeouts = {0, 1}
  DefaultTimeout = 0
  Entries <- MCPlain
  MaxTime = 2
  MaxChunks = 1
  Uses = {"middlewares"}
PROPERTY
  EveryCallReturns
CHECK_DEADLOCK FALSE
