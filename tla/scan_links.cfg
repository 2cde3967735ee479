SPECIFICATION MCSpec
CONSTANTS
  r1 = r1
  r2 = r2
  r3 = r3
  sa = sa
  sd = sd
  m1 = m1
  m2 = m2
  f1 = f1
  f2 = f2
  c1 = c1
  c2 = c2
  c3 = c3
  b1 = b1
  b2 = b2
  b3 = b3
  g1 = g1
  g2 = g2
  g3 = g3
  u1 = u1
  u2 = u2
  e1 = e1
  e2 = e2
  p1 = p1
  p2 = p2
  None = None
  Unused = None
  Focuses = {"discovery"}
  Loose = TRUE
  Reapers = {r1, r2, r3}
  NoReaper = None
  Disciplined <- MCDiscipline
  Subscribers = {sa, sd}
  Subscribed <- MCSubscribed
  Wildcards = {sa}
  DeadLetterReaders = {sa, sd}
  Attempts <- MCAttempts
  Messages = {m1, m2}
  Audience <- MCAudience
  Modes <- MCModes
  Flushers = {f1, f2}
  Shutters = {f2}
  Patient = {f2}
  MixesRemovals = TRUE
  Free = Free
  BreakerCalls = {c1, c2, c3}
  WindowSize = 2
  MinSamples = 1
  ThresholdErrors = 1
  ThresholdOf = 2
  Recovery = 2
  MaxTime = 5
  NoTime <- MCNoTime
  BreakerEvents = {b1, b2, b3}
  OpenThreshold = 2
  RecoveryWindow = 1
  LastTick = 2
  Never <- MCNoTime
  Registrations = {g1, g2, g3}
  PriorityOf <- MCPriorityOf
  NameOf <- MCNameOf
  IdentityOf <- MCIdentityOf
  NoIdentity = None
  MaxPriority = 2
  ByHandleAlone <- MCDiscipline
  ControlCalls = {u1, u2}
  Asks <- MCAsks
  Keys <- TheControlKeys
  Base <- MCBase
  Legal <- LegalSetting
  Restricted = {"enabled"}
  Sensitive = {"secret"}
  Truthy = {"true"}
  Plain = {"a", "b"}
  DependsOn <- MCDependsOn
  TakenGroups = {"usage"}
  Persistences = {"file", "store"}
  Strictness = {FALSE, TRUE}
  MaxStarts = 2
  Nothing = None
  JsonNull = "null"
  Masked = "***"
  Drafts <- TheDrafts
  Documents <- TheDocuments
  DocumentAtStart <- FirstDocument
  ConditionKeys = {"roles", "late"}
  Covers <- MCCovers
  Trees <- TheTrees
  Nodes <- TheNodes
  MaxNesting = 2
  Requests <- TheRequests
  NoConditions = "none"
  MaxRules = 2
  Late = {"late"}
  Given <- TheSteps
  Lists <- TheStepLists
  Wrapped <- WrappersMake
  Sections <- TheSections
  Makes <- TheFactories
  StepTypes = {"audit", "bill", "gate"}
  LongNames = {"long"}
  MaxEdits = 2
  Pipelines <- ThePipelines
  Hooks <- MCHooks
  Options <- MCRunOptions
  MaxRuns = 2
INVARIANTS
  ScanIsWhole
CHECK_DEADLOCK FALSE
