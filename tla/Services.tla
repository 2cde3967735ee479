------------------------------ MODULE Services ------------------------------
(***************************************************************************)
(* Services beside the call path, composed: each is an instance of its     *)
(* module with the variables of that module.  They share no variable, so   *)
(* a behaviour has one of them, named by `focus`; the variables of those   *)
(* that are not there hold Unused.                                         *)
(***************************************************************************)
EXTENDS Integers, Sequences

CONSTANTS
  Focuses,     \* the services a behaviour may have
  Unused,
  \* Reaper
  Reapers, NoReaper, Disciplined,
  \* Events
  Subscribers, Subscribed, Wildcards, DeadLetterReaders, Attempts, Messages, Audience, Modes,
  Flushers, Shutters, Patient, MixesRemovals, Free,
  \* ModuleBreaker
  BreakerCalls, WindowSize, MinSamples, ThresholdErrors, ThresholdOf, Recovery, MaxTime, NoTime,
  \* SubscriberBreaker
  BreakerEvents, OpenThreshold, RecoveryWindow, LastTick, Never,
  \* Middlewares
  Registrations, PriorityOf, NameOf, IdentityOf, NoIdentity, MaxPriority, ByHandleAlone,
  \* ControlPlane
  ControlCalls, Asks, Keys, Base, Legal(_, _), Restricted, Sensitive, Truthy, Plain, DependsOn,
  TakenGroups, Persistences, Strictness, MaxStarts, Nothing, JsonNull, Masked,
  \* ACLRules
  Drafts, Documents, DocumentAtStart, ConditionKeys, Covers, Trees, Nodes, MaxNesting, Requests,
  NoConditions, MaxRules, Late,
  \* Strategies
  Given, Lists, Wrapped(_), Sections, Makes, StepTypes, LongNames, MaxEdits,
  \* StepEngine
  Pipelines, Hooks, Options, MaxRuns

(* A reaper is not the empty slot, and no instant is the absent one.       *)
ASSUME ReaperAssumption == NoReaper \notin Reapers
ASSUME EventsAssumption ==
  /\ Free \notin Subscribers /\ Subscribed \in Seq(Subscribers)
  /\ \A i, j \in 1 .. Len(Subscribed) : Subscribed[i] = Subscribed[j] => i = j
ASSUME CircuitAssumption == WindowSize \in Nat /\ Recovery \in Nat /\ NoTime \in Int \ Nat
ASSUME WrapperAssumption == Never \notin Nat
ASSUME PriorityAssumption == PriorityOf \in [Registrations -> Nat]
(* A request of the control modules names a key or a registered module and *)
(* carries a value; the configuration on disk has every key.               *)
ASSUME ControlAssumption ==
  /\ Base \in [Keys -> {Base[k] : k \in Keys}]
  /\ \A c \in ControlCalls : \A ask \in Asks[c] :
       \/ ask.op = "update" /\ ask.cell \in {"config"} \X Keys /\ ask.value # Nothing
       \/ ask.op = "toggle" /\ ask.cell \in {"toggle"} \X Plain /\ ask.value # Nothing
       \/ ask.op = "reload"

VARIABLES
  focus,
  \* Reaper
  running, slot, told, starting, handle, loop, stopper,
  \* Events
  subscribers, subsLock, handles, handlesLock, registrar, position, isShutdown, emitter, mode,
  snapshot, stage, tries, letters, pending, flusher, held, unfinished, owed, detached,
  \* ModuleBreaker
  circuit, window, openedAt, probeInFlight, probeStartedAt, clock, call, probedAt,
  \* SubscriberBreaker
  state, consecutiveFailures, lastFailureAt, time, delivery, newCount, failedAt, announced,
  \* Middlewares
  middlewares, handleList, identities, registered, listLock, entry, at,
  \* ControlPlane
  process, live, overrides, disabled, loaded, installed, desk, trail, wire, lineage, refreshed,
  bereft,
  \* ACLRules
  rules, defaultEffect, file, sync, async, warned, callback, auditConfig, failed, reports,
  \* Strategies
  strategy, stepTypes, holder, section, plan, fellBack, rebound, edits,
  \* StepEngine
  steps, options, cursor, phase, hookIndex, hookLog, bodyEnd, pastOutputs, lostCapabilities,
  resolved, traced, ending, bodies, runs

Reaping     == INSTANCE Reaper
Emitting    == INSTANCE Events
Breaking    == INSTANCE ModuleBreaker
Guarding    == INSTANCE SubscriberBreaker
Registering == INSTANCE Middlewares
Controlling == INSTANCE ControlPlane WITH Null <- JsonNull
Ruling      == INSTANCE ACLRules WITH Keys <- ConditionKeys, First <- DocumentAtStart
Piping      == INSTANCE Strategies WITH None <- Nothing
Running     == INSTANCE StepEngine WITH None <- Nothing

(* A part of a condition that is evaluated is a node; a handler answers    *)
(* with one of the three outcomes.  An id has no question mark, the        *)
(* universal patterns match all of them, and no target is the external     *)
(* caller.                                                                 *)
IsRule(rule) == rule.approval \in BOOLEAN /\ (rule.conditions = NoConditions \/ Trees[rule.conditions] \in Nodes)
ASSUME AccessAssumption ==
  /\ Late \subseteq ConditionKeys /\ MaxNesting \in Nat
  /\ \A tree \in Nodes : tree.kind = "mapping" =>
       \A i \in DOMAIN tree.entries :
         /\ tree.entries[i].key = "$not" => tree.entries[i].operand \in Nodes
         /\ tree.entries[i].key = "$or" /\ tree.entries[i].operand.kind = "list" =>
              \A k \in DOMAIN tree.entries[i].operand.items : tree.entries[i].operand.items[k] \in Nodes
  /\ \A rule \in Drafts : IsRule(rule)
  /\ \A doc \in Documents \cup {DocumentAtStart} :
       /\ doc.rules \in Seq({doc.rules[i] : i \in DOMAIN doc.rules})
       /\ \A i \in DOMAIN doc.rules : IsRule(doc.rules[i])
  /\ Ruling!Questioned \cap DOMAIN Covers = {}
  /\ \A r \in Requests :
       /\ DOMAIN r = {"mode", "caller", "target", "ctx", "projection", "answers"}
       /\ r.answers \in [ConditionKeys -> 0 .. 2]
       /\ r.target # Ruling!External /\ {r.caller, r.target} \cap Ruling!Questioned = {}
       /\ \A p \in Ruling!Universal \ {"*"} : p \in DOMAIN Covers /\ {r.caller, r.target} \subseteq Covers[p]

(* The parts a tree is evaluated by; no tree is nested deeper than the     *)
(* bound, so that the bound cuts no evaluation short.                      *)
Parts(tree) ==
  IF tree.kind # "mapping" THEN {}
  ELSE UNION {LET e == tree.entries[i] IN
                IF e.key = "$not" THEN {e.operand}
                ELSE IF e.key = "$or" /\ e.operand.kind = "list"
                     THEN {e.operand.items[k] : k \in DOMAIN e.operand.items}
                ELSE {} : i \in DOMAIN tree.entries}
ASSUME NestingAssumption ==
  LET within[d \in Nat] == IF d = 0 THEN {} ELSE {tree \in Nodes : Parts(tree) \subseteq within[d - 1]}
  IN Nodes = within[MaxNesting]

(* What is given as a step is one, and no gate and no error is the absent  *)
(* one; a section configures a step once, and leaves a flag out or sets it.*)
IsList(list) == list \in Seq({list[i] : i \in DOMAIN list})
ASSUME StrategyAssumption ==
  /\ Nothing \notin {"acl", "approval", "weakened_gate", "duplicate", "dependency", "no_such_step",
                   "not_removable", "not_replaceable", "configuration"}
  /\ \A step \in Given : Piping!IsStep(step)
  /\ \A list \in Lists : IsList(list) /\ \A i \in DOMAIN list : Piping!IsStep(list[i])
  /\ StepTypes \subseteq DOMAIN Makes /\ \A t \in DOMAIN Makes : Piping!IsStep(Makes[t])
  /\ Nothing \notin Sections
  /\ \A s \in Sections :
       /\ IsList(s.remove) /\ IsList(s.configure) /\ IsList(s.insert)
       /\ \A i \in DOMAIN s.configure :
            {s.configure[i].ignores, s.configure[i].pure} \subseteq {Nothing} \cup BOOLEAN
       /\ \A i, j \in DOMAIN s.configure : s.configure[i].step = s.configure[j].step => i = j
       /\ \A i \in DOMAIN s.insert :
            {s.insert[i].ignores, s.insert[i].pure} \subseteq {Nothing} \cup BOOLEAN
(* The steps of a pipeline that runs have names of their own, and the end  *)
(* of a run is not the absent one.                                         *)
ASSUME PipelineAssumption ==
  /\ Nothing \notin {"ok", "aborted"}
  /\ \A pipeline \in Pipelines :
       /\ IsList(pipeline)
       /\ \A i, j \in DOMAIN pipeline : pipeline[i].name = pipeline[j].name => i = j
       /\ \A i \in DOMAIN pipeline : pipeline[i].pure \in BOOLEAN /\ pipeline[i].ignores \in BOOLEAN
  /\ \A o \in Options : o.dry \in BOOLEAN
  /\ IsList(Hooks)

reaperVars == <<running, slot, told, starting, handle, loop, stopper>>
eventVars ==
  <<subscribers, subsLock, handles, handlesLock, registrar, position, isShutdown, emitter, mode,
    snapshot, stage, tries, letters, pending, flusher, held, unfinished, owed, detached>>
moduleBreakerVars ==
  <<circuit, window, openedAt, probeInFlight, probeStartedAt, clock, call, probedAt>>
subscriberBreakerVars ==
  <<state, consecutiveFailures, lastFailureAt, time, delivery, newCount, failedAt, announced>>
middlewareVars == <<middlewares, handleList, identities, registered, listLock, entry, at>>
controlVars ==
  <<process, live, overrides, disabled, loaded, installed, desk, trail, wire, lineage, refreshed,
    bereft>>
accessVars ==
  <<rules, defaultEffect, file, sync, async, warned, callback, auditConfig, failed, reports>>
strategyVars == <<strategy, stepTypes, holder, section, plan, fellBack, rebound, edits>>
engineVars ==
  <<steps, options, cursor, phase, hookIndex, hookLog, bodyEnd, pastOutputs, lostCapabilities,
    resolved, traced, ending, bodies, runs>>
vars ==
  <<focus, reaperVars, eventVars, moduleBreakerVars, subscriberBreakerVars, middlewareVars,
    controlVars, accessVars, strategyVars, engineVars>>

-----------------------------------------------------------------------------
ReaperUnused ==
  /\ running = Unused /\ slot = Unused /\ told = Unused /\ starting = Unused
  /\ handle = Unused /\ loop = Unused /\ stopper = Unused
EventsUnused ==
  /\ subscribers = Unused /\ subsLock = Unused /\ handles = Unused /\ handlesLock = Unused
  /\ registrar = Unused /\ position = Unused /\ isShutdown = Unused /\ emitter = Unused
  /\ mode = Unused /\ snapshot = Unused /\ stage = Unused /\ tries = Unused /\ letters = Unused
  /\ pending = Unused /\ flusher = Unused /\ held = Unused /\ unfinished = Unused
  /\ owed = Unused /\ detached = Unused
ModuleBreakerUnused ==
  /\ circuit = Unused /\ window = Unused /\ openedAt = Unused /\ probeInFlight = Unused
  /\ probeStartedAt = Unused /\ clock = Unused /\ call = Unused /\ probedAt = Unused
SubscriberBreakerUnused ==
  /\ state = Unused /\ consecutiveFailures = Unused /\ lastFailureAt = Unused /\ time = Unused
  /\ delivery = Unused /\ newCount = Unused /\ failedAt = Unused /\ announced = Unused
MiddlewaresUnused ==
  /\ middlewares = Unused /\ handleList = Unused /\ identities = Unused /\ registered = Unused
  /\ listLock = Unused /\ entry = Unused /\ at = Unused
ControlUnused ==
  /\ process = Unused /\ live = Unused /\ overrides = Unused /\ disabled = Unused
  /\ loaded = Unused /\ installed = Unused /\ desk = Unused /\ trail = Unused /\ wire = Unused
  /\ lineage = Unused /\ refreshed = Unused /\ bereft = Unused
AccessUnused ==
  /\ rules = Unused /\ defaultEffect = Unused /\ file = Unused /\ sync = Unused /\ async = Unused
  /\ warned = Unused /\ callback = Unused /\ auditConfig = Unused /\ failed = Unused
  /\ reports = Unused
StrategyUnused ==
  /\ strategy = Unused /\ stepTypes = Unused /\ holder = Unused /\ section = Unused
  /\ plan = Unused /\ fellBack = Unused /\ rebound = Unused /\ edits = Unused
EngineUnused ==
  /\ steps = Unused /\ options = Unused /\ cursor = Unused /\ phase = Unused
  /\ hookIndex = Unused /\ hookLog = Unused /\ bodyEnd = Unused /\ pastOutputs = Unused
  /\ lostCapabilities = Unused /\ resolved = Unused /\ traced = Unused /\ ending = Unused
  /\ bodies = Unused /\ runs = Unused

Init ==
  /\ focus \in Focuses
  /\ IF focus = "reaper" THEN Reaping!Init ELSE ReaperUnused
  /\ IF focus = "events" THEN Emitting!Init ELSE EventsUnused
  /\ IF focus = "module breaker" THEN Breaking!Init ELSE ModuleBreakerUnused
  /\ IF focus = "subscriber breaker" THEN Guarding!Init ELSE SubscriberBreakerUnused
  /\ IF focus = "middlewares" THEN Registering!Init ELSE MiddlewaresUnused
  /\ IF focus = "control" THEN Controlling!Init ELSE ControlUnused
  /\ IF focus = "acl" THEN Ruling!Init ELSE AccessUnused
  /\ IF focus = "strategy" THEN Piping!Init ELSE StrategyUnused
  /\ IF focus = "engine" THEN Running!Init ELSE EngineUnused

Next ==
  /\ UNCHANGED focus
  /\ \/ /\ focus = "reaper" /\ Reaping!Next
        /\ UNCHANGED <<eventVars, moduleBreakerVars, subscriberBreakerVars, middlewareVars, controlVars,
                       accessVars, strategyVars, engineVars>>
     \/ /\ focus = "events" /\ Emitting!Next
        /\ UNCHANGED <<reaperVars, moduleBreakerVars, subscriberBreakerVars, middlewareVars, controlVars,
                       accessVars, strategyVars, engineVars>>
     \/ /\ focus = "module breaker" /\ Breaking!Next
        /\ UNCHANGED <<reaperVars, eventVars, subscriberBreakerVars, middlewareVars, controlVars,
                       accessVars, strategyVars, engineVars>>
     \/ /\ focus = "subscriber breaker" /\ Guarding!Next
        /\ UNCHANGED <<reaperVars, eventVars, moduleBreakerVars, middlewareVars, controlVars,
                       accessVars, strategyVars, engineVars>>
     \/ /\ focus = "middlewares" /\ Registering!Next
        /\ UNCHANGED <<reaperVars, eventVars, moduleBreakerVars, subscriberBreakerVars, controlVars,
                       accessVars, strategyVars, engineVars>>
     \/ /\ focus = "control" /\ Controlling!Next
        /\ UNCHANGED <<reaperVars, eventVars, moduleBreakerVars, subscriberBreakerVars, middlewareVars,
                       accessVars, strategyVars, engineVars>>
     \/ /\ focus = "acl" /\ Ruling!Next
        /\ UNCHANGED <<reaperVars, eventVars, moduleBreakerVars, subscriberBreakerVars, middlewareVars,
                       controlVars, strategyVars, engineVars>>
     \/ /\ focus = "strategy" /\ Piping!Next
        /\ UNCHANGED <<reaperVars, eventVars, moduleBreakerVars, subscriberBreakerVars, middlewareVars,
                       controlVars, accessVars, engineVars>>
     \/ /\ focus = "engine" /\ Running!Next
        /\ UNCHANGED <<reaperVars, eventVars, moduleBreakerVars, subscriberBreakerVars, middlewareVars,
                       controlVars, accessVars, strategyVars>>

Spec == Init /\ [][Next]_vars

-----------------------------------------------------------------------------
(* Each service keeps what its module promises of it.                      *)
OneReaper == focus = "reaper" => Reaping!OneReaper
HandlesAligned ==
  /\ focus = "events" => Emitting!HandlesAligned
  /\ focus = "middlewares" => Registering!ListsParallel
DeliveriesTracked == focus = "events" => Emitting!DeliveriesTracked
BreakersRecover ==
  /\ focus = "module breaker" => Breaking!ProbesSpaced
  /\ focus = "subscriber breaker" => Guarding!OpenRecovers
ControlIsKept ==
  focus = "control" =>
    /\ Controlling!LatestIsKept /\ Controlling!MemoryIsPersisted
    /\ Controlling!TrailIsTrue /\ Controlling!NothingIsLost
FailsClosed == focus = "acl" => Ruling!FailsClosed
AccessRules ==
  focus = "acl" =>
    /\ Ruling!RulesAreLegal /\ Ruling!MarkersNameTheirRule /\ Ruling!FindingsAreTrue
    /\ Ruling!AuditIsWhole
PipelineIsSound ==
  /\ focus = "strategy" => Piping!StrategyIsSound
  /\ focus = "engine" => Running!StepsAreSound
=============================================================================
