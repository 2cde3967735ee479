# A TLA+ model of apcore-rust

apcore executes *modules* for AI callers: a registry holds them, an executor
runs a call through a pipeline of governed steps, and a task manager runs calls
in the background. Around these stand the services a deployment needs: access
rules, configuration, a control plane, discovery and hot reload, events,
observers. This directory models the parts of that program where several actors
meet or a long sequence of legal calls decides, checks them with TLC and proves
the central results with TLAPS. All source paths are under `src/src/` unless
they say otherwise. `PROJECT.json` maps every definition to the lines it
translates.

| Module | What it is |
| --- | --- |
| `AsyncTasks`, `TaskLifecycle` | `AsyncTaskManager` (`async_task.rs`), any number of managers on one store; the abstract life of one record, which it implements |
| `Reaper` | start, stop and handle of the background reaper (`async_task.rs`) |
| `Calls` | one call through `Executor`, pipeline, built-in steps and middlewares |
| `CancelTokens` | linked scopes, tracked executions, abort and drain (`cancel.rs`) |
| `Registry` | the life of one module id, with reload and a watcher's batch |
| `RegistryWatch`, `RegistryNotices` | watch and unwatch, the lent discoverer, the roots; callbacks, events and warnings about one id (`registry/registry.rs`) |
| `Discovery` | scanner, default discoverer, dependency order, conflicts, batches, versions (`registry/`) |
| `ACLRules` | rules, conditions, decision, audit (`acl.rs`, `acl_handlers.rs`) |
| `Middlewares` | the registrations of `MiddlewareManager` |
| `ModuleBreaker`, `SubscriberBreaker` | the two circuit breakers (`middleware/`, `events/`) |
| `Events` | the emitter: subscriptions, deliveries, flush, shutdown (`events/emitter.rs`) |
| `Configuration` | `Config` (`config.rs`): tree, typed leaves, environment, mounts |
| `SchemaLoading` | schema loader and reference resolver (`schema/`) |
| `ControlPlane` | the control modules, their overrides, events and audit (`sys_modules/`) |
| `Strategies`, `StepEngine` | building a pipeline, and running one (`pipeline.rs`, `pipeline_config.rs`) |
| `CallObservers`, `SpanBatches`, `ErrorRecords`, `UsageReport`, `HealthAlerts` | tracing and metrics middlewares, span processor, error history, usage, alerts (`observability/`) |
| `DataCapture` | captured, redacted and logged inputs and outputs; the merge of chunks |
| `Services` | `Reaper`, `Events`, both breakers, `Middlewares`, `ControlPlane`, `ACLRules`, `Strategies` and `StepEngine` side by side, with their assumptions and the properties proved of them |
| `...Proofs` | the proofs about the module of that name (section 6); `EventsProofs`, `ControlPlaneProofs` and `PipelineProofs` are about parts of `Services` |
| `MC...` | the constants for TLC; `MCServices` extends `Services` by the other services, `MCSamples` has their documents, disks, requests and strategies |

## 1. The system

**Registry** (`registry/registry.rs`). One `RwLock` (`core`) over the maps
modules, descriptors, versions, sources, ref counts, draining ids; `in_flight`,
the ids being registered; `drain_events`, one `Notify` per draining id; the slots
of discoverer, watcher and watch task; lists of callbacks. Operations: register
(several entry points, one core), register_versioned, discover, unregister,
safe_unregister, acquire/release, watch/unwatch, reinstate. A module's `on_load`
and `on_unload`, every callback and every event run with no lock held, which is
where everything overlaps. Correct means: one registration of an id wins,
nothing visible is unloaded, a drain waits for the module's users and for nobody
else, a failed reload leaves the module there, listeners hear what happened.

**Discovery** turns a directory tree into an ordered list of modules, whatever
order the file system lists it in; a batch of classes is registered whole or not
at all.

**Executor, pipeline, steps, middlewares** (`executor.rs`, `pipeline.rs`,
`builtin_steps.rs`, `middleware/manager.rs`). State: the pipeline context of the
call, the list snapshot of each hook phase, the executor's configuration. `call`,
`call_with_trace`, `stream` and `validate` share the steps and differ in recovery
and retry. A call reads the registry once and uses the instance much later; it
awaits application code (ACL conditions, approval handlers, hooks, the module)
that other callers overtake. Correct means: governance holds on every path to the
module, cancellation is never turned into a result, the deadline bounds the
invocation, the approval token goes no further than the gate, the on_error hooks
are those whose before hook ran. The pipeline itself is data that callers and
configuration edit; correct means that no edit weakens a gate unseen.

**Task manager** (`async_task.rs`). State: the task store (shared, with fallible
operations), the maps of handles and execution tokens, a semaphore, an admission
lock, a cancellation lock, the reaper. Operations: submit, the spawned worker,
cancel, shutdown, cleanup, the reaper's control and sweep. Correct means: the
limit holds, a cancelled task is physically over, terminal records are final, the
maps do not grow, everything ends.

**Cancel tokens** (`cancel.rs`). Linked scopes with the executions each one owns.
Correct means: an abort misses no execution, a drain returns when the scope's
executions are gone, and both return.

**Configuration and control plane.** A setting lives in a tree, a typed field or
both, written by file, environment, mounts, `set` and reload, and changed at run
time by the control modules, which persist overrides and tell the world. Correct
means: the last write wins for every reader, what was persisted is what was
answered, over crashes.

**Events, breakers, access rules, observers**: section 5.

The parts meet in narrow interfaces. The task manager calls the executor with a
token of its own; the executor reads the registry (`get`, `get_definition`) and
never acquires or releases; reload, watcher and control plane write the registry;
hooks and modules may call anything. So a task sees a call as an invocation that
ends, times out or is aborted; a call sees the registry as an entry that may
change between any two of its steps (`RegistryChanges`), which is more than
`Registry` allows; observers see a call as hooks that start, end, fail or are
never told. Each model answers for its neighbours with everything their code may
do, and no composed instance is needed for what is checked here.

## 2. The task manager: `AsyncTasks`

Every store operation is a step, every await a point where others move. `submit`
and `worker` are program counters of `submit_with_retry` and of the spawned
future; `opPc` is that of the one holder of `cancellation_lock` in a manager
(cancel, or shutdown's loop); sweeps keep a list of ids still to delete.
`live[t]` holds the attempts of a task whose tracked invocation runs: an attempt
that timed out stays in it after the worker went on. An abort takes effect at the
worker's next await. `Uses` switches the optional parts on: store faults, a caller
that drops the future of cancel or shutdown, shutdown, cleanup, the reaper.

* `tasks_safety`: two tasks, one manager, room for one active task, one permit,
  one retry, with faults, dropped futures, cleanup and reaper. Two tasks are
  enough to contend for the limit, the permit and the lock, and one retry for an
  attempt that outlives its successor's start. Checked: `ActiveWithinLimit`,
  `StopIsPhysical`, `CancelledIsStopped`, `TokenCoversInvocations`,
  `NoStaleHandle`, `TerminalIsFinal`, and `ImplementsLifecycle`, the refinement of
  `TaskLifecycle`. The tasks are interchangeable (`Symmetry`).
* `tasks_liveness`: no faults and no retry, with shutdown: every saved task settles,
  both maps forget it, shutdown returns. Fairness: the runtime polls what is
  ready, so each step of a worker, of a call in progress and of a sweep is weakly
  fair; Tokio's semaphore and mutex are FIFO, so the steps that wait for them are
  strongly fair; an invocation is assumed to end. Callers get no fairness. With
  faults the liveness is not promised: a lost store write leaves its record.

Both set `AnyId = FALSE`: callers name ids that submit returned. A caller that
names an id it read from the store before submit registered the handle gets its
Cancelled overwritten by Running and Completed (`async_task.rs:1062`); TLC shows
it with `AnyId = TRUE`.

## 3. A call: `Calls`

The environment is an adversary within the interfaces: `RegistryChanges`,
`MiddlewaresChange`, `CallerCancels` and `Tick` may happen between any two steps,
and ACL, approval handler, hooks, schemas and module answer anything. `pc` is the
step or await; `stage` tells the stream's fallback, chunks and last phase from the
main run; `ctx` holds the fields of `PipelineContext` that the properties tell
apart; `hook` is the snapshot a hook phase iterates. Inputs are reduced to what
they carry of the approval token, outputs to where they came from. `cancelled`
numbers the token chain of the call, since a retry makes a child of a child.

* `calls`: all four modes, a nested caller and a caller in a cycle, two
  middlewares, deadlines, a cancellation at any point, five registrations (plain,
  gated, disabled, with a timeout beyond the deadline, with a negative one).
  `InvocationGoverned` covers `validate`'s introspection of the module too.
* `calls_liveness`: top-level calls while middlewares come and go. Fairness: the
  runtime, time, and the application code that has no time limit (conditions,
  handlers, hooks, chunks). A module is assumed to return only when there is
  neither a timeout nor a deadline; `EveryCallReturns` therefore rests on the
  timeout and on the repetition limit of the chain guard for retries.
* `calls_stream_cancel`, `calls_retry_middleware` (violations): section 7.

`calls` runs without middleware changes and without a stream source that itself
fails with ExecutionCancelled. The clock moves to `MaxTime` outside an invocation
and to the timer's end inside one; `MaxChunks` bounds a stream.

## 4. One module id: `Registry`

Every map is keyed by the id and no operation modelled here looks at another
entry, so one id is the whole of it. Each caller makes one call, chosen
from the seven kinds; a step is what happens under one acquisition of the core
lock, or one call of a hook. `up` records which instances are loaded. Users
acquire and release; `release` is two steps, since it notifies after the lock.
`Check` may refuse a new instance for any reason (validator, schema shape) and
never one that was accepted before: a reinstated instance skips the validator.

* `registry`: three callers and two users. A registration, a second registration
  and a removal make every conflict of the registration protocol; two users make
  a count above one. `MayOverlap` says which kinds may overlap: registrations
  overlap with each other and with one removal; discovery, reload and the watcher
  run with users, but without other callers. This is a restriction, and what it
  excludes is real: the two runs below, and the hazards of `PROJECT.json` that
  name it. `a` and `c` declare the same version, and they and the two users are
  interchangeable.
* `registry_discovery`, `registry_drain` (violations): section 7.

## 5. Cancel tokens and the services

`cancel`: `CancelTokens` with a root scope and a child, an execution in each, an
aborter and a drainer, one lock or atomic at a time. Fairness: what is ready is
polled, an aborted execution is dropped at its next poll; an execution need not
end by itself. A drop of `abort_owned_executions`'s or `drain`'s future is a step.

`services`: twenty small models, of which one, the `focus` of a behaviour, moves.
`Services` composes nine of them, each with variables of its own, which hold
`Unused` when the service is not there. `MCServices` adds the others; since only
one moves, they share the variables `v1` to `v16`: an instance names the slot each
of its variables is, and the slots beyond its own hold `None` (`Blank7` and the
like). One run thus answers for each service by itself, and each property is the
conjunction of what the modules named in it promise. Deadlock is not checked
there, since the instances end after their bounded calls. `Focuses` chooses a
subset. `Loose = TRUE` lifts the disciplines named below, under which TLC shows the
observations of section 8.

| Property | Focus | Instance and what it shows |
| --- | --- | --- |
| `OneReaper` | reaper | three starts and stops: at most one loop that was not told to stop, reachable through the slot. `Disciplined`: one control call at a time, stop() only on the running reaper's handle |
| `HandlesAligned` | events, middlewares | whenever both locks are free, each subscriber has its handle and the handles keep the subscribers' order; a removal takes the entry it meant. The three lists of the middleware manager are parallel and sorted by priority. `MixesRemovals` (off): removal by id and by handle mixed; `ByHandleAlone` (on): nothing overlaps a remove_handle |
| `DeliveriesTracked` | events | two messages in both emit modes with retries, dead letters, two flushes and a shutdown: no running delivery is unknown to the emitter |
| `BreakersRecover` | both breakers | three overlapping calls, dropped ones included: probes are one recovery apart, an open circuit knows its time |
| `FailsClosed`, `AccessRules` | acl | two rules from a menu of drafts through every door, reloads, markers, an audit sink: an unevaluable condition never opens the gate; legality, markers, findings, audit (`AuditIsWhole`) |
| `ConfigCoherent` | config, schemas | documents, environments and writes over typed and free leaves: the last write wins, readers agree, accepted means valid; four documents with local, relative, module and recursive references: what resolution returns means what the file says (`ResolutionIsTrue`) |
| `ControlIsKept` | control | two calls of update, toggle or bulk reload, a crash anywhere and a restart: of writes that did not overlap the file keeps a latest one (`LatestIsKept`), memory agrees with it (`MemoryIsPersisted`), each answered change is in the trail with the value it replaced and no secret (`TrailIsTrue`), a module out of the registry is in the hands of a reload that will look for it or restore it (`NothingIsLost`) |
| `DiscoveryIsSound` | discovery, watch, notices | disks with links and limits in any order of reading, dependency graphs against a definition of a sound order, a batch racing rivals; two watches, an unwatch, file events, a search; two changes of an id under listeners and readers |
| `CallsAreObserved` | observers, spans, capture | two calls sharing a trace with retries, recoveries and cancellation: spans, counters and maps; two producers on a channel of one or two with flush, shutdown and drop; values and rules against a reference definition of what is hidden |
| `RecordsAreTrue` | errors, usage, health | evictions by two limits with stale heap entries (`Ordered`: the spawned saves run in order); late records and torn reports; three overlapping calls and their alerts |
| `PipelineIsSound` | strategy, engine | two edits, or a section, on any preset, toggles bound: a strategy reported as protected has a gate that bites; every failure point of four-step pipelines with two hooks, and one retry |

The bounds are two or three actors, because each hazard needs one operation and
one or two that come between; capacities and limits of one or two, so that they
are met; documents and disks from lists in `MCSamples` that hold each case of the
code. `MaxEdits`, `MaxRuns`, `MaxStarts`, `MaxReports`, `MaxSchemaLoads`,
`MaxGeneration`, `MaxTime`, `LastTick`, `MaxHistory` and `MaxRecords` bound the
length of a behaviour. `MaxNesting` is the nesting of the deepest condition:
`NestingAssumption` has TLC check that it cuts no evaluation short.

## 6. What is proved

TLC says what holds on the instances above; the theorems hold for every value of
the constants that meets the assumption named.

`AsyncTasksProofs`: the six state properties of `tasks_safety`, `TypeOK` and
`TerminalIsFinal` for any tasks, managers, permits, limits and `Uses`, from
`ConstantsOK`, `FiniteTasks` and `~AnyId`. `LimitHolds` and
`LifecycleImplemented` also assume that one manager has the store to itself: two
admission locks do not exclude each other, and a sweep of one manager may delete a
record while another manager's cancel holds it. None of the properties is
inductive. That Cancelled ends the task needs that cancel drained the token
first, which needs that the token was there, which needs to know how far submit
came and who holds the handle. `IInv` has one part per kind of actor: `SubmitInv`
(what exists for a task, by the progress of submit), `WorkerInv` (a worker that
may still write has an active record and a token), `HandleInv` (a registered
worker is in the map, or the lock's holder is joining it), `OpInv` (what cancel
and shutdown have established at each point) and `SweepInv` (what a sweep has
listed is over and stays over). A worker's last write is safe because a terminal
status is written by the worker itself, or by a cancel whose join came after the
worker's end. The proof goes by action; `LimitInv` adds that an admitted submit
still has room for its record.

`RegistryProofs`, for any callers, users, versions and every `MayOverlap`, the
restriction of the run lifted:

* `TypeCorrect`: `TypeOK`. It is inductive only together with `HasInstance`: a call
  on its way to a registration has an instance to register.
* `RegistrationExclusive`: `OneInFlight`. `StepReserved` says what a step does to the
  reservation: it takes a free one, gives back its own, or leaves it alone; the
  property, read over the four places between reservation and end, is inductive.

The other properties of the run `registry` are in the same module:
`VisibleIsLoaded`, `NoLeakedReference`, `DrainIsTold`, `OneWinner` and
`ReloadKeepsModule`, for any callers, users and versions. They assume `Orderly`,
the order `MCOverlap` gives the run: discovery, reload and the watcher's batch run
alone, and removals one at a time. Without it they are false, as
`registry_discovery` and section 8 show. The invariant `Sound` says in `Places`
what the place of a call tells of its kind, instances and outcome, in `Apart` what
`Orderly` makes of the calls under way, in `Fresh` that an instance under
registration is nowhere else, in `Loaded` that on_load has run on what is visible
or about to be, in `Kept` that a call that runs alone finds the id as it left it,
in `Counted` that holders cover the count, and in `Told` that the waiting drain
owns the slot. The lemmas say first what a step does to the shared entries, then
preserve each part from that.

`CallsProofs`, for any configuration, chains, registrations, middlewares and `Uses`,
and a `None` that is no number, error or value:

* `Governed`, `DeadlineBounds`, `TokenStripped`, `TypeCorrect`: `InvocationGoverned`,
  `BoundedByDeadline`, `TokenIsStripped`, `TypeOK`, with middlewares that change under
  the call, which `calls` leaves out.
* `CancellationIsFinal`: `CancelledNeverRecovered`, unless a stream fails with
  ExecutionCancelled at a chunk, the case `calls_stream_cancel` refutes.
* `OnErrorFollowsBefore`: `OnErrorMatchesBefore` while nobody adds or removes
  middlewares.

None is inductive alone. `Stations` says where a call can be: a dry run visits pure
steps only, and no hook counts as executed before the hooks, so that an error
there reaches the caller and never the on_error loop, where a token could still
be in the inputs. `Governance` says what was checked by each place, `Ordered` that
what counts as executed has run, `Counted` that the chain guard sees every attempt.
The order of the steps is a lemma about `Following` (`LiveSteps`, `DrySteps`).

`CancelTokensProofs`, for any tree of scopes, executions and callers:

* `TypesHold`: the bookkeeping is well typed.
* `NobodySlips`: `AbortReaches`. It is inductive with `AllAsked`: a record of a scope
  under abort has been asked, or the abort has yet to go through the records.
* `DrainWaits`: `DrainIsPhysical`. It is inductive with `Launched` (an execution has no
  task before it is launched, and keeps one after) and `Owed` (whom a drain waits
  for and still runs is in the records the drain looks at).

`Services` names what the proofs below take from its constants: a slot is no
reaper or subscriber, an absent time no instant, priorities and the recovery
window are naturals, a request of the control modules names a key or a module
and carries a value, the parts of a condition are among `Nodes`, a handler answers
with one of the three outcomes, an id has no question mark, what is given as a step
has the fields of one, a section names a step to configure once (they are the keys
of a YAML mapping) and leaves a flag out or sets it, the steps of a pipeline that
runs have names of their own, and no gate, error or ending is the absent value (`ReaperAssumption`,
`EventsAssumption`, `CircuitAssumption`, `WrapperAssumption`, `PriorityAssumption`,
`ControlAssumption`, `AccessAssumption`, `StrategyAssumption`, `PipelineAssumption`). TLC evaluates them in
the run `services`. Sets of callers, keys, messages and modules need not be finite.

`ServicesProofs`, the last two for any rules, documents, trees of conditions, handlers
and requests:

* `AtMostOneReaper`: `OneReaper`, from `Disciplined`. The invariant says that control
  calls exclude each other (`OneControl`), how far a loop is by its start and its
  handle (`LoopsFollow`), where no loop may be untold (`Quiet`), and that an untold
  loop is the one the slot reaches (`TheOne`).
* `CircuitsRecover`: `BreakersRecover`, from no further assumption. Of the module
  breaker (`CircuitInv`): every probe admitted so far is older than the slot's expiry,
  and the slot's time is that of the latest one; the window stays within its bound.
  Of the subscriber breaker (`WrapperInv`): a failure that was counted carries the
  time it read, and no step erases it.
* The lists of the middleware manager (`MiddlewareInv`): the list that a removal has
  not reached yet holds one entry more, at the index the removal remembers; that
  this index stays right is why nobody may enter while a handle leaves.
* `ClosedWhenUnanswered`: `FailsClosed`. One outcome *refines* another if they are equal
  or the other is Unevaluable. Conjunction, disjunction and negation keep
  refinement (`AndRefined`, `OrRefined`, `EvaluateRefined`), so a tree does, whatever its
  nesting (`ConditionsRefined`): take the least level where it would not. That the
  recursive function of the levels exists is shown first, from finite chains of
  levels that agree (`ChainsExist`, `ChainsAgree`, `OutcomesAre`). A rule then refines a
  rule (`RuleRefined`), and a scan grants exactly if what decides allows and no approval
  is owed, by itself or by a rule that stepped aside (`ScanGrants`). With more answers
  the first deciding rule can only come earlier, and then it is an allow rule that
  had stepped aside and owed no approval (`GrantsStay`).
* `AccessStaysLegal`: `AccessRules`. `AccessInv` has the rules come from drafts and documents
  and pass the doors, the markers within the list (a scan skips no rule beyond the one
  that decides, `SkippedAre`), the registries within the condition keys, and a sink
  that has not failed unreported. The findings (`NeverMatchesIsTrue`) follow from the
  assumption on ids.

`EventsProofs`:

* `HandlesStayAligned`: `HandlesAligned`, from `~MixesRemovals` and `ByHandleAlone`,
  without which section 8 refutes it. `EventListInv` has who is on which list by the
  progress of its call (`Members`), the common order (`InOrder`), which survives removals
  by id, and while there were none that a subscriber and its handle have one index, up to
  the entry that is between the two lists (`SameIndex`).
* `DeliveriesStayTracked`: `DeliveriesTracked`, for any messages, modes, retries, flushes
  and shutdowns. A running delivery of an emit that returned is pending, detached or
  in the hands of a flush (`KnownToEmitter`); a flush holds nothing before it took the
  list, and then either the handles or what remains of them (`FlushesFollow`); what a
  patient flush took and still runs it awaits (`OwedIsHeld`).

`ControlPlaneProofs`: `ControlPlaneKeeps`, which is `ControlIsKept` for any calls, keys,
modules, dependencies, legality, strictness and number of starts, with a crash between
any two steps. None of its four parts is inductive, and they need each other. A file
that is right after a restart was written by calls the crash cut off, so `FileInv` (the
value of a cell is that of a call which no later writer of the cell came after) is kept
apart from what memory has. `MemoryInv` says, where the calls on a cell did not overlap,
that memory has the value about to be written, and else the one in the file unless a
call has changed one and not yet the other. Both need `CallsFollow`: where a call can be
by its request, its persistence and the process, and that those before it are over.
`LineageInv` says that the last value of a key's history is the live one, which makes
the value read under the lock the one before the written; `TrailInv` that entries
belong to calls that are done, and secrets are masked before the event. `ReloadInv` says
that a module taken out is claimed by a call which kept its instance. A step of one
call is shown to leave every other call's fields alone (`OnlyMoves`), then each part
is preserved by each action.

`PipelineProofs`: `PipelinesAreSound`, which is `PipelineIsSound`, in two halves.

* The engine, for any pipeline, hooks, options and number of retries (`EngineInv`).
  `OnionInv` keeps, in each phase, how far the way in and the way back through the
  hooks have come: those entered are the first ones, and those told on the way back
  the last ones in reverse, so that the closed onion is the mirror of the opened one.
  `BodiesInv` has the bodies that ran in front of the cursor in their order, an output
  only of one that ran, and a failure only where it was ignored, recovered or
  collected. `TraceInv` has the trace of a first run reach exactly to the cursor, and no
  aborted record before the end, so that the first aborted one is the one that ended
  the run. A `skip_to` moves cursor and trace by one length (`SkippingKeeps`).
* The strategies, for any given steps, lists, wrappers, sections, factories and edits
  (`StrategyInv`): the index of a strategy is that of its steps, and no step is a
  weakened gate, whatever an edit or a wrapper returned. Of a strategy from a section,
  `SectionInv` says that its order meets every requirement and repeats no name
  (`InOrder`), that a gate is missing only where the section removes it (`Gated`), and
  that a configured timeout is in place or its entry still to come. Two facts hold
  only because of the order of the edits: no removal breaks a requirement, because
  removals come first and no removable step of the standard strategy provides what
  another requires (`Expendable`); and no configured timeout is lost to a removal.
  `Expendable` fails once custom steps are in, and is claimed while removals are to come.

The invariant of the trace was first stated for dry runs too and is false there: a dry run
records each error it collects as `abort` and goes on, so the first aborted record need
not be the one that ends it. The code asks for the aborted step of real runs only
(`reject_aborted_trace`), and so does `TraceIsTrue`.
The assumption that names are unique is about pipelines that run: `replace_with` can
produce others (section 8), for which neither the trace nor the outputs, keyed by name,
tell the steps apart.

Only model-checked are `ConfigCoherent`, `DiscoveryIsSound`, `CallsAreObserved` and
`RecordsAreTrue`, and the liveness properties of the tasks, calls and `cancel`. Out of reach of the prover:
liveness and ENABLED, and what a recursive operator computes for every input;
`Discovery`, `SchemaLoading` and `DataCapture` use such operators, and a
module that reaches one cannot hold a proof. `RecordsAreTrue` counts
and filters records with operators that the library defines by recursion and states no
theorem about. `ACLRules` recurses by a function over
the level of nesting instead, about which a least counterexample stands in for
induction. Where the arms of a CASE overlap the first one counts, as TLC evaluates
it; no proof depends on that order.

## 7. Disagreements between the code and its text

| Run | What happens | Source |
| --- | --- | --- |
| `calls_stream_cancel` | a recovery turns a cancelled stream into a success | `executor.rs:1872` |
| `calls_retry_middleware` | the inputs are returned as the result, nothing is retried | `middleware/retry.rs:212` |
| `registry_discovery` | discovery overwrites a registration that won | `registry/registry.rs:2455` |
| `registry_drain` | a late notification ends a later drain as clean | `registry/registry.rs:1949` |
| `scan_links` | a file met first through a link is not discovered | `registry/scanner.rs:144` |

Each is the shortest behaviour TLC finds in the model; `PROJECT.json` quotes the
sentence of the repository it contradicts.

## 8. Observations

What TLC shows when a discipline is lifted, or a predicate that stands beside the
properties under the comment "not checked" is made an invariant. Each is what the
code does; where it sits against the code's own text, the text is quoted.

**Tasks and calls.** A retry reuses the pipeline context: the second attempt
derives a child of the child, keeps the trace, the governance projection and the
approval requirement of the first, though `executor.rs:1206` says "so the next
iteration starts clean". With middlewares that come and go, the indices of the
before phase select others in on_error (`manager.rs:494`). `cancel` of an id read
from the store: section 2.

**Access rules.** `*` in a rule matches `@external` although README.md:358-360 and
`acl.rs:57-59` say that no wildcard reaches it. A synchronous check nested in an
asynchronous one reads the projection of the outer one.

**Events and breakers.** `unsubscribe_by_id` leaves its handle, so that later handles
name their neighbours (`MixesRemovals`). A late success closes an open
subscriber circuit unannounced. A stale `ReaperHandle::stop` clears the slot of a
newer reaper (`Disciplined`).

**Configuration.** The first load in a process with `_config.allow_unknown: false`
drops top-level built-in namespaces (`config.rs:646-664` claims consistency). In
namespace mode the environment's override of an untyped lifted key goes to
`apcore.*`, and `get` of the bare key returns the file's value. reload says "file
content still wins" (about 2250) and replays mounts over it; a reload that returns
Err leaves the invalid configuration in place. `set` truncates u64 to u32.

**Control plane.** Keys written in their qualified form
(`apcore.executor.max_call_depth`) pass by the constraint and restriction checks. A
rollback with no prior value leaves a JSON null. `reload_config` discards runtime
overrides from the live configuration while the file keeps them. An update of
`sys_modules.events.enabled` to false persists, and after a restart the control plane
is gone. With fail_on_error the modules registered before the failing one stay. A
transient read failure in `write_override` drops all other overrides. A toggle's
"before" is read in a separate access.

**Discovery.** A reported cycle may run through an optional edge that a version
mismatch skipped, although `dependencies.rs:104-112` says it "MUST NOT carry a
fabricated cycle_path". Of two files with one id (`a.b.rs`, `a/b.rs`) the first read
wins. A link to a directory met first at the depth limit marks it visited, and a
shallower one is skipped. The rollback of `register_multi_class` unregisters by id,
so a module that another caller registered under it meanwhile goes too.

**Registry.** A discoverer set during two overlapping discoveries can be lost although
`registry.rs:539-541` says that the new one wins (`NewestWins`); explicit roots set
between the look and the write of `set_extension_roots_from_config` are
overwritten (`ExplicitWins`); an abort during a drain leaves the id draining
(`MarksAreTaken`); a batch is dropped when another discovery has the discoverer
(`NothingMissed`); every event, relevant or not, restarts the debounce; a second
`watch` may leave `unwatch` with a stale handle. "unregister" callbacks run after the
removal although `registry.rs:312` says "Fired before a module is removed from the
registry" (`ToldBeforeRemoval`); a failed on_load of a further version reaches no
on_load_failed hook (`HooksHear`) and emits no ephemeral event; notices of two calls
may arrive inverted (`LastHeardIsTrue`), one may arrive after off()
(`SilentAfterOff`); unregister runs on_unload of the visible version alone.

**Pipelines.** An insertion refused for unmet requirements stays
(`InsertionUndone`); replace_with can make two steps share a name (`NamesUnique`)
although the comment at about `pipeline.rs:855` forbids it; a wrapper that hides
`builtin_gate` weakens silently, and the gate is then reported as unwired.
`set_toggle_state` replaces `module_lookup` and drops the fields that
`pipeline.configure` gave it (`LookupKeepsFields`), although `executor.rs` says "a
`pipeline:` section in the loaded config is what runs". A configured step resets
the ignore_errors, pure and timeout of its factory. `skip_to` over the stop step
runs what is behind it (`StopsBefore`) although run_until_step says "UP TO (but not
including) the named step", and records steps outside `only_steps` (`TracesAsked`). On
a retry `reject_aborted_trace` names the step of the earlier run (`AbortIsNamed`). A
failing step of a dry run closes no layer (`DryRunCloses`).

**Observers.** Shutdown loses spans beyond two batches, though `processor.rs:324` says
"Drain any remaining spans" (`ShutdownDrains`); force_flush may say true with a span
queued whose producer has not counted it (`TrueMeansFlushed`). Calls that overlap in one
trace swap spans, and the sampling decision can stay (`DecisionForgotten`),
`tracing_middleware.rs:31-32` names one mutex "to avoid TOCTOU races". A cancelled
call, or one that an inner middleware recovers or retries, leaves its start and span
for a later call to pop (`metrics.rs:647-649`). An `after` that fails behind the
observers makes them pop twice. Saves of the error history that run out of
order leave an older count (`Ordered`), and its heap grows with every repeated error.
A record at the cutoff counts in both periods. The latency alert is never cleared.

**Capture.** Without an input schema `redacted_inputs` is a raw copy, which the logging
middleware writes with no rule applied (`RulesReachLogs`). What is logged at the start is
from before a rewrite (`StartLogsInputs`). An empty list in from_config still
redacts the `_secret_` prefix. An output that is no object is captured as `{}`.

**Schemas.** `seen` holds the bare reference too, so one relative string used in two
documents is called a circle although `RefTarget::seen_key` says that it "does not
collide"; recursion inside an external file leaves a lazy pointer into the wrong
document; a second `load` of an id returns its schema unresolved (`AgainTheSame`);
`yaml_first` takes the module's own schema also where a reference in the file is not
found (`NativeWithoutFile`).

## 9. What is abstracted

Data is reduced to what the properties tell apart: no JSON text, messages or log
wording. Locks held only within one function and never across another lock
are steps. Panics of hooks are not modelled. Time is a counter where the code
compares times, absent elsewhere: a timeout may happen whenever the code waits
with one. Mutants (`...Skipped`, `...Unchecked`, ...) stand beside the definition
they change: they show that a plausible mistake there breaks the property.

Not modelled, and why:

* `bindings.rs`, `decorator.rs`, `module.rs`, `extensions.rs`, `client.rs`:
  construction and wiring with no state beyond it.
* `errors.rs`, `error_formatter.rs`, `trace_context.rs`, `version.rs` of the crate,
  `utils/`: values and their formatting; which error codes a retry and a recovery
  tell apart is in `Calls`.
* Of observability: exporters and their transports, the Prometheus text, the
  normalisation of error messages into fingerprints, percentiles of latencies.
* Of schemas: exporters, the strict and hardened forms, the validator (a verdict
  in `Calls`); which file a reference names, path containment included, is a
  constant of `SchemaLoading`.
* Of discovery: merging of metadata files, the form of a class name.
* Of configuration: finding the file, warnings, `get_typed`.
* The built-in subscribers of events (webhook, A2A, file): calls that fail or not.

## 10. What could come next

1. `Registry` with two concurrent removals and a reload that competes with
   registrations, with the properties the code does keep there, and theorems
   of them.
2. Theorems of further services, moved from `MCServices` into `Services`: the observers
   of calls, spans, error records and alerts.
3. The schema exporters and strict forms as operators against a reference.
