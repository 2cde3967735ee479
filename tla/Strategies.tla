------------------------------ MODULE Strategies ------------------------------
(***************************************************************************)
(* Which steps a call runs: ExecutionStrategy and its edits                *)
(* (src/src/pipeline.rs), the presets (src/src/builtin_steps.rs), the      *)
(* `pipeline:` section of a configuration (src/src/pipeline_config.rs),    *)
(* and the Executor that takes a strategy over, rebinds its lookup step    *)
(* and says what gates it (src/src/executor.rs).                           *)
(***************************************************************************)
EXTENDS Integers, Sequences, SequencesExt

CONSTANTS
  Given,          \* steps a caller may supply
  Lists,          \* step lists a caller may assemble a strategy from
  Wrapped(_),     \* what the wrappers of replace_with may make of a step
  Sections,       \* `pipeline:` sections (see Section below)
  Makes,          \* what the factory of each step type makes of a config
  StepTypes,      \* the step types registered at first
  LongNames,      \* the step names over step_name_max_length
  MaxEdits,       \* bound on the edits of a strategy by its owner
  None

VARIABLES
  strategy,       \* the ExecutionStrategy, None before there is one
  stepTypes,      \* the global step type registry
  holder,          \* "nobody", "config" while a section is applied, "caller", "executor"
  section,        \* the section the strategy comes from, None without one
  plan,           \* the edits of the section still to apply
  fellBack,       \* the section did not build: the standard strategy runs
  rebound,        \* set_toggle_state replaced module_lookup
  edits

vars == <<strategy, stepTypes, holder, section, plan, fellBack, rebound, edits>>

(* A section: the steps to remove, the fields to configure (by step, in    *)
(* the order of their names), the steps to insert, and the limit on        *)
(* timeouts (None without one).  The keys of an entry are "known" or       *)
(* "unknown", an insertion is "after", "before" or "nowhere".              *)

-----------------------------------------------------------------------------
(* Steps: what the Step trait says of one.                                 *)

IsStep(step) ==
  /\ DOMAIN step = {"name", "gate", "removable", "replaceable", "pure", "requires", "provides",
                    "matches", "ignores", "timeout"}
  /\ step.gate \in {None, "acl", "approval"}
  /\ {step.removable, step.replaceable, step.pure, step.ignores} \subseteq BOOLEAN

Builtin(name, gate, removable, replaceable, pure, requires, provides) ==
  [name |-> name, gate |-> gate, removable |-> removable, replaceable |-> replaceable,
   pure |-> pure, requires |-> requires, provides |-> provides,
   matches |-> None, ignores |-> FALSE, timeout |-> 0]

ModuleLookupStep == Builtin("module_lookup", None, FALSE, FALSE, TRUE, {}, {"module"})

StandardSteps == <<
  Builtin("context_creation", None, FALSE, FALSE, TRUE, {}, {"context"}),
  Builtin("call_chain_guard", None, TRUE, TRUE, TRUE, {"context"}, {}),
  ModuleLookupStep,
  Builtin("acl_check", "acl", TRUE, TRUE, TRUE, {"context", "module"}, {}),
  Builtin("approval_gate", "approval", TRUE, TRUE, FALSE, {"context", "module"}, {}),
  Builtin("middleware_before", None, TRUE, FALSE, FALSE, {}, {}),
  Builtin("input_validation", None, TRUE, TRUE, TRUE, {"module"}, {"validated_inputs"}),
  Builtin("execute", None, FALSE, TRUE, FALSE, {"module"}, {"output"}),
  Builtin("output_validation", None, TRUE, TRUE, TRUE, {"module", "output"}, {"validated_output"}),
  Builtin("middleware_after", None, TRUE, FALSE, FALSE, {}, {}),
  Builtin("return_result", None, FALSE, FALSE, TRUE, {"output"}, {}) >>

(* reject_weakened_gate: a built-in gate that would no longer gate.        *)
Weakened(step) ==
  /\ step.gate # None
  /\ step.ignores \/ step.matches # None \/ (step.gate = "approval" /\ step.pure)

(* The gate with its three weakening fields forced back.                   *)
Neutralised(step) == [step EXCEPT !.ignores = FALSE, !.matches = None, !.pure = (step.gate = "acl")]

(* ConfiguredStep: the four configurable fields, where f gives them.       *)
Overlaid(step, f) ==
  [step EXCEPT !.matches = IF f.matches # None THEN f.matches ELSE @,
               !.ignores = IF f.ignores # None THEN f.ignores ELSE @,
               !.pure    = IF f.pure # None THEN f.pure ELSE @,
               !.timeout = IF f.timeout # None THEN f.timeout ELSE @]

-----------------------------------------------------------------------------
(* Strategies, and edits as functions: what became of the strategy, and    *)
(* the error told to the caller.                                           *)

Names(steps)   == {steps[i].name : i \in DOMAIN steps}

Repeats(steps) == \E i, j \in DOMAIN steps : i # j /\ steps[i].name = steps[j].name

(* rebuild_index: the last position of each name.                          *)
IndexOf(steps) ==
  [n \in Names(steps) |-> CHOOSE i \in DOMAIN steps :
     steps[i].name = n /\ \A j \in DOMAIN steps : steps[j].name = n => j <= i]

WithSteps(st, steps) == [st EXCEPT !.steps = steps, !.index = IndexOf(steps)]
Holds(st, name)      == name \in DOMAIN st.index

(* validate_dependencies: a requirement that no step before provides.      *)
Unmet(steps) ==
  \E i \in DOMAIN steps : ~(steps[i].requires \subseteq UNION {steps[j].provides : j \in 1..(i - 1)})

Done(st)      == [strategy |-> st, error |-> None]
Refused(st, e) == [strategy |-> st, error |-> e]

(* ExecutionStrategy::new.                                                 *)
Assembled(name, steps) ==
  IF \E i \in DOMAIN steps : Weakened(steps[i]) THEN Refused(None, "weakened_gate")
  ELSE IF Repeats(steps) THEN Refused(None, "duplicate")
  ELSE IF Unmet(steps) THEN Refused(None, "dependency")
  ELSE Done([name |-> name, steps |-> steps, index |-> IndexOf(steps)])

(* insert_after and insert_before.  The dependencies are looked at when    *)
(* the step is in place, and it stays in place when they are not met.      *)
Inserted(st, at, anchor, step) ==
  IF Weakened(step) THEN Refused(st, "weakened_gate")
  ELSE IF Holds(st, step.name) THEN Refused(st, "duplicate")
  ELSE IF ~Holds(st, anchor) THEN Refused(st, "no_such_step")
  ELSE LET place == st.index[anchor] + (IF at = "after" THEN 1 ELSE 0)
           next  == WithSteps(st, InsertAt(st.steps, place, step))
       IN [strategy |-> next, error |-> IF Unmet(next.steps) THEN "dependency" ELSE None]

(* remove; what later steps require is not looked at again.                *)
Removed(st, name) ==
  IF ~Holds(st, name) THEN Refused(st, "no_such_step")
  ELSE IF ~st.steps[st.index[name]].removable THEN Refused(st, "not_removable")
  ELSE Done(WithSteps(st, RemoveAt(st.steps, st.index[name])))

(* replace and configure_step.                                             *)
Replaced(st, name, step) ==
  IF ~Holds(st, name) THEN Refused(st, "no_such_step")
  ELSE IF ~st.steps[st.index[name]].replaceable THEN Refused(st, "not_replaceable")
  ELSE IF step.name # name /\ Holds(st, step.name) THEN Refused(st, "duplicate")
  ELSE IF Weakened(step) THEN Refused(st, "weakened_gate")
  ELSE Done(WithSteps(st, [st.steps EXCEPT ![st.index[name]] = step]))

(* Mutant: the step a refused wrapper returned stays as it is.             *)
WrappedInLeavesWeak(st, name, step) ==
  IF ~Holds(st, name) THEN Refused(st, "no_such_step")
  ELSE [strategy |-> WithSteps(st, [st.steps EXCEPT ![st.index[name]] = step]),
        error |-> IF Weakened(step) THEN "weakened_gate" ELSE None]

(* replace_with: the wrapper consumed the step, so a weakened gate it      *)
(* returns is neutralised.  No flag and no name is looked at.              *)
WrappedIn(st, name, step) ==
  IF ~Holds(st, name) THEN Refused(st, "no_such_step")
  ELSE [strategy |-> WithSteps(st, [st.steps EXCEPT ![st.index[name]] =
                                      IF Weakened(step) THEN Neutralised(step) ELSE step]),
        error |-> IF Weakened(step) THEN "weakened_gate" ELSE None]

Standard == Assembled("standard", StandardSteps).strategy

(* The presets: the standard strategy under another name, less some steps. *)
Called(name)      == [Standard EXCEPT !.name = name]
Without(st, name) == Removed(st, name).strategy
Ungated(st)       == Without(Without(st, "acl_check"), "approval_gate")

PresetStrategies ==
  [standard    |-> Standard,
   internal    |-> Ungated(Called("internal")),
   testing     |-> Without(Ungated(Called("testing")), "call_chain_guard"),
   performance |-> Without(Without(Called("performance"), "middleware_before"), "middleware_after"),
   minimal     |-> LET bare == Without(Ungated(Without(Called("minimal"), "call_chain_guard")), "middleware_before")
                   IN Without(Without(Without(bare, "input_validation"), "output_validation"), "middleware_after")]

Presets == DOMAIN PresetStrategies

-----------------------------------------------------------------------------
Init ==
  /\ strategy = None /\ stepTypes = StepTypes /\ holder = "nobody" /\ section = None
  /\ plan = <<>> /\ fellBack = FALSE /\ rebound = FALSE /\ edits = 0

(* ExecutionStrategy::new by a caller, a preset by its name or built for   *)
(* the caller to edit.                                                     *)
Assemble ==
  /\ holder = "nobody"
  /\ \E steps \in Lists :
       /\ Assembled("custom", steps).error = None
       /\ strategy' = Assembled("custom", steps).strategy
  /\ holder' = "caller"
  /\ UNCHANGED <<stepTypes, section, plan, fellBack, rebound, edits>>

UsePreset ==
  /\ holder = "nobody"
  /\ \E p \in Presets : strategy' = PresetStrategies[p]
  /\ holder' \in {"caller", "executor"}
  /\ UNCHANGED <<stepTypes, section, plan, fellBack, rebound, edits>>

(* validate_pipeline_limits.  Names of steps to remove are not looked at.  *)
WithinLimits(s) ==
  s.limit # None =>
    /\ \A i \in DOMAIN s.configure : s.configure[i].timeout \in (0..s.limit) \cup {None}
    /\ \A i \in DOMAIN s.insert :
         s.insert[i].timeout \in (0..s.limit) \cup {None} /\ s.insert[i].name \notin LongNames

(* The edits a section asks for, in the order they are made.               *)
Plan(s) ==
  [i \in DOMAIN s.remove    |-> [do |-> "remove", entry |-> s.remove[i]]] \o
  [i \in DOMAIN s.configure |-> [do |-> "configure", entry |-> s.configure[i]]] \o
  [i \in DOMAIN s.insert    |-> [do |-> "insert", entry |-> s.insert[i]]]

(* The section did not build: what it did is dropped, the standard         *)
(* strategy runs.                                                          *)
FallBack ==
  /\ strategy' = Standard /\ plan' = <<>> /\ fellBack' = TRUE /\ holder' = "executor"

(* Executor::new: strategy_from_config, from the standard strategy.        *)
ReadSection ==
  /\ holder = "nobody"
  /\ \E s \in Sections :
       /\ section' = s
       /\ IF WithinLimits(s)
          THEN strategy' = Standard /\ plan' = Plan(s) /\ holder' = "config" /\ UNCHANGED fellBack
          ELSE FallBack
  /\ UNCHANGED <<stepTypes, rebound, edits>>

(* reject_gate_weakening_keys, on what the section says, defaults aside.   *)
WeakeningKeys(gate, f) ==
  /\ gate # None
  /\ f.ignores = TRUE \/ f.matches # None \/ (gate = "approval" /\ f.pure = TRUE)

(* One entry of `configure`.                                               *)
Configured(st, f) ==
  LET step == st.steps[st.index[f.step]] IN
  IF "unknown" \in f.keys \/ ~Holds(st, f.step) \/ WeakeningKeys(step.gate, f)
  THEN Refused(st, "configuration")
  ELSE WrappedIn(st, f.step, Overlaid(step, f))

(* resolve_step: the factory's step under the name and the fields of the   *)
(* entry; a field the entry leaves out takes its default, not the step's.  *)
Resolved(e) ==
  [Overlaid(Makes[e.type], e) EXCEPT
     !.name    = IF e.name = None THEN @ ELSE e.name,
     !.ignores = (e.ignores = TRUE), !.pure = (e.pure = TRUE),
     !.timeout = IF e.timeout = None THEN 0 ELSE e.timeout]

(* One entry of `steps`.                                                   *)
Added(st, e) ==
  IF "unknown" \in e.keys \/ e.handler \/ e.type \notin stepTypes \/ e.at = "nowhere"
  THEN Refused(st, "configuration")
  ELSE Inserted(st, e.at, e.anchor, Resolved(e))

(* The next edit of the section; the first error ends it.                  *)
Outcome(st, edit) ==
  IF edit.do = "remove" THEN Removed(st, edit.entry)
  ELSE IF edit.do = "configure" THEN Configured(st, edit.entry)
  ELSE Added(st, edit.entry)

ApplySection ==
  /\ holder = "config"
  /\ IF plan = <<>> THEN holder' = "executor" /\ UNCHANGED <<strategy, plan, fellBack>>
     ELSE LET outcome == Outcome(strategy, Head(plan)) IN
          IF outcome.error # None THEN FallBack
          ELSE strategy' = outcome.strategy /\ plan' = Tail(plan) /\ UNCHANGED <<holder, fellBack>>
  /\ UNCHANGED <<stepTypes, section, rebound, edits>>

(* The edits of a caller; an error is told, and what it left is kept.      *)
Edit ==
  /\ holder = "caller" /\ edits < MaxEdits /\ edits' = edits + 1
  /\ \E name \in Names(strategy.steps) \cup {"nowhere"} :
       \/ strategy' = Removed(strategy, name).strategy
       \/ \E step \in Given :
            \/ \E at \in {"after", "before"} :
                 strategy' = Inserted(strategy, at, name, step).strategy
            \/ strategy' = Replaced(strategy, name, step).strategy
       \/ /\ Holds(strategy, name)
          /\ \E step \in Wrapped(strategy.steps[strategy.index[name]]) :
               IsStep(step) /\ strategy' = WrappedIn(strategy, name, step).strategy
  /\ UNCHANGED <<stepTypes, holder, section, plan, fellBack, rebound>>

(* Executor::with_strategy.                                                *)
HandOver ==
  /\ holder = "caller" /\ holder' = "executor"
  /\ UNCHANGED <<strategy, stepTypes, section, plan, fellBack, rebound, edits>>

(* Executor::set_toggle_state, which an APCore calls on its executor: the  *)
(* lookup step of a strategy with a preset's name is replaced by a new one.*)
SetToggleState ==
  /\ holder = "executor" /\ ~rebound
  /\ strategy.name \in Presets
  /\ strategy' = WrappedIn(strategy, "module_lookup", ModuleLookupStep).strategy
  /\ rebound' = Holds(strategy, "module_lookup")
  /\ UNCHANGED <<stepTypes, holder, section, plan, fellBack, edits>>

(* register_step_type and unregister_step_type by other threads: a section *)
(* looks at the types anew for each step it inserts.                       *)
RegisterStepType ==
  /\ holder = "config"
  /\ \E t \in DOMAIN Makes \ stepTypes : stepTypes' = stepTypes \cup {t}
  /\ UNCHANGED <<strategy, holder, section, plan, fellBack, rebound, edits>>

UnregisterStepType ==
  /\ holder = "config"
  /\ \E t \in stepTypes : stepTypes' = stepTypes \ {t}
  /\ UNCHANGED <<strategy, holder, section, plan, fellBack, rebound, edits>>

Next ==
  \/ Assemble \/ UsePreset \/ ReadSection \/ ApplySection \/ Edit \/ HandOver \/ SetToggleState
  \/ RegisterStepType \/ UnregisterStepType

-----------------------------------------------------------------------------
(* governance_state(), for an executor with or without an ACL, a handler   *)
(* and a strict policy, and control modules that all ask for an approval   *)
(* or not.                                                                 *)

Wired(gate) == \E i \in DOMAIN strategy.steps : strategy.steps[i].gate = gate

Unprotected(acl, handler, strict, allGated) ==
  /\ ~(acl /\ Wired("acl"))
  /\ ~(Wired("approval") /\ allGated /\ (handler \/ strict))

-----------------------------------------------------------------------------
(* The step finds every call and its refusal ends the call.                *)
Bites(step) ==
  step.matches = None /\ ~step.ignores /\ (step.gate = "approval" => ~step.pure)

(* When governance_state() says that a control surface is protected, a     *)
(* gate that bites stands behind it: no sequence of edits, refused or not, *)
(* leaves a weakened gate that still counts as wired (D-130).              *)
ProtectionIsReal ==
  holder = "executor" =>
    \A acl, handler, strict, allGated \in BOOLEAN :
      ~Unprotected(acl, handler, strict, allGated) =>
        \E i \in DOMAIN strategy.steps :
          /\ Bites(strategy.steps[i])
          /\ \/ acl /\ strategy.steps[i].gate = "acl"
             \/ allGated /\ (handler \/ strict) /\ strategy.steps[i].gate = "approval"

(* A strategy that comes from a section lacks a gate only where the        *)
(* section removes it by name, meets every requirement in its order, holds *)
(* each name once, and has the timeouts the section configured, except on  *)
(* the lookup step once the toggles were bound.                            *)
SectionIsApplied ==
  holder = "executor" /\ section # None =>
    /\ \A i \in DOMAIN StandardSteps :
         StandardSteps[i].gate # None /\ ~Wired(StandardSteps[i].gate) =>
           ~fellBack /\ StandardSteps[i].name \in Range(section.remove)
    /\ ~Unmet(strategy.steps) /\ ~Repeats(strategy.steps)
    /\ ~fellBack =>
         \A i \in DOMAIN section.configure :
           LET f    == section.configure[i]
               step == strategy.steps[strategy.index[f.step]] IN
           (f.timeout # None /\ ~(rebound /\ f.step = "module_lookup")) => step.timeout = f.timeout

StrategyIsSound == ProtectionIsReal /\ SectionIsApplied

(* Observations, not checked: an insertion refused for its requirements    *)
(* stays in the strategy, two steps may come to share a name, and binding  *)
(* the toggles drops what the section configured on the lookup step.       *)
InsertionUndone == holder = "executor" => ~Unmet(strategy.steps)
NamesUnique     == strategy # None => ~Repeats(strategy.steps)
LookupKeepsFields ==
  holder = "executor" /\ section # None /\ ~fellBack =>
    \A i \in DOMAIN section.configure :
      section.configure[i].step = "module_lookup" /\ section.configure[i].timeout # None =>
        strategy.steps[strategy.index["module_lookup"]].timeout = section.configure[i].timeout
=============================================================================
