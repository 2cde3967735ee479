----------------------------- MODULE StepEngine -----------------------------
(***************************************************************************)
(* PipelineEngine::run_with_options (src/src/pipeline.rs) over the steps   *)
(* of any strategy, with its step middlewares: one action for each hook    *)
(* and each step body, all of which are awaited.                           *)
(***************************************************************************)
EXTENDS Integers, Sequences, SequencesExt

CONSTANTS
  Pipelines,    \* sequences of steps (see below)
  Hooks,        \* the step middlewares, in registration order
  Options,      \* [stop, only, until, dry]: step names, None when not given
  MaxRuns,      \* bound on the retries over one PipelineContext
  None

VARIABLES
  steps, options,
  cursor,       \* idx
  phase,        \* what the loop does next at that step
  hookIndex,    \* the hook it tells next
  hookLog,      \* the hooks told of each event at this step, in order
  bodyEnd,      \* what the body returned, "recovered", or None
  pastOutputs,  \* the keys of step_outputs
  lostCapabilities,
  resolved,     \* ctx.module is set
  traced,       \* ctx.trace.steps
  ending,       \* None while the engine runs
  bodies,       \* the indices whose body ran
  runs

vars == <<steps, options, cursor, phase, hookIndex, hookLog, bodyEnd, pastOutputs,
          lostCapabilities, resolved, traced, ending, bodies, runs>>

(* A step is a record of what it declares (pure, matched, ignores) and of  *)
(* what its body may do: a set of "continue", "abort", "skip_to", "other", *)
(* "fail" and "timeout", the engine's answer for a body that outlives its  *)
(* timeout_ms.                                                             *)

Step      == steps[cursor]
Depth     == Len(Hooks)
Succeeds  == {"continue", "abort", "skip_to", "other"}
NoHook    == [before |-> <<>>, error |-> <<>>, after |-> <<>>]

Record(step, action, reason) == [name |-> step.name, action |-> action, reason |-> reason]

Init ==
  /\ steps \in Pipelines /\ options \in Options
  /\ cursor = 1 /\ phase = "select" /\ hookIndex = 0 /\ hookLog = NoHook /\ bodyEnd = None
  /\ pastOutputs = {} /\ lostCapabilities = {} /\ resolved = FALSE
  /\ traced = <<>> /\ ending = None /\ bodies = <<>> /\ runs = 1

(* The loop goes on behind the step with one more record, or ends.         *)
Pass(record) ==
  /\ traced' = Append(traced, record) /\ cursor' = cursor + 1
  /\ phase' = "select" /\ UNCHANGED ending

End(how) == ending' = how /\ phase' = "done" /\ UNCHANGED cursor

Abort(how) == traced' = Append(traced, Record(Step, "abort", None)) /\ End(how)

-----------------------------------------------------------------------------
(* In a dry run: the module was not found, or a step that failed or was    *)
(* skipped for the same reason would have provided what this one requires. *)
MissesDependency ==
  /\ options.dry
  /\ (~resolved /\ "module" \in Step.requires) \/ Step.requires \cap lostCapabilities # {}

(* The run options: the step to stop at, the steps to run, the step whose  *)
(* completion is enough.                                                   *)
StopsHere == options.stop # None /\ Step.name = options.stop
Outside   == options.only # None /\ Step.name \notin options.only
IsEnough  == options.until = Step.name

(* The filters in front of a step, in their order.                         *)
Select ==
  /\ phase = "select"
  /\ IF cursor > Len(steps) \/ StopsHere
     THEN End("ok") /\ UNCHANGED <<traced, lostCapabilities, hookIndex, hookLog>>
     ELSE IF Outside
     THEN cursor' = cursor + 1 /\ UNCHANGED <<phase, ending, traced, lostCapabilities, hookIndex, hookLog>>
     ELSE IF MissesDependency
     THEN /\ Pass(Record(Step, "skipped", "missing_dependency"))
          /\ lostCapabilities' = lostCapabilities \cup Step.provides
          /\ UNCHANGED <<hookIndex, hookLog>>
     ELSE IF ~Step.matched
     THEN Pass(Record(Step, "skipped", "no_match")) /\ UNCHANGED <<lostCapabilities, hookIndex, hookLog>>
     ELSE IF options.dry /\ ~Step.pure
     THEN Pass(Record(Step, "skipped", "dry_run")) /\ UNCHANGED <<lostCapabilities, hookIndex, hookLog>>
     ELSE /\ phase' = "before" /\ hookIndex' = 1 /\ hookLog' = NoHook
          /\ UNCHANGED <<cursor, ending, traced, lostCapabilities>>
  /\ bodyEnd' = None
  /\ UNCHANGED <<steps, options, pastOutputs, resolved, bodies, runs>>

(* A hook is told an event at the step.                                    *)
Tell(event) == hookLog' = [hookLog EXCEPT ![event] = Append(@, Hooks[hookIndex])]

(* before_step, in registration order.  An error unwinds the hooks that    *)
(* were entered, the failing one first.                                    *)
BeforeStep ==
  /\ phase = "before" /\ hookIndex <= Depth
  /\ Tell("before")
  /\ \/ hookIndex' = hookIndex + 1 /\ UNCHANGED phase
     \/ phase' = "unwinding" /\ UNCHANGED hookIndex
  /\ UNCHANGED <<steps, options, cursor, bodyEnd, pastOutputs, lostCapabilities, resolved, traced, ending, bodies, runs>>

(* on_step_error after a failed before_step, whatever the hooks answer.    *)
Unwind ==
  /\ phase = "unwinding" /\ hookIndex > 0
  /\ Tell("error") /\ hookIndex' = hookIndex - 1
  /\ UNCHANGED <<steps, options, cursor, phase, bodyEnd, pastOutputs, lostCapabilities, resolved, traced, ending, bodies, runs>>

Unwound ==
  /\ phase = "unwinding" /\ hookIndex = 0
  /\ Abort("chain_error")
  /\ UNCHANGED <<steps, options, hookIndex, hookLog, bodyEnd, pastOutputs, lostCapabilities, resolved, bodies, runs>>

(* execute, within its timeout.  A dry run collects the error and goes on. *)
Execute ==
  /\ phase = "before" /\ hookIndex > Depth
  /\ bodies' = Append(bodies, cursor)
  /\ \E does \in Step.does :
       IF does \in Succeeds
       THEN /\ bodyEnd' = does /\ phase' = "after" /\ hookIndex' = Depth
            /\ resolved' = (resolved \/ "module" \in Step.provides)
            /\ UNCHANGED <<cursor, traced, ending, lostCapabilities>>
       ELSE /\ UNCHANGED <<bodyEnd, resolved>>
            /\ IF options.dry
               THEN /\ Pass(Record(Step, "abort", None)) /\ UNCHANGED hookIndex
                    /\ lostCapabilities' = lostCapabilities \cup Step.provides
               ELSE /\ phase' = "failing" /\ hookIndex' = Depth
                    /\ UNCHANGED <<cursor, traced, ending, lostCapabilities>>
  /\ UNCHANGED <<steps, options, hookLog, pastOutputs, runs>>

(* on_step_error: the first recovery value wins, an error of a hook ends   *)
(* the run.                                                                *)
OnStepError ==
  /\ phase = "failing" /\ hookIndex > 0
  /\ Tell("error")
  /\ \/ hookIndex' = hookIndex - 1 /\ UNCHANGED <<phase, bodyEnd, cursor, traced, ending>>
     \/ /\ bodyEnd' = "recovered" /\ phase' = "after" /\ hookIndex' = Depth
        /\ UNCHANGED <<cursor, traced, ending>>
     \/ Abort("step_error") /\ UNCHANGED <<bodyEnd, hookIndex>>
  /\ UNCHANGED <<steps, options, pastOutputs, lostCapabilities, resolved, bodies, runs>>

(* No hook recovered: the error is ignored, or ends the run.               *)
Unrecovered ==
  /\ phase = "failing" /\ hookIndex = 0
  /\ IF Step.ignores THEN Pass(Record(Step, "continue", "error_ignored")) ELSE Abort("step_error")
  /\ UNCHANGED <<steps, options, hookIndex, hookLog, bodyEnd, pastOutputs, lostCapabilities, resolved, bodies, runs>>

(* run_after_step_hooks, last registered first; the first error ends both  *)
(* the hooks and the run.                                                  *)
AfterStep ==
  /\ phase = "after" /\ hookIndex > 0
  /\ Tell("after")
  /\ \/ hookIndex' = hookIndex - 1 /\ UNCHANGED <<phase, cursor, traced, ending>>
     \/ Abort("step_error") /\ UNCHANGED hookIndex
  /\ UNCHANGED <<steps, options, bodyEnd, pastOutputs, lostCapabilities, resolved, bodies, runs>>

(* The positions of the target behind the step; name_to_idx has the last.  *)
Targets == {i \in (cursor + 1)..Len(steps) : steps[i].name = Step.target}

(* The skipped steps are recorded, those outside `only` included.          *)
SkipTo ==
  IF Targets = {} THEN End("no_target") /\ traced' = Append(traced, Record(Step, "skip_to", None))
  ELSE LET target == CHOOSE i \in Targets : \A j \in Targets : j <= i IN
       /\ traced' = Append(traced, Record(Step, "skip_to", None)) \o
                    [i \in 1..(target - cursor - 1) |-> Record(steps[cursor + i], "skipped", None)]
       /\ cursor' = target /\ phase' = "select" /\ UNCHANGED ending

(* The onion is closed: the record, the output, and what the step asked.   *)
Complete ==
  /\ phase = "after" /\ hookIndex = 0
  /\ pastOutputs' = pastOutputs \cup {Step.name}
  /\ IF bodyEnd = "recovered" THEN Pass(Record(Step, "continue", "error_recovered"))
     ELSE IF bodyEnd = "continue" /\ IsEnough
     THEN End("ok") /\ traced' = Append(traced, Record(Step, "continue", None))
     ELSE IF bodyEnd = "continue" THEN Pass(Record(Step, "continue", None))
     ELSE IF bodyEnd = "abort" THEN Abort("aborted")
     ELSE IF bodyEnd = "skip_to" THEN SkipTo
     ELSE End("unknown_action") /\ traced' = Append(traced, Record(Step, "other", None))
  /\ UNCHANGED <<steps, options, hookIndex, hookLog, bodyEnd, lostCapabilities, resolved, bodies, runs>>

(* The executor runs the pipeline again after a retry signal: it resets    *)
(* the module and the outputs of the context, the trace it leaves.         *)
Retry ==
  /\ phase = "done" /\ ending \in {"step_error", "chain_error"} /\ ~options.dry /\ runs < MaxRuns
  /\ runs' = runs + 1 /\ cursor' = 1 /\ phase' = "select" /\ hookLog' = NoHook /\ bodyEnd' = None
  /\ pastOutputs' = {} /\ lostCapabilities' = {} /\ resolved' = FALSE /\ ending' = None /\ bodies' = <<>>
  /\ UNCHANGED <<steps, options, hookIndex, traced>>

Next ==
  \/ Select \/ BeforeStep \/ Unwind \/ Unwound \/ Execute \/ OnStepError \/ Unrecovered
  \/ AfterStep \/ Complete \/ Retry

-----------------------------------------------------------------------------
(* The step that reject_aborted_trace names: the first aborted one.        *)
AbortedStep ==
  traced[CHOOSE i \in DOMAIN traced :
           traced[i].action = "abort" /\ \A j \in 1..(i - 1) : traced[j].action # "abort"].name

(* Every layer that was opened is closed, from the inside out, and none    *)
(* that was not, at any time: after a body that succeeded or was recovered *)
(* each hook hears after_step once; when before_step fails, exactly the    *)
(* hooks that were entered hear of it; an error nobody recovered was told  *)
(* to all.                                                                 *)
OnionCloses ==
  /\ Range(hookLog.after) \cup Range(hookLog.error) \subseteq Range(hookLog.before)
  /\ phase = "after" /\ hookIndex = 0 => hookLog.before = Hooks /\ hookLog.after = Reverse(Hooks)
  /\ phase = "unwinding" /\ hookIndex = 0 =>
       hookLog.error = Reverse(hookLog.before) /\ hookLog.after = <<>>
  /\ phase = "failing" /\ hookIndex = 0 => hookLog.error = Reverse(Hooks) /\ hookLog.after = <<>>

(* A hook sees the outputs of the steps before this one only, each of      *)
(* which has a body that ran.                                              *)
OutputsArePast ==
  /\ phase \in {"before", "after", "failing", "unwinding"} => Step.name \notin pastOutputs
  /\ pastOutputs \subseteq {steps[i].name : i \in Range(bodies)}

(* No body runs twice or out of order in a run; a dry run runs pure ones   *)
(* only; a run that ends well passed over no failure unless it was         *)
(* ignored, recovered or collected by a dry run.                           *)
RunsAreOrdered ==
  /\ \A i, j \in DOMAIN bodies : i < j => bodies[i] < bodies[j]
  /\ options.dry => \A i \in Range(bodies) : steps[i].pure
  /\ ending = "ok" => \A i \in Range(bodies) :
       options.dry \/ steps[i].name \in pastOutputs \/ steps[i].ignores

(* A first run that ends traces every step in front of its end once and in *)
(* order, whatever was skipped; a first run that aborts is reported under  *)
(* the step that aborted (a dry run, which is not reported, also records   *)
(* as aborted the steps whose errors it collected).                        *)
TraceIsTrue ==
  runs = 1 =>
    /\ ending # None /\ options.only = None =>
         LET through == IF cursor <= Len(steps) /\ ~StopsHere THEN cursor ELSE cursor - 1
         IN Len(traced) = through /\ \A i \in 1..through : traced[i].name = steps[i].name
    /\ ending = "aborted" /\ ~options.dry => AbortedStep = Step.name

StepsAreSound == OnionCloses /\ OutputsArePast /\ RunsAreOrdered /\ TraceIsTrue

(* Observations, not checked: skip_to jumps over the step to stop before,  *)
(* it records steps outside `only`, a retried run is reported under the    *)
(* step that failed before it, and a dry run leaves layers open.           *)
StopsBefore    == \A i \in Range(bodies) : \A j \in 1..i : steps[j].name # options.stop
TracesAsked    == options.only # None => \A i \in DOMAIN traced : traced[i].name \in options.only
AbortIsNamed   == ending = "aborted" => AbortedStep = Step.name
DryRunCloses   == phase = "select" /\ options.dry => Len(hookLog.before) <= Len(hookLog.after) + Len(hookLog.error)
=============================================================================
