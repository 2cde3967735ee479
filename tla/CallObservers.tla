--------------------------- MODULE CallObservers ---------------------------
(***************************************************************************)
(* What the built-in observers see of a call (src/src/observability/):     *)
(* TracingMiddleware with its stack of open spans and the sampling         *)
(* decision of each trace, and after it in the chain MetricsMiddleware     *)
(* with its stack of start times.  Both find the entry of a call by its    *)
(* trace alone, so calls that share a trace share the stacks.  A step ends *)
(* where a lock is given back.                                             *)
(*                                                                         *)
(* A third middleware, the gate, is registered before the two ("outer") or *)
(* after them ("inner"): it may fail in `after`, and recover the call or   *)
(* ask for a retry in `on_error`.  The executor (see Calls) runs `after`   *)
(* and `on_error` in reverse order, runs `on_error` for every middleware   *)
(* whose `before` ran also when an `after` failed, stops at the first      *)
(* recovery, and passes a cancelled call by.                               *)
(***************************************************************************)
EXTENDS Naturals, Sequences, FiniteSets

CONSTANTS
  Executions,     \* calls of modules
  TraceOf,        \* the trace id of each
  Nestings,       \* for each execution the one that makes it from its body and awaits it, or Nothing
  Strategies,     \* SamplingStrategy
  Gates,          \* "outer", "inner"
  MaxRetries,     \* how often the gate may retry each
  Nothing

VARIABLES
  setup,          \* the strategy, where the gate is and how the calls nest; Nothing before that is settled
  spans,          \* TraceState.spans: the stack of each trace
  sampling,       \* TraceState.sampling: the decision of each trace, or Nothing
  starts,         \* MetricsMiddleware.starts: the executions whose starts are on the stack
  execution,      \* [at, outcome, tries] of each execution
  taken,          \* the span an execution popped and whether that emptied the stack
  exports,        \* of each execution, the span it exported last, with its status
  counted,        \* increment_calls by status
  disturbed       \* of each trace, what happened that the stacks do not follow

vars == <<setup, spans, sampling, starts, execution, taken, exports, counted, disturbed>>

Traces == {TraceOf[e] : e \in Executions}
Spans == [of : Executions, parent : Executions \cup {Nothing}]

TypeOK ==
  /\ spans \in [Traces -> Seq(Spans)]
  /\ sampling \in [Traces -> BOOLEAN \cup {Nothing}]
  /\ starts \in [Traces -> Seq(Executions)]
  /\ counted \in [{"success", "error"} -> Nat]

Init ==
  /\ setup = Nothing
  /\ spans = [t \in Traces |-> <<>>] /\ sampling = [t \in Traces |-> Nothing]
  /\ starts = [t \in Traces |-> <<>>]
  /\ execution = [e \in Executions |-> [at |-> "idle", outcome |-> Nothing, tries |-> 0]]
  /\ taken = [e \in Executions |-> Nothing]
  /\ exports = [e \in Executions |-> Nothing] /\ counted = [s \in {"success", "error"} |-> 0]
  /\ disturbed = [t \in Traces |-> {}]

Configure(strategy, gate, callers) ==
  /\ setup = Nothing /\ setup' = [strategy |-> strategy, gate |-> gate, callers |-> callers]
  /\ UNCHANGED <<spans, sampling, starts, execution, taken, exports, counted, disturbed>>

CallerOf(e) == setup.callers[e]
At(e, place) == setup # Nothing /\ execution[e].at = place
Goto(e, place) == execution' = [execution EXCEPT ![e].at = place]
Active(e) == execution[e].at \notin {"idle", "done"}
Disturb(e, what) == disturbed' = [disturbed EXCEPT ![TraceOf[e]] = @ \cup what]
Top(stack) == IF stack = <<>> THEN Nothing ELSE stack[Len(stack)]
Pop(stack) == IF stack = <<>> THEN stack ELSE SubSeq(stack, 1, Len(stack) - 1)

-----------------------------------------------------------------------------
(* should_sample: the cached decision of the trace or a new one.           *)
Decisions(trace) ==
  IF sampling[trace] # Nothing THEN {sampling[trace]}
  ELSE CASE setup.strategy = "full" -> {TRUE}
         [] setup.strategy = "off" -> {FALSE}
         [] setup.strategy \in {"proportional", "error_first"} -> BOOLEAN

(* before of the tracing middleware: one lock for the decision, one for    *)
(* the stack.                                                              *)
Sample(e) ==
  /\ At(e, "idle") /\ Goto(e, "sampled")
  /\ CallerOf(e) # Nothing => execution[CallerOf(e)].at = "running"
  /\ \E d \in Decisions(TraceOf[e]) : sampling' = [sampling EXCEPT ![TraceOf[e]] = d]
  /\ UNCHANGED <<setup, spans, starts, taken, exports, counted, disturbed>>

Parent(stack) == IF stack = <<>> THEN Nothing ELSE Top(stack).of

Push(e) ==
  LET t == TraceOf[e] IN
  /\ At(e, "sampled") /\ Goto(e, "traced")
  /\ spans' = [spans EXCEPT ![t] = Append(@, [of |-> e, parent |-> Parent(@)])]
  /\ Disturb(e, IF Parent(spans[t]) = CallerOf(e)
                   /\ (\A f \in Executions \ {e, CallerOf(e)} : TraceOf[f] = t => ~Active(f))
                THEN {} ELSE {"overlap"})
  /\ UNCHANGED <<setup, sampling, starts, taken, exports, counted>>

(* before of the metrics middleware; then the gate's, if inner, and the    *)
(* body.                                                                   *)
Start(e) ==
  /\ At(e, "traced") /\ Goto(e, "running")
  /\ starts' = [starts EXCEPT ![TraceOf[e]] = Append(@, e)]
  /\ UNCHANGED <<setup, spans, sampling, taken, exports, counted, disturbed>>

-----------------------------------------------------------------------------
(* The body ends, and an inner gate speaks first: it may fail a call that  *)
(* succeeded, and recover or retry one that failed, so that the observers  *)
(* never hear of its end.  A cancelled call passes every hook by.          *)
Awaits(e) == \E f \in Executions : CallerOf(f) = e /\ Active(f)

Finish(e, outcome) ==
  /\ At(e, "running") /\ ~Awaits(e)
  /\ execution' = [execution EXCEPT ![e].at = "hooks", ![e].outcome = outcome]
  /\ UNCHANGED <<setup, spans, sampling, starts, taken, exports, counted, disturbed>>

Cancel(e) ==
  /\ At(e, "running") /\ ~Awaits(e) /\ Goto(e, "done") /\ Disturb(e, {"cancelled"})
  /\ UNCHANGED <<setup, spans, sampling, starts, taken, exports, counted>>

(* The gate's on_error answers, which ends the round of on_error hooks: a  *)
(* value ends the call, a retry runs the whole chain again.                *)
Answered(e) ==
  \/ execution' = [execution EXCEPT ![e].at = "done"]
  \/ /\ execution[e].tries < MaxRetries[e]
     /\ execution' = [execution EXCEPT ![e].at = "idle", ![e].outcome = Nothing, ![e].tries = @ + 1]

Recover(e) ==
  /\ At(e, "hooks") /\ setup.gate = "inner" /\ execution[e].outcome = "error"
  /\ Answered(e) /\ Disturb(e, {"recovered"})
  /\ UNCHANGED <<setup, spans, sampling, starts, taken, exports, counted>>

-----------------------------------------------------------------------------
(* after and on_error of the metrics middleware: pop_duration_secs, then   *)
(* the counters.                                                           *)
Status(e) == IF execution[e].outcome = "ok" THEN "success" ELSE "error"

(* Mutant: only after pops the start.                                      *)
MeasureLeaksErrors(e) ==
  /\ At(e, "hooks") /\ Goto(e, "measured")
  /\ starts' = IF Status(e) = "success" THEN [starts EXCEPT ![TraceOf[e]] = Pop(@)] ELSE starts
  /\ counted' = [counted EXCEPT ![Status(e)] = @ + 1]
  /\ UNCHANGED <<setup, spans, sampling, taken, exports, disturbed>>

Measure(e) ==
  /\ At(e, "hooks") /\ Goto(e, "measured")
  /\ starts' = [starts EXCEPT ![TraceOf[e]] = Pop(@)]
  /\ counted' = [counted EXCEPT ![Status(e)] = @ + 1]
  /\ UNCHANGED <<setup, spans, sampling, taken, exports, disturbed>>

(* after and on_error of the tracing middleware: the innermost span of the *)
(* trace, whosever it is; the export; the decision forgotten.              *)
PopSpan(e) ==
  LET t == TraceOf[e] IN
  /\ At(e, "measured") /\ Goto(e, "popped")
  /\ spans' = [spans EXCEPT ![t] = Pop(@)]
  /\ taken' = [taken EXCEPT ![e] = [span |-> Top(spans[t]), last |-> Len(spans[t]) = 1]]
  /\ UNCHANGED <<setup, sampling, starts, exports, counted, disturbed>>

Export(e) ==
  LET t == TraceOf[e]
      span == taken[e].span
      Deliver(sampled) ==
        exports' = IF sampled THEN [exports EXCEPT ![e] = [span |-> span, status |-> Status(e)]] ELSE exports
  IN
  /\ At(e, "popped") /\ Goto(e, "exported")
  /\ CASE span = Nothing -> UNCHANGED <<exports, sampling>>
       [] span # Nothing /\ setup.strategy = "error_first" /\ Status(e) = "error" ->
            Deliver(TRUE) /\ UNCHANGED sampling
       [] OTHER ->
            \E d \in Decisions(t) : Deliver(d) /\ sampling' = [sampling EXCEPT ![t] = d]
  /\ UNCHANGED <<setup, spans, starts, taken, counted, disturbed>>

(* The gate, if outer, comes last: its after may fail, which sends the     *)
(* call through the on_error hooks of all; its on_error may recover.       *)
Forget(e) ==
  /\ At(e, "exported")
  /\ sampling' = IF taken[e].last THEN [sampling EXCEPT ![TraceOf[e]] = Nothing] ELSE sampling
  /\ \/ Goto(e, "done") /\ UNCHANGED disturbed
     \/ /\ setup.gate = "outer" /\ Status(e) = "success" /\ Disturb(e, {"after failed"})
        /\ execution' = [execution EXCEPT ![e].at = "hooks", ![e].outcome = "error"]
     \/ setup.gate = "outer" /\ Status(e) = "error" /\ Answered(e) /\ Disturb(e, {"answered"})
  /\ UNCHANGED <<setup, spans, starts, taken, exports, counted>>

Next ==
  \/ \E strategy \in Strategies, gate \in Gates, callers \in Nestings : Configure(strategy, gate, callers)
  \/ \E e \in Executions :
       \/ Sample(e) \/ Push(e) \/ Start(e) \/ (\E outcome \in {"ok", "error"} : Finish(e, outcome))
       \/ Cancel(e) \/ Recover(e) \/ Measure(e) \/ PopSpan(e) \/ Export(e) \/ Forget(e)

Spec == Init /\ [][Next]_vars

-----------------------------------------------------------------------------
Done(e) == execution[e].at = "done"
Undisturbed(t) == disturbed[t] = {}
Quiet(t) == \A e \in Executions : TraceOf[e] = t => ~Active(e)

(* A trace none of whose calls runs leaves no entry in the maps that are   *)
(* keyed by trace ("removed to avoid unbounded growth of the map"), unless *)
(* one of them was cancelled or an inner middleware recovered or retried   *)
(* it; calls may share the stacks however they overlap, only the sampling  *)
(* decision is lost track of.                                              *)
TraceForgotten == \A t \in Traces :
  Quiet(t) /\ disturbed[t] \cap {"cancelled", "recovered"} = {} =>
    /\ spans[t] = <<>> /\ starts[t] = <<>>
    /\ "overlap" \notin disturbed[t] => sampling[t] = Nothing

(* Popping a span, exporting it and forgetting the decision use one mutex  *)
(* "to avoid TOCTOU races during cleanup".                                 *)
DecisionForgotten == \A t \in Traces :
  Quiet(t) /\ disturbed[t] \subseteq {"overlap"} => sampling[t] = Nothing

(* In a trace whose calls are properly nested each call closes the span it *)
(* opened, under the span of its caller, and what a call and its caller    *)
(* export is decided once.                                                 *)
SpansFollowCalls == \A e \in Executions : Undisturbed(TraceOf[e]) /\ taken[e] # Nothing =>
  /\ taken[e].span = [of |-> e, parent |-> CallerOf(e)]
  /\ Done(e) /\ CallerOf(e) # Nothing /\ Done(CallerOf(e)) /\ setup.strategy # "error_first" =>
       (exports[e] = Nothing <=> exports[CallerOf(e)] = Nothing)

(* Every call that ends is counted once, by how it ended, as long as no    *)
(* `after` failed behind the counter and no call was cancelled or          *)
(* recovered before it; an error that error_first sees is exported.        *)
CallsAreCounted ==
  /\ (\A t \in Traces : disturbed[t] \subseteq {"overlap"}) =>
       \A status \in {"success", "error"} :
         counted[status] = Cardinality({e \in Executions : execution[e].at \in {"measured", "popped", "exported", "done"} /\ Status(e) = status})
  /\ setup # Nothing /\ setup.strategy = "error_first" =>
       \A e \in Executions : Done(e) /\ taken[e] # Nothing /\ taken[e].span # Nothing /\ Status(e) = "error" =>
         exports[e] = [span |-> taken[e].span, status |-> "error"]
=============================================================================
