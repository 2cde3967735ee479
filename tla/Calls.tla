------------------------------- MODULE Calls --------------------------------
(***************************************************************************)
(* One call of a module through the Executor: call(), call_with_trace(),   *)
(* stream() and validate() (src/src/executor.rs) driving the standard      *)
(* strategy of built-in steps (src/src/builtin_steps.rs) on the pipeline   *)
(* engine (src/src/pipeline.rs), with the middleware hooks of              *)
(* src/src/middleware/manager.rs.                                          *)
(*                                                                         *)
(* Each await is a point where the environment may move: the caller may    *)
(* cancel its token, the module may be unregistered, replaced or disabled, *)
(* middlewares may be added or removed, and time passes.  The application  *)
(* code behind the interfaces (module, hooks, ACL conditions, approval     *)
(* handler) answers anything its signature allows.                         *)
(***************************************************************************)
EXTENDS Integers, FiniteSets, Sequences, SequencesExt

CONSTANTS
  Me,               \* id of the called module
  Chains,           \* call chains the caller's context may carry
  Modes,            \* entry points in use: "call", "trace", "stream", "validate"
  Mw,               \* middleware instances
  Initially,        \* the manager's list when the call starts
  Retrying,         \* the instances of RetryMiddleware in Mw
  MaxCallDepth, MaxModuleRepeat,   \* config.executor
  GlobalTimeouts,   \* config.executor.global_timeout, 0 = none
  DefaultTimeout,   \* config.executor.default_timeout, 0 = none
  Entries,          \* what the registry may hold for Me (see Registrations)
  MaxTime,          \* bound on the clock outside an invocation
  MaxChunks,        \* bound on the chunks of a stream
  Uses,             \* what the environment does: "cancel", "registry",
                    \* "middlewares", "chunk_cancel"
  None              \* "absent"

ASSUME ConstantsOK ==
  /\ Chains \subseteq Seq({Me, "caller"})
  /\ Modes \subseteq {"call", "trace", "stream", "validate"}
  /\ Initially \in Seq(Mw) /\ Retrying \subseteq Mw
  /\ MaxCallDepth \in Nat \ {0} /\ MaxModuleRepeat \in Nat \ {0}
  /\ GlobalTimeouts \subseteq Nat /\ DefaultTimeout \in Nat /\ MaxTime \in Nat /\ MaxChunks \in Nat
  /\ Uses \subseteq {"cancel", "registry", "middlewares", "chunk_cancel"}

VARIABLES
  cfg,        \* what the Executor and the caller were given (see Configs)
  reg,        \* the registry entry of Me
  mws,        \* MiddlewareManager.middlewares
  now,        \* the clock
  cancelled,  \* levels of the call's token chain that are cancelled: 0 is the
              \* caller's token, n the child made by the n-th context_creation
  pc,         \* the step, hook or await the call is at
  stage,      \* "main", or stream()'s "fallback", "chunks" and "phase3"
  ctx,        \* PipelineContext
  hook,       \* the hook loop in progress: list snapshot and next position
  timer,      \* when the invocation's timeout fires, None without one
  chunks,     \* chunks delivered to the consumer of the stream
  err,        \* the error being handled
  failed,     \* validate(): the steps with a preflight error
  result,     \* what the caller got
  seen        \* history of this attempt: the ACL allowed it, an approval was
              \* given, the middlewares whose before() and whose on_error()
              \* ran, preflight() and preview() of the module ran

env  == <<reg, mws, now>>
vars == <<cfg, env, cancelled, pc, stage, ctx, hook, timer, chunks, err, failed, result, seen>>

-----------------------------------------------------------------------------
(* An Executor and a call of it: ACL, policy and handler installed or not, *)
(* the policy's say on Me ("none" when there is no policy), strict mode,   *)
(* the global timeout, the caller's chain and whether the module streams.  *)
Configs ==
  {c \in [mode: Modes, acl: BOOLEAN, handler: BOOLEAN, policy: {"none", "keep", "require", "waive"},
          strict: BOOLEAN, global: GlobalTimeouts, chain: Chains, streams: BOOLEAN] :
     /\ c.strict => c.policy # "none"
     /\ c.streams => c.mode = "stream"}

(* Registered instances: "gated" is one whose annotations() say            *)
(* requires_approval.  desc and timeout: what the registered descriptor    *)
(* says of requires_approval and resources.timeout.                        *)
NoModule == "no module"
Registrations ==
  [module: {"plain", "gated"}, enabled: BOOLEAN, desc: BOOLEAN, timeout: Int \cup {None}]
Absent == [module |-> NoModule, enabled |-> FALSE, desc |-> FALSE, timeout |-> None]

ASSUME EntriesOK == Entries \subseteq Registrations

NoHistory == [acl |-> FALSE, approved |-> FALSE, ran |-> {}, told |-> {},
              introspected |-> FALSE]

Errors == {"cancelled", "bound_elsewhere", "call_chain", "not_found", "disabled", "acl_denied", "bad_token",
           "approval", "schema", "middleware", "invalid", "timeout", "module", "not_object"}
Values == {"output", "recovered", "inputs", "chunks", "valid", "invalid"}

ASSUME NoneApart == None \notin Int \cup Errors \cup Values

Pcs == {"entry", "context", "guard", "lookup", "acl", "gate", "approval", "before", "before_hook",
        "input", "execute", "running", "output", "after", "after_hook", "return",
        "chunks", "on_error", "report", "done"}

TypeOK ==
  /\ cfg \in Configs /\ reg \in Entries \cup {Absent} /\ mws \in Seq(Mw) /\ now \in Nat
  /\ cancelled \subseteq 0..(MaxModuleRepeat + 1)
  /\ pc \in Pcs /\ stage \in {"main", "fallback", "chunks", "phase3"}
  /\ ctx.token \in {"none", "text", "bad"}
  /\ ctx.module \in {NoModule, "plain", "gated"}
  /\ ctx.chain \in Seq({Me, "caller"}) /\ ctx.caller \in {Me, "caller", None}
  /\ ctx.level \in 0..(MaxModuleRepeat + 1)
  /\ ctx.aclApproval \in BOOLEAN
  /\ ctx.executed \in Nat /\ ctx.output \in BOOLEAN /\ ctx.deadline \in Nat \cup {None}
  /\ hook.list \in Seq(Mw) /\ hook.next \in Nat
  /\ timer \in Nat \cup {None} /\ chunks \in 0..MaxChunks
  /\ err \in Errors \cup {None} /\ failed \subseteq Pcs
  /\ result \in Values \cup Errors \cup {None}
  /\ seen.acl \in BOOLEAN /\ seen.approved \in BOOLEAN
  /\ seen.ran \subseteq Mw /\ seen.told \subseteq Mw /\ seen.introspected \in BOOLEAN

Init ==
  /\ cfg \in Configs /\ reg \in Entries \cup {Absent} /\ mws = Initially /\ now = 0
  /\ cancelled = {} /\ pc = "entry" /\ stage = "main"
  /\ \E token \in {"none", "text", "bad"} :
       ctx = [token |-> token, module |-> NoModule, chain |-> cfg.chain, caller |-> None,
              level |-> 0, aclApproval |-> FALSE, executed |-> 0, output |-> FALSE,
              deadline |-> None]
  /\ hook = [list |-> <<>>, next |-> 0] /\ timer = None /\ chunks = 0
  /\ err = None /\ failed = {} /\ result = None /\ seen = NoHistory

-----------------------------------------------------------------------------
(* The engine: steps run in order; a dry run leaves out the steps that are *)
(* not pure and those whose "module" requirement failed.                   *)

Steps == <<"context", "guard", "lookup", "acl", "gate", "before", "input",
           "execute", "output", "after">>
Pure  == {"context", "guard", "lookup", "acl", "input", "output"}
RequireModule == {"acl", "gate", "input", "execute", "output"}

DryRun == cfg.mode = "validate"

Selected(t, c) == DryRun => t \in Pure /\ (t \in RequireModule => c.module # NoModule)

(* The step that runs after step s when the context is c.                  *)
Following(s, c) ==
  LET i     == CHOOSE n \in 1..Len(Steps) : Steps[n] = s
      later == {n \in (i + 1)..Len(Steps) : Selected(Steps[n], c)}
  IN IF later # {} THEN Steps[Min(later)] ELSE IF DryRun THEN "report" ELSE "return"

(* Step s succeeds, leaving the context c.                                 *)
Continue(s, c) ==
  /\ ctx' = c /\ pc' = Following(s, c)
  /\ UNCHANGED <<err, failed, result>>

Finish(r) == result' = r /\ pc' = "done"

(* Mutant: a cancellation goes through the on_error hooks like any error. *)
UnrecoverableEarlyOnly(e, c) == c.executed = 0 \/ stage = "fallback"

(* An error whose caller runs no on_error hook: a cancellation, a failure  *)
(* before any before() hook ran, and any failure of run_stream_fallback.   *)
Unrecoverable(e, c) == e = "cancelled" \/ c.executed = 0 \/ stage = "fallback"

(* run_stream_phase3: the chunks are out, so a failing step is reported as *)
(* an event and swallowed.                                                 *)
PostStreamFailure == Finish("chunks")

(* The caller gets e as it is.                                             *)
Surface(e) == err' = e /\ Finish(e) /\ UNCHANGED hook

(* execute_on_error_outcome over the middlewares that context c says ran.  *)
Recover(e, c) ==
  /\ err' = e /\ pc' = "on_error"
  /\ hook' = [list |-> mws, next |-> c.executed]
  /\ UNCHANGED result

(* Step s fails with error e, leaving the context c.                       *)
Fail(s, e, c) ==
  /\ ctx' = c
  /\ \/ /\ DryRun
        /\ failed' = failed \cup {s} /\ pc' = Following(s, c)
        /\ UNCHANGED <<err, result, hook>>
     \/ /\ ~DryRun /\ stage = "phase3" /\ PostStreamFailure
        /\ UNCHANGED <<err, failed, hook>>
     \/ /\ ~DryRun /\ stage # "phase3"
        /\ IF Unrecoverable(e, c) THEN Surface(e) ELSE Recover(e, c)
        /\ UNCHANGED failed

(* CancelToken::is_cancelled walks up to the caller's token.               *)
IsCancelled == \E l \in 0..ctx.level : l \in cancelled

(* Before any step runs: the id is checked, except by call_with_trace, and *)
(* the context is bound to the executor, unless it belongs to another one. *)
(* validate() reports either as a failed check.                            *)
Enter ==
  /\ pc = "entry"
  /\ \/ pc' = "context" /\ UNCHANGED <<err, result>>
     \/ \E e \in {"invalid", "bound_elsewhere"} :
          /\ e = "invalid" => cfg.mode # "trace"
          /\ IF DryRun THEN Finish("invalid") /\ UNCHANGED err
             ELSE Finish(e) /\ err' = e
  /\ UNCHANGED <<cfg, env, cancelled, stage, ctx, hook, timer, chunks, failed, seen>>

-----------------------------------------------------------------------------
(* The built-in steps.                                                     *)

(* Context::child promotes the tail of the chain to caller_id and derives  *)
(* a child token; the deadline is set once.                                *)
CallerOf(chain) == IF chain = <<>> THEN None ELSE Last(chain)

ContextCreation ==
  /\ pc = "context"
  /\ Continue("context",
       [ctx EXCEPT !.caller = CallerOf(ctx.chain),
                   !.chain = Append(@, Me),
                   !.level = @ + 1,
                   !.deadline = IF @ = None /\ cfg.global > 0 THEN now + cfg.global ELSE @])
  /\ UNCHANGED <<cfg, env, cancelled, stage, hook, timer, chunks, seen>>

Occurrences(chain) == {i \in 1..Len(chain) : chain[i] = Me}

(* Mutant: repetitions of a module are not limited.                       *)
GuardCallChainNoRepeat(chain) ==
  LET prior == Occurrences(Front(chain)) IN
  /\ Len(chain) <= MaxCallDepth
  /\ prior # {} => Len(chain) - 1 \in prior

(* guard_call_chain: depth, a cycle through another module, repetitions.   *)
GuardCallChain(chain) ==
  LET prior == Occurrences(Front(chain)) IN
  /\ Len(chain) <= MaxCallDepth
  /\ prior # {} => Len(chain) - 1 \in prior
  /\ Cardinality(Occurrences(chain)) <= MaxModuleRepeat

CallChainGuard ==
  /\ pc = "guard"
  /\ \/ IsCancelled /\ Fail("guard", "cancelled", ctx)
     \/ ~IsCancelled /\ ~GuardCallChain(ctx.chain) /\ Fail("guard", "call_chain", ctx)
     \/ ~IsCancelled /\ GuardCallChain(ctx.chain) /\ Continue("guard", ctx) /\ UNCHANGED hook
  /\ UNCHANGED <<cfg, env, cancelled, stage, timer, chunks, seen>>

ModuleLookup ==
  /\ pc = "lookup"
  /\ \/ reg.module = NoModule /\ Fail("lookup", "not_found", ctx)
     \/ reg.module # NoModule /\ ~reg.enabled /\ Fail("lookup", "disabled", ctx)
     \/ /\ reg.module # NoModule /\ reg.enabled
        /\ Continue("lookup", [ctx EXCEPT !.module = reg.module])
        /\ UNCHANGED hook
  /\ UNCHANGED <<cfg, env, cancelled, stage, timer, chunks, seen>>

(* The ACL allows, allows with approval, or denies.                        *)
ACLCheck ==
  /\ pc = "acl"
  /\ \/ ~cfg.acl /\ Continue("acl", ctx) /\ UNCHANGED <<hook, seen>>
     \/ /\ cfg.acl
        /\ \E approval \in BOOLEAN : Continue("acl", [ctx EXCEPT !.aclApproval = approval])
        /\ seen' = [seen EXCEPT !.acl = TRUE]
        /\ UNCHANGED hook
     \/ /\ cfg.acl
        /\ Fail("acl", "acl_denied", [ctx EXCEPT !.aclApproval = FALSE])
        /\ UNCHANGED seen
  /\ UNCHANGED <<cfg, env, cancelled, stage, timer, chunks>>

(* PolicyDecision.needs_approval for declared governance a.                *)
PolicyNeeds(a) ==
  cfg.policy = "require" \/ (cfg.policy \in {"none", "keep"} /\ a)

(* Mutant: the resolved instance's annotations() are not asked.           *)
NeedsApprovalDescriptorOnly(c) == PolicyNeeds(reg.desc) \/ c.aclApproval

(* The union that BuiltinApprovalGate and validate() decide from: the live *)
(* instance, the descriptor registered now, the policy and the ACL.        *)
NeedsApproval(c) == PolicyNeeds(c.module = "gated" \/ reg.desc) \/ c.aclApproval

(* Mutant: the token is taken out only when an approval is needed.        *)
ApprovalGateStripsGated ==
  /\ pc = "gate"
  /\ LET c == IF NeedsApproval(ctx) THEN [ctx EXCEPT !.token = "none"] ELSE ctx IN
     \/ /\ ctx.token = "bad" /\ Fail("gate", "bad_token", c) /\ UNCHANGED seen
     \/ /\ ctx.token # "bad"
        /\ ~NeedsApproval(ctx) \/ (~cfg.handler /\ ~cfg.strict)
        /\ Continue("gate", c)
        /\ UNCHANGED <<hook, seen>>
     \/ /\ ctx.token # "bad" /\ NeedsApproval(ctx) /\ ~cfg.handler /\ cfg.strict
        /\ Fail("gate", "approval", c) /\ UNCHANGED seen
     \/ /\ ctx.token # "bad" /\ NeedsApproval(ctx) /\ cfg.handler
        /\ ctx' = c /\ pc' = "approval"
        /\ UNCHANGED <<hook, err, failed, result, seen>>
  /\ UNCHANGED <<cfg, env, cancelled, stage, timer, chunks>>

ApprovalGate ==
  /\ pc = "gate"
  /\ LET c == [ctx EXCEPT !.token = "none"] IN
     \/ /\ ctx.token = "bad" /\ Fail("gate", "bad_token", c) /\ UNCHANGED seen
     \/ /\ ctx.token # "bad"
        /\ ~NeedsApproval(ctx) \/ (~cfg.handler /\ ~cfg.strict)
        /\ Continue("gate", c)
        /\ UNCHANGED <<hook, seen>>
     \/ /\ ctx.token # "bad" /\ NeedsApproval(ctx) /\ ~cfg.handler /\ cfg.strict
        /\ Fail("gate", "approval", c) /\ UNCHANGED seen
     \/ /\ ctx.token # "bad" /\ NeedsApproval(ctx) /\ cfg.handler
        /\ ctx' = c /\ pc' = "approval"
        /\ UNCHANGED <<hook, err, failed, result, seen>>
  /\ UNCHANGED <<cfg, env, cancelled, stage, timer, chunks>>

(* The handler answers: approved, or one of rejected, timeout, pending, an *)
(* unknown status or an error.                                             *)
ApprovalAnswer ==
  /\ pc = "approval"
  /\ \/ Continue("gate", ctx) /\ seen' = [seen EXCEPT !.approved = TRUE] /\ UNCHANGED hook
     \/ Fail("gate", "approval", ctx) /\ UNCHANGED seen
  /\ UNCHANGED <<cfg, env, cancelled, stage, timer, chunks>>

(* execute_before works on a snapshot of the list.                         *)
MiddlewareBefore ==
  /\ pc = "before"
  /\ pc' = "before_hook" /\ hook' = [list |-> mws, next |-> 1]
  /\ UNCHANGED <<cfg, env, cancelled, stage, ctx, timer, chunks, err, failed, result, seen>>

(* Mutant: the hook after the failing one counts as executed.             *)
BeforeHookOneTooMany ==
  /\ pc = "before_hook"
  /\ \/ /\ hook.next > Len(hook.list)
        /\ Continue("before", [ctx EXCEPT !.executed = Len(hook.list)])
        /\ UNCHANGED <<hook, seen>>
     \/ /\ hook.next <= Len(hook.list)
        /\ seen' = [seen EXCEPT !.ran = @ \cup {hook.list[hook.next]}]
        /\ \/ /\ hook' = [hook EXCEPT !.next = @ + 1]
              /\ UNCHANGED <<ctx, pc, err, failed, result>>
           \/ \E e \in {"middleware", "cancelled"} :
                Fail("before", e, [ctx EXCEPT !.executed = hook.next + 1])
  /\ UNCHANGED <<cfg, env, cancelled, stage, timer, chunks>>

(* A failing middleware counts among the executed ones.                    *)
BeforeHook ==
  /\ pc = "before_hook"
  /\ \/ /\ hook.next > Len(hook.list)
        /\ Continue("before", [ctx EXCEPT !.executed = Len(hook.list)])
        /\ UNCHANGED <<hook, seen>>
     \/ /\ hook.next <= Len(hook.list)
        /\ seen' = [seen EXCEPT !.ran = @ \cup {hook.list[hook.next]}]
        /\ \/ /\ hook' = [hook EXCEPT !.next = @ + 1]
              /\ UNCHANGED <<ctx, pc, err, failed, result>>
           \/ \E e \in {"middleware", "cancelled"} :
                Fail("before", e, [ctx EXCEPT !.executed = hook.next])
  /\ UNCHANGED <<cfg, env, cancelled, stage, timer, chunks>>

InputValidation ==
  /\ pc = "input"
  /\ \/ Continue("input", ctx) /\ UNCHANGED hook
     \/ Fail("input", "schema", ctx)
  /\ UNCHANGED <<cfg, env, cancelled, stage, timer, chunks, seen>>

(* resolve_effective_timeout_ms: what is declared, or the default, clamped *)
(* to what is left of the global deadline.  0 is "no timeout".             *)
Remaining == IF now < ctx.deadline THEN ctx.deadline - now ELSE 0

(* Mutant: a timeout of 0 is not clamped to the deadline.                 *)
EffectiveTimeoutDeclaredOnly ==
  LET own == IF reg.timeout = None THEN DefaultTimeout ELSE reg.timeout
  IN IF ctx.deadline # None /\ Remaining < own THEN Remaining ELSE own

EffectiveTimeout ==
  LET own == IF reg.timeout = None THEN DefaultTimeout ELSE reg.timeout
  IN IF ctx.deadline # None /\ (own = 0 \/ Remaining < own) THEN Remaining ELSE own

NegativeTimeout == reg.timeout # None /\ reg.timeout < 0
DeadlinePassed  == ctx.deadline # None /\ Remaining = 0

(* Up to the second cancellation check, and the spawn of the invocation.   *)
Execute ==
  /\ pc = "execute" /\ (cfg.mode = "stream" => stage = "fallback")
  /\ \/ NegativeTimeout /\ Fail("execute", "invalid", ctx) /\ UNCHANGED <<cancelled, timer>>
     \/ /\ ~NegativeTimeout /\ DeadlinePassed
        /\ cancelled' = cancelled \cup {ctx.level}
        /\ Fail("execute", "timeout", ctx) /\ UNCHANGED timer
     \/ /\ ~NegativeTimeout /\ ~DeadlinePassed /\ IsCancelled
        /\ Fail("execute", "cancelled", ctx) /\ UNCHANGED <<cancelled, timer>>
     \/ /\ ~NegativeTimeout /\ ~DeadlinePassed /\ ~IsCancelled
        /\ pc' = "running"
        /\ timer' = IF EffectiveTimeout > 0 THEN now + EffectiveTimeout ELSE None
        /\ UNCHANGED <<cancelled, ctx, hook, err, failed, result>>
  /\ UNCHANGED <<cfg, env, stage, chunks, seen>>

(* module.execute() returns.                                               *)
ModuleReturns ==
  /\ pc = "running" /\ timer' = None
  /\ \/ Continue("execute", [ctx EXCEPT !.output = TRUE]) /\ UNCHANGED hook
     \/ \E e \in {"module", "cancelled"} : Fail("execute", e, ctx)
  /\ UNCHANGED <<cfg, env, cancelled, stage, chunks, seen>>

(* The timeout fires first: the invocation's own token is cancelled.       *)
InvocationTimesOut ==
  /\ pc = "running" /\ timer # None /\ now >= timer
  /\ timer' = None /\ cancelled' = cancelled \cup {ctx.level}
  /\ Fail("execute", "timeout", ctx)
  /\ UNCHANGED <<cfg, env, stage, chunks, seen>>

OutputValidation ==
  /\ pc = "output"
  /\ \/ Continue("output", ctx) /\ UNCHANGED hook
     \/ ctx.output /\ Fail("output", "schema", ctx)
  /\ UNCHANGED <<cfg, env, cancelled, stage, timer, chunks, seen>>

(* execute_after: a fresh snapshot, in reverse, the output taken out.      *)
MiddlewareAfter ==
  /\ pc = "after"
  /\ ctx' = [ctx EXCEPT !.output = FALSE]
  /\ pc' = "after_hook" /\ hook' = [list |-> mws, next |-> Len(mws)]
  /\ UNCHANGED <<cfg, env, cancelled, stage, timer, chunks, err, failed, result, seen>>

AfterHook ==
  /\ pc = "after_hook"
  /\ \/ hook.next = 0 /\ Continue("after", [ctx EXCEPT !.output = TRUE]) /\ UNCHANGED hook
     \/ /\ hook.next > 0 /\ hook' = [hook EXCEPT !.next = @ - 1]
        /\ UNCHANGED <<ctx, pc, err, failed, result>>
     \/ /\ hook.next > 0
        /\ \E e \in {"middleware", "cancelled"} : Fail("after", e, ctx)
  /\ UNCHANGED <<cfg, env, cancelled, stage, timer, chunks, seen>>

ReturnResult ==
  /\ pc = "return"
  /\ Finish(IF stage = "phase3" THEN "chunks" ELSE "output")
  /\ UNCHANGED <<cfg, env, cancelled, stage, ctx, hook, timer, chunks, err, failed, seen>>

-----------------------------------------------------------------------------
(* execute_on_error_outcome: the executed indices, in reverse, into a      *)
(* fresh snapshot; the first outcome wins and a hook's own error is logged.*)

(* What call() resets before it runs the strategy again, on the inputs the *)
(* hook gave.                                                              *)
ResetForRetry ==
  /\ \E token \in {"none", "text", "bad"} :
       ctx' = [ctx EXCEPT !.token = token, !.module = NoModule,
                          !.output = FALSE, !.executed = 0]
  /\ pc' = "context" /\ err' = None /\ seen' = NoHistory
  /\ UNCHANGED result

Told == [seen EXCEPT !.told = @ \cup {hook.list[hook.next]}]

OnErrorHook ==
  /\ pc = "on_error"
  /\ \/ /\ hook.next = 0                                   \* no outcome
        /\ Finish(err) /\ UNCHANGED <<hook, ctx, err, seen>>
     \/ /\ hook.next > 0                                   \* nothing, or Err
        /\ hook' = [hook EXCEPT !.next = @ - 1]
        /\ seen' = IF hook.next <= Len(hook.list) THEN Told ELSE seen
        /\ UNCHANGED <<pc, ctx, err, result>>
     \/ /\ hook.next \in 1..Len(hook.list)                 \* Recovery
        /\ Finish(IF hook.list[hook.next] \in Retrying THEN "inputs" ELSE "recovered")
        /\ seen' = Told /\ UNCHANGED <<hook, ctx, err>>
     \/ /\ hook.next \in 1..Len(hook.list)                 \* Retry
        /\ hook.list[hook.next] \notin Retrying
        /\ IF cfg.mode = "call" THEN ResetForRetry
           ELSE Finish(err) /\ seen' = Told /\ UNCHANGED <<ctx, err>>
        /\ UNCHANGED hook
  /\ UNCHANGED <<cfg, env, cancelled, stage, timer, chunks, failed>>

-----------------------------------------------------------------------------
(* stream(), from where prepare_stream stopped: before "execute".          *)

(* run_stream_fallback: the module does not stream, so the strategy runs   *)
(* on from "execute" and its output is the one chunk.                      *)
Fallback == stage' = "fallback" /\ UNCHANGED pc

StreamOpen ==
  /\ cfg.mode = "stream" /\ pc = "execute" /\ stage = "main"
  /\ \/ /\ IsCancelled /\ err' = "cancelled" /\ Finish("cancelled") /\ UNCHANGED stage
     \/ /\ ~IsCancelled /\ cfg.streams
        /\ pc' = "chunks" /\ stage' = "chunks" /\ UNCHANGED <<err, result>>
     \/ ~IsCancelled /\ ~cfg.streams /\ Fallback /\ UNCHANGED <<err, result>>
  /\ UNCHANGED <<cfg, env, cancelled, ctx, hook, timer, chunks, failed, seen>>

StreamDeadlineExceeded == ctx.deadline # None /\ now > ctx.deadline

(* recover_stream_chunk_error, whatever the code of the error.             *)
ChunkError(e) == IF ctx.executed = 0 THEN Surface(e) ELSE Recover(e, ctx)

(* What is left to do once the stream has ended: the steps that follow the *)
(* module's, over the merged chunks.                                       *)
PostStream ==
  /\ pc' = "output" /\ stage' = "phase3" /\ ctx' = [ctx EXCEPT !.output = TRUE]

(* inner.next() yields something, or the stream ends.                      *)
StreamNext ==
  /\ pc = "chunks"
  /\ \/ /\ StreamDeadlineExceeded
        /\ Finish("timeout") /\ err' = "timeout" /\ UNCHANGED <<stage, ctx, hook, chunks>>
     \/ /\ ~StreamDeadlineExceeded
        /\ \/ /\ chunks < MaxChunks /\ chunks' = chunks + 1
              /\ UNCHANGED <<pc, stage, ctx, hook, err, result>>
           \/ /\ Finish("not_object") /\ err' = "not_object"
              /\ UNCHANGED <<stage, ctx, hook, chunks>>
           \/ \E e \in {"module"} \cup (IF "chunk_cancel" \in Uses THEN {"cancelled"} ELSE {}) :
                ChunkError(e) /\ UNCHANGED <<stage, ctx, chunks>>
     \/ PostStream /\ UNCHANGED <<hook, chunks, err, result>>
  /\ UNCHANGED <<cfg, env, cancelled, timer, failed, seen>>

-----------------------------------------------------------------------------
(* validate(), after the dry run: preflight() and preview() of the module  *)
(* run when lookup resolved one and the ACL check did not fail.            *)
Introspects == ctx.module # NoModule /\ "acl" \notin failed

Report ==
  /\ pc = "report"
  /\ Finish(IF failed = {} THEN "valid" ELSE "invalid")
  /\ seen' = [seen EXCEPT !.introspected = Introspects]
  /\ UNCHANGED <<cfg, env, cancelled, stage, ctx, hook, timer, chunks, err, failed>>

-----------------------------------------------------------------------------
(* The environment.                                                        *)

CallerCancels ==
  /\ "cancel" \in Uses /\ pc # "done" /\ 0 \notin cancelled
  /\ cancelled' = cancelled \cup {0}
  /\ UNCHANGED <<cfg, env, pc, stage, ctx, hook, timer, chunks, err, failed, result, seen>>

(* The module is unregistered, registered again, replaced, enabled or      *)
(* disabled.                                                               *)
RegistryChanges ==
  /\ "registry" \in Uses /\ pc # "done"
  /\ reg' \in (Entries \cup {Absent}) \ {reg}
  /\ UNCHANGED <<cfg, mws, now, cancelled, pc, stage, ctx, hook, timer, chunks, err, failed, result, seen>>

(* A middleware is inserted at the position of its priority, or removed.   *)
MiddlewaresChange ==
  /\ "middlewares" \in Uses /\ pc # "done"
  /\ \/ \E m \in Mw \ Range(mws), i \in 1..(Len(mws) + 1) : mws' = InsertAt(mws, i, m)
     \/ \E i \in 1..Len(mws) : mws' = RemoveAt(mws, i)
  /\ UNCHANGED <<cfg, reg, now, cancelled, pc, stage, ctx, hook, timer, chunks, err, failed, result, seen>>

(* Time passes up to MaxTime, and up to the timer of an invocation.        *)
Tick ==
  /\ pc # "done"
  /\ now < MaxTime \/ (timer # None /\ now < timer)
  /\ now' = now + 1
  /\ UNCHANGED <<cfg, reg, mws, cancelled, pc, stage, ctx, hook, timer, chunks, err, failed, result, seen>>

(* Steps that the runtime and terminating application code complete.       *)
Proceed ==
  \/ Enter \/ ContextCreation \/ CallChainGuard \/ ModuleLookup \/ ACLCheck
  \/ ApprovalGate \/ ApprovalAnswer \/ MiddlewareBefore \/ BeforeHook
  \/ InputValidation \/ Execute \/ OutputValidation \/ MiddlewareAfter
  \/ AfterHook \/ ReturnResult \/ OnErrorHook \/ StreamOpen \/ StreamNext
  \/ Report \/ InvocationTimesOut

Next ==
  \/ Proceed \/ ModuleReturns
  \/ CallerCancels \/ RegistryChanges \/ MiddlewaresChange \/ Tick

Spec == Init /\ [][Next]_vars

(* The runtime polls the call, time passes, and what application code the  *)
(* call waits for without a time limit (ACL conditions, approval handler,  *)
(* hooks, chunks) answers.  A module's execute() is only assumed to return *)
(* when neither its own timeout nor a deadline applies.                    *)
FairSpec ==
  /\ Spec /\ WF_vars(Proceed) /\ WF_vars(Tick)
  /\ WF_vars(ModuleReturns /\ timer = None /\ ctx.deadline = None)

-----------------------------------------------------------------------------
(* Properties.                                                             *)

Past == Pcs \ {"entry", "context", "guard", "lookup", "acl", "gate", "report", "done"}

(* Module code runs only under the governance that was installed when the  *)
(* call began: never for validate(), only after this attempt's ACL check   *)
(* allowed it, and only with an approval when the resolved instance or the *)
(* ACL demanded one and the gate can enforce it, whatever happened to the  *)
(* registry entry in between.  validate() runs the module's preflight() and *)
(* preview() only for a caller the ACL allows.                             *)
InvocationGoverned ==
  /\ pc \in {"running", "chunks"} =>
       /\ ~DryRun
       /\ cfg.acl => seen.acl
       /\ ((ctx.module = "gated" /\ cfg.policy # "waive") \/ ctx.aclApproval)
            /\ (cfg.handler \/ cfg.strict) => seen.approved
  /\ seen.introspected => DryRun /\ (cfg.acl => seen.acl)

(* D-20: an ExecutionCancelled error reaches the caller as it is; no       *)
(* on_error hook sees it, so none can turn it into a result or a retry.    *)
CancelledNeverRecovered ==
  err = "cancelled" => pc # "on_error" /\ result \in {None, "cancelled"}

(* The dual-timeout model: while module code runs under a global deadline  *)
(* there is a timer, and it fires no later than the deadline, whatever the *)
(* module declared and also when 0 disabled the per-module timeout.        *)
BoundedByDeadline ==
  pc = "running" /\ ctx.deadline # None => timer # None /\ timer <= ctx.deadline

(* take_approval_token: no step after the approval gate sees the           *)
(* _approval_token, gated or not, on the first attempt or on a retry whose *)
(* inputs a hook supplied.                                                 *)
TokenIsStripped == ~DryRun /\ pc \in Past => ctx.token = "none"

(* on_error runs over the middlewares whose before() ran in this attempt,  *)
(* and over no other.                                                      *)
OnErrorMatchesBefore == seen.told \subseteq seen.ran

(* RetryMiddleware makes the pipeline run again; its answer is never the   *)
(* result of the call.                                                     *)
RetryIsNotAResult == result # "inputs"

(* Every call returns: hung modules are cut off by the deadline, and hooks *)
(* that keep asking for a retry run into max_module_repeat.                *)
EveryCallReturns == <>(pc = "done")
=============================================================================
