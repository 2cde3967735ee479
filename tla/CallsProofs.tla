---------------------------- MODULE CallsProofs ----------------------------
(***************************************************************************)
(* Proofs about one call, for any module list, configuration and instance  *)
(* of the constants: the invariant IInv says where a call can be           *)
(* (Stations), what has been checked by then (Governance), and that token  *)
(* and timer are as TokenIsStripped and BoundedByDeadline demand.          *)
(***************************************************************************)
EXTENDS Calls, FiniteSetTheorems, TLAPS

(* The steps and their places.                                             *)
LEMMA StepPlaces ==
  /\ Len(Steps) = 10
  /\ Steps[1] = "context" /\ Steps[2] = "guard" /\ Steps[3] = "lookup" /\ Steps[4] = "acl"
  /\ Steps[5] = "gate" /\ Steps[6] = "before" /\ Steps[7] = "input" /\ Steps[8] = "execute"
  /\ Steps[9] = "output" /\ Steps[10] = "after"
  BY DEF Steps

(* No step occurs twice.                                                   *)
LEMMA StepsDiffer == \A n, m \in 1..10 : Steps[n] = Steps[m] => n = m
  <1>1. SUFFICES ASSUME NEW n \in 1..10, NEW m \in 1..10, n < m PROVE Steps[n] # Steps[m]
    OBVIOUS
  <1>2. QED
    BY <1>1, StepPlaces

(* The step that follows is the next one selected.                         *)
LEMMA FollowingPlace ==
  ASSUME NEW i \in 1..10, NEW c
  PROVE  /\ \A j \in (i + 1)..10 :
              Selected(Steps[j], c) /\ (\A n \in (i + 1)..(j - 1) : ~Selected(Steps[n], c))
                => Following(Steps[i], c) = Steps[j]
         /\ (\A n \in (i + 1)..10 : ~Selected(Steps[n], c)) =>
              Following(Steps[i], c) = IF DryRun THEN "report" ELSE "return"
  <1> DEFINE place == CHOOSE n \in 1..Len(Steps) : Steps[n] = Steps[i]
             After(k) == {n \in (k + 1)..Len(Steps) : Selected(Steps[n], c)}
             later == After(i)
  <1>1. place = i
    BY StepPlaces, StepsDiffer
  <1>2. Following(Steps[i], c) =
          IF later # {} THEN Steps[Min(later)] ELSE IF DryRun THEN "report" ELSE "return"
    <2>1. Following(Steps[i], c) =
            IF After(place) # {} THEN Steps[Min(After(place))] ELSE IF DryRun THEN "report" ELSE "return"
      BY Zenon DEF Following
    <2>2. QED
      BY <1>1, <2>1
  <1> HIDE DEF place
  <1>3. ASSUME NEW j \in (i + 1)..10, Selected(Steps[j], c), \A n \in (i + 1)..(j - 1) : ~Selected(Steps[n], c)
        PROVE  Following(Steps[i], c) = Steps[j]
    <2>1. j \in later /\ \A n \in later : j <= n
      BY <1>3, StepPlaces
    <2>2. Min(later) = j
      BY <2>1 DEF Min
    <2>3. QED
      BY <1>2, <2>1, <2>2
  <1>4. ASSUME \A n \in (i + 1)..10 : ~Selected(Steps[n], c)
        PROVE  Following(Steps[i], c) = IF DryRun THEN "report" ELSE "return"
    <2>1. later = {}
      BY <1>4, StepPlaces
    <2>2. QED
      BY <1>2, <2>1
  <1>5. QED
    BY <1>3, <1>4

(* A run that is no dry run takes the steps one after another.             *)
LEMMA LiveSteps ==
  ASSUME ~DryRun, NEW c
  PROVE  /\ Following("context", c) = "guard"
         /\ Following("guard", c) = "lookup"
         /\ Following("lookup", c) = "acl"
         /\ Following("acl", c) = "gate"
         /\ Following("gate", c) = "before"
         /\ Following("before", c) = "input"
         /\ Following("input", c) = "execute"
         /\ Following("execute", c) = "output"
         /\ Following("output", c) = "after"
         /\ Following("after", c) = "return"
  <1>1. \A i \in 1..9 : Following(Steps[i], c) = Steps[i + 1]
    BY FollowingPlace DEF Selected
  <1>2. Following(Steps[10], c) = "return"
    BY FollowingPlace DEF Selected
  <1>3. QED
    BY <1>1, <1>2, StepPlaces

(* A dry run takes the pure steps, and behind the lookup only with a       *)
(* module.                                                                 *)
LEMMA DrySteps ==
  ASSUME DryRun, NEW c
  PROVE  /\ Following("context", c) = "guard"
         /\ Following("guard", c) = "lookup"
         /\ Following("lookup", c) = IF c.module # NoModule THEN "acl" ELSE "report"
         /\ Following("acl", c) = IF c.module # NoModule THEN "input" ELSE "report"
         /\ Following("input", c) = IF c.module # NoModule THEN "output" ELSE "report"
         /\ Following("output", c) = "report"
  <1>1. /\ Selected(Steps[2], c) /\ Selected(Steps[3], c)
        /\ ~Selected(Steps[5], c) /\ ~Selected(Steps[6], c) /\ ~Selected(Steps[8], c) /\ ~Selected(Steps[10], c)
        /\ \A i \in {4, 7, 9} : Selected(Steps[i], c) <=> c.module # NoModule
    BY StepPlaces DEF Selected, Pure, RequireModule
  <1> DEFINE known == c.module # NoModule
  <1>2. \A i \in 1..2 : Following(Steps[i], c) = Steps[i + 1]
    BY <1>1, FollowingPlace
  <1>3. Following(Steps[3], c) = IF known THEN Steps[4] ELSE "report"
    BY <1>1, FollowingPlace
  <1>4. Following(Steps[4], c) = IF known THEN Steps[7] ELSE "report"
    BY <1>1, FollowingPlace
  <1>5. Following(Steps[7], c) = IF known THEN Steps[9] ELSE "report"
    BY <1>1, FollowingPlace
  <1>6. Following(Steps[9], c) = "report"
    BY <1>1, FollowingPlace
  <1>7. QED
    BY <1>2, <1>3, <1>4, <1>5, <1>6, StepPlaces

-----------------------------------------------------------------------------
(* What TypeOK leaves unsaid: the records have no other fields.            *)
Contexts ==
  [token : {"none", "text", "bad"}, module : {NoModule, "plain", "gated"},
   chain : Seq({Me, "caller"}), caller : {Me, "caller", None}, level : Nat,
   aclApproval : BOOLEAN, executed : Nat, output : BOOLEAN, deadline : Nat \cup {None}]
HookLoops == [list : Seq(Mw), next : Nat]
Histories ==
  [acl : BOOLEAN, approved : BOOLEAN, ran : SUBSET Mw, told : SUBSET Mw, introspected : BOOLEAN]

Fields ==
  /\ cfg \in Configs /\ reg \in Entries \cup {Absent} /\ mws \in Seq(Mw) /\ now \in Nat
  /\ ctx \in Contexts /\ hook \in HookLoops /\ seen \in Histories
  /\ timer \in Nat \cup {None} /\ chunks \in 0..MaxChunks /\ failed \subseteq Pcs

(* What the updates of a context leave alone.                              *)
LEMMA Updates ==
  ASSUME NEW c \in Contexts
  PROVE  /\ \A x \in {"none", "text", "bad"} : [c EXCEPT !.token = x] \in Contexts
         /\ \A x \in {NoModule, "plain", "gated"} : [c EXCEPT !.module = x] \in Contexts
         /\ \A x \in BOOLEAN : [c EXCEPT !.aclApproval = x] \in Contexts
         /\ \A x \in Nat : [c EXCEPT !.executed = x] \in Contexts
         /\ \A x \in BOOLEAN : [c EXCEPT !.output = x] \in Contexts
         /\ \A x \in {"none", "text", "bad"} :
              [c EXCEPT !.token = x, !.module = NoModule, !.output = FALSE, !.executed = 0] \in Contexts
  BY DEF Contexts

(* The updates of a history keep its type.                                 *)
LEMMA HistoryUpdates ==
  ASSUME NEW h \in Histories
  PROVE  /\ \A x \in BOOLEAN : [h EXCEPT !.acl = x] \in Histories
         /\ \A x \in BOOLEAN : [h EXCEPT !.approved = x] \in Histories
         /\ \A x \in BOOLEAN : [h EXCEPT !.introspected = x] \in Histories
         /\ \A x \in Mw : [h EXCEPT !.ran = @ \cup {x}] \in Histories
         /\ \A x \in Mw : [h EXCEPT !.told = @ \cup {x}] \in Histories
         /\ NoHistory \in Histories
  BY DEF Histories, NoHistory

(* The updates of a hook loop keep its type.                               *)
LEMMA HookUpdates ==
  ASSUME NEW h \in HookLoops
  PROVE  /\ \A x \in Nat : [h EXCEPT !.next = x] \in HookLoops
         /\ h.next \in Nat /\ Len(h.list) \in Nat /\ \A i \in 1..Len(h.list) : h.list[i] \in Mw
         /\ [h EXCEPT !.next = @ + 1] \in HookLoops
         /\ h.next > 0 => [h EXCEPT !.next = @ - 1] \in HookLoops
         /\ \A l \in Seq(Mw), n \in Nat : [list |-> l, next |-> n] \in HookLoops
  BY DEF HookLoops

USE ConstantsOK, EntriesOK, NoneApart DEF ConstantsOK, env

(* A hook loop that runs before() counts from one.                         *)
Begun == pc = "before_hook" => hook.next >= 1

(* The fields have their types at the start.                               *)
LEMMA InitFields == Init => Fields
  BY DEF Init, Fields, Contexts, HookLoops, Histories, NoHistory, Configs

(* A step that succeeds leaves its context.                                *)
LEMMA ContinueContext ==
  ASSUME NEW s, NEW c, Continue(s, c)
  PROVE  ctx' = c /\ UNCHANGED <<err, failed, result>>
  BY DEF Continue

(* A step that fails leaves its context and a hook loop.                   *)
LEMMA FailContext ==
  ASSUME Fields, NEW s \in Pcs, NEW e, NEW c \in Contexts, Fail(s, e, c)
  PROVE  ctx' = c /\ hook' \in HookLoops /\ failed' \subseteq Pcs
  BY DEF Fail, Fields, Contexts, HookLoops, PostStreamFailure, Surface, Recover

(* The types of what the steps read.                                       *)
LEMMA Reads ==
  ASSUME Fields
  PROVE  /\ reg.module \in {NoModule, "plain", "gated"} /\ reg.timeout \in Int \cup {None}
         /\ ctx.deadline \in Nat \cup {None} /\ ctx.executed \in Nat /\ ctx.chain \in Seq({Me, "caller"})
         /\ ctx.level \in Nat /\ ctx.output \in BOOLEAN /\ ctx.token \in {"none", "text", "bad"}
         /\ ctx.module \in {NoModule, "plain", "gated"} /\ ctx.aclApproval \in BOOLEAN
         /\ ctx.caller \in {Me, "caller", None}
         /\ cfg.global \in Nat /\ cfg.chain \in Seq({Me, "caller"})
  <1>1. reg.module \in {NoModule, "plain", "gated"} /\ reg.timeout \in Int \cup {None}
    <2>1. CASE reg = Absent
      BY <2>1 DEF Absent
    <2>2. CASE reg \in Registrations
      BY <2>2 DEF Registrations
    <2>3. QED
      BY <2>1, <2>2 DEF Fields
  <1>2. QED
    BY <1>1 DEF Fields, Contexts, Configs

(* resolve_effective_timeout_ms gives a number.                            *)
LEMMA TimeoutIsANumber == Fields => EffectiveTimeout \in Int
  BY Reads DEF EffectiveTimeout, Remaining, Fields

(* context_creation keeps the types.                                       *)
LEMMA CreationFields == Fields /\ ContextCreation => Fields'
  <1> SUFFICES ASSUME Fields, ContextCreation PROVE Fields'
    OBVIOUS
  <1> DEFINE due == IF ctx.deadline = None /\ cfg.global > 0 THEN now + cfg.global ELSE ctx.deadline
             fresh == [token |-> ctx.token, module |-> ctx.module, chain |-> Append(ctx.chain, Me),
                       caller |-> CallerOf(ctx.chain), level |-> ctx.level + 1,
                       aclApproval |-> ctx.aclApproval, executed |-> ctx.executed,
                       output |-> ctx.output, deadline |-> due]
  <1>1. CallerOf(ctx.chain) \in {Me, "caller", None} /\ Append(ctx.chain, Me) \in Seq({Me, "caller"})
    BY Reads DEF CallerOf, Last
  <1>2. due \in Nat \cup {None}
    BY Reads DEF Fields
  <1>3. fresh \in Contexts
    BY <1>1, <1>2, Reads DEF Contexts
  <1>4. ctx' = [ctx EXCEPT !.caller = CallerOf(ctx.chain), !.chain = Append(@, Me), !.level = @ + 1,
                           !.deadline = IF @ = None /\ cfg.global > 0 THEN now + cfg.global ELSE @]
    BY ContinueContext DEF ContextCreation
  <1>5. ctx' = fresh
    BY <1>4 DEF Fields, Contexts
  <1>6. UNCHANGED <<cfg, env, hook, timer, chunks, seen, failed>>
    BY ContinueContext DEF ContextCreation
  <1> HIDE DEF fresh
  <1>7. QED
    BY <1>3, <1>5, <1>6 DEF Fields

(* So do the steps up to the approval.                                     *)
LEMMA OpeningFields ==
  ASSUME Fields, Enter \/ CallChainGuard \/ ModuleLookup \/ ACLCheck \/ ApprovalGate \/ ApprovalAnswer
  PROVE  Fields'
  <1> USE DEF Fields, Pcs
  <1>1. CASE Enter
    BY <1>1 DEF Enter
  <1>2. CASE CallChainGuard
    BY <1>2, FailContext, ContinueContext DEF CallChainGuard
  <1>3. CASE ModuleLookup
    <2>1. [ctx EXCEPT !.module = reg.module] \in Contexts
      BY Updates, Reads
    <2>2. QED
      BY <1>3, <2>1, FailContext, ContinueContext DEF ModuleLookup
  <1>4. CASE ACLCheck
    BY <1>4, FailContext, ContinueContext, Updates, HistoryUpdates DEF ACLCheck
  <1>5. CASE ApprovalGate
    BY <1>5, FailContext, ContinueContext, Updates DEF ApprovalGate
  <1>6. CASE ApprovalAnswer
    BY <1>6, FailContext, ContinueContext, HistoryUpdates DEF ApprovalAnswer
  <1>7. QED
    BY <1>1, <1>2, <1>3, <1>4, <1>5, <1>6

(* So does a before() hook.                                                *)
LEMMA BeforeFields == Fields /\ Begun /\ BeforeHook => Fields'
  <1> SUFFICES ASSUME Fields, Begun, BeforeHook PROVE Fields'
    OBVIOUS
  <1>1. hook.next \in Nat /\ Len(hook.list) \in Nat /\ \A i \in 1..Len(hook.list) : hook.list[i] \in Mw
    BY HookUpdates DEF Fields
  <1>2. hook.next >= 1 /\ UNCHANGED <<cfg, env, timer, chunks>>
    BY DEF BeforeHook, Begun
  <1>3. [ctx EXCEPT !.executed = Len(hook.list)] \in Contexts /\ [ctx EXCEPT !.executed = hook.next] \in Contexts
    BY <1>1, Updates DEF Fields
  <1>4. [hook EXCEPT !.next = @ + 1] \in HookLoops
    BY HookUpdates DEF Fields
  <1>5. ctx' \in Contexts /\ hook' \in HookLoops /\ failed' \subseteq Pcs
    BY <1>3, <1>4, FailContext, ContinueContext DEF BeforeHook, Fields, Pcs
  <1>6. IF hook.next <= Len(hook.list) THEN seen' = [seen EXCEPT !.ran = @ \cup {hook.list[hook.next]}] ELSE seen' = seen
    BY <1>1 DEF BeforeHook
  <1>7. seen' \in Histories
    <2>1. CASE hook.next <= Len(hook.list)
      <3>1. hook.list[hook.next] \in Mw
        BY <1>1, <1>2, <2>1
      <3>2. [seen EXCEPT !.ran = @ \cup {hook.list[hook.next]}] \in Histories
        BY <3>1, HistoryUpdates DEF Fields
      <3>3. QED
        BY <1>6, <2>1, <3>2
    <2>2. CASE ~(hook.next <= Len(hook.list))
      BY <1>6, <2>2 DEF Fields
    <2>3. QED
      BY <2>1, <2>2
  <1>8. QED
    BY <1>2, <1>5, <1>7 DEF Fields

(* So does the start of an invocation.                                     *)
LEMMA ExecuteFields == Fields /\ Execute => Fields'
  <1> SUFFICES ASSUME Fields, Execute PROVE Fields'
    OBVIOUS
  <1>1. /\ timer' = timer \/ timer' = IF EffectiveTimeout > 0 THEN now + EffectiveTimeout ELSE None
        /\ UNCHANGED <<cfg, env, chunks, seen>>
    BY DEF Execute
  <1>2. ctx' = ctx /\ hook' \in HookLoops /\ failed' \subseteq Pcs
    BY FailContext DEF Execute, Fields, Pcs
  <1>3. timer' \in Nat \cup {None}
    BY <1>1, TimeoutIsANumber DEF Fields
  <1>4. QED
    BY <1>1, <1>2, <1>3 DEF Fields

(* So do the other steps up to the after() hooks.                          *)
LEMMA RunningFields ==
  ASSUME Fields, MiddlewareBefore \/ InputValidation \/ ModuleReturns
                   \/ InvocationTimesOut \/ OutputValidation \/ MiddlewareAfter \/ AfterHook
  PROVE  Fields'
  <1> USE DEF Fields, Pcs
  <1>1. CASE MiddlewareBefore
    BY <1>1, HookUpdates DEF MiddlewareBefore
  <1>2. CASE InputValidation
    BY <1>2, FailContext, ContinueContext DEF InputValidation
  <1>3. CASE ModuleReturns
    BY <1>3, FailContext, ContinueContext, Updates DEF ModuleReturns
  <1>4. CASE InvocationTimesOut
    BY <1>4, FailContext DEF InvocationTimesOut
  <1>5. CASE OutputValidation
    BY <1>5, FailContext, ContinueContext DEF OutputValidation
  <1>6. CASE MiddlewareAfter
    BY <1>6, HookUpdates, Updates DEF MiddlewareAfter
  <1>7. CASE AfterHook
    BY <1>7, FailContext, ContinueContext, HookUpdates, Updates DEF AfterHook
  <1>8. QED
    BY <1>1, <1>2, <1>3, <1>4, <1>5, <1>6, <1>7

(* So does an on_error() hook, a retry included.                           *)
LEMMA OnErrorFields == Fields /\ OnErrorHook => Fields'
  <1> SUFFICES ASSUME Fields, OnErrorHook PROVE Fields'
    OBVIOUS
  <1>1. hook.next \in Nat /\ Len(hook.list) \in Nat /\ \A i \in 1..Len(hook.list) : hook.list[i] \in Mw
    BY HookUpdates DEF Fields
  <1>2. hook' \in HookLoops /\ UNCHANGED <<cfg, env, timer, chunks, failed>>
    BY HookUpdates DEF OnErrorHook, Fields
  <1>3. ctx' \in Contexts
    BY Updates DEF OnErrorHook, ResetForRetry, Fields
  <1>4. IF hook.next \in 1..Len(hook.list) THEN seen' \in {seen, NoHistory, Told} ELSE seen' = seen
    BY <1>1 DEF OnErrorHook, ResetForRetry
  <1>5. seen' \in Histories
    <2>1. CASE hook.next \in 1..Len(hook.list)
      <3>1. hook.list[hook.next] \in Mw
        BY <1>1, <2>1
      <3>2. Told \in Histories
        BY <3>1, HistoryUpdates DEF Told, Fields
      <3>3. NoHistory \in Histories
        BY HistoryUpdates DEF Fields
      <3>4. QED
        BY <1>4, <2>1, <3>2, <3>3 DEF Fields
    <2>2. CASE hook.next \notin 1..Len(hook.list)
      BY <1>4, <2>2 DEF Fields
    <2>3. QED
      BY <2>1, <2>2
  <1>6. QED
    BY <1>2, <1>3, <1>5 DEF Fields

(* So does a chunk.                                                        *)
LEMMA StreamFields == Fields /\ StreamNext => Fields'
  <1> SUFFICES ASSUME Fields, StreamNext PROVE Fields'
    OBVIOUS
  <1>1. hook' = hook \/ hook' = [list |-> mws, next |-> ctx.executed]
    BY DEF StreamNext, ChunkError, Surface, Recover
  <1>2. [list |-> mws, next |-> ctx.executed] \in HookLoops
    BY Reads, HookUpdates DEF Fields
  <1>3. hook' \in HookLoops
    BY <1>1, <1>2 DEF Fields
  <1>4. ctx' = ctx \/ ctx' = [ctx EXCEPT !.output = TRUE]
    BY DEF StreamNext, PostStream
  <1>5. ctx' \in Contexts
    BY <1>4, Updates DEF Fields
  <1>6. chunks' \in 0..MaxChunks /\ UNCHANGED <<cfg, env, timer, failed, seen>>
    BY DEF StreamNext, Fields
  <1>7. QED
    BY <1>3, <1>5, <1>6 DEF Fields

(* So do the steps that end a call.                                        *)
LEMMA ClosingFields ==
  ASSUME Fields, ReturnResult \/ StreamOpen \/ Report
  PROVE  Fields'
  <1>1. CASE Report
    BY <1>1, HistoryUpdates DEF Report, Introspects, Fields
  <1>2. CASE ReturnResult \/ StreamOpen
    BY <1>2 DEF ReturnResult, StreamOpen, Fields
  <1>3. QED
    BY <1>1, <1>2

(* So does the environment.                                                *)
LEMMA EnvironmentFields ==
  ASSUME Fields, CallerCancels \/ RegistryChanges \/ MiddlewaresChange \/ Tick \/ UNCHANGED vars
  PROVE  Fields'
  <1>1. CASE MiddlewaresChange
    <2>1. ASSUME NEW m \in Mw, NEW i \in 1..(Len(mws) + 1) PROVE InsertAt(mws, i, m) \in Seq(Mw)
      <3>1. SubSeq(mws, 1, i - 1) \in Seq(Mw) /\ SubSeq(mws, i, Len(mws)) \in Seq(Mw) /\ <<m>> \in Seq(Mw)
        BY DEF Fields
      <3>2. QED
        BY <3>1 DEF InsertAt
    <2>2. ASSUME NEW i \in 1..Len(mws) PROVE RemoveAt(mws, i) \in Seq(Mw)
      <3>1. SubSeq(mws, 1, i - 1) \in Seq(Mw) /\ SubSeq(mws, i + 1, Len(mws)) \in Seq(Mw)
        BY DEF Fields
      <3>2. QED
        BY <3>1 DEF RemoveAt
    <2>3. mws' \in Seq(Mw)
      BY <1>1, <2>1, <2>2 DEF MiddlewaresChange
    <2>4. QED
      BY <1>1, <2>3 DEF MiddlewaresChange, Fields
  <1>2. CASE ~MiddlewaresChange
    BY <1>2 DEF CallerCancels, RegistryChanges, Tick, Fields, vars
  <1>3. QED
    BY <1>1, <1>2

(* So does every step.                                                     *)
LEMMA NextFields == Fields /\ Begun /\ [Next]_vars => Fields'
  BY CreationFields, OpeningFields, BeforeFields, ExecuteFields, RunningFields, OnErrorFields,
     StreamFields, ClosingFields, EnvironmentFields DEF Next, Proceed

-----------------------------------------------------------------------------
(* Where a call can be.                                                    *)

(* The fields that an update leaves alone.                                 *)
LEMMA UpdateReads ==
  ASSUME NEW c \in Contexts
  PROVE  /\ \A x : LET d == [c EXCEPT !.token = x] IN
              /\ d.token = x /\ d.module = c.module /\ d.aclApproval = c.aclApproval
              /\ d.executed = c.executed /\ d.deadline = c.deadline
         /\ \A x : LET d == [c EXCEPT !.module = x] IN
              /\ d.token = c.token /\ d.module = x /\ d.aclApproval = c.aclApproval
              /\ d.executed = c.executed /\ d.deadline = c.deadline
         /\ \A x : LET d == [c EXCEPT !.aclApproval = x] IN
              /\ d.token = c.token /\ d.module = c.module /\ d.aclApproval = x
              /\ d.executed = c.executed /\ d.deadline = c.deadline
         /\ \A x : LET d == [c EXCEPT !.executed = x] IN
              /\ d.token = c.token /\ d.module = c.module /\ d.aclApproval = c.aclApproval
              /\ d.executed = x /\ d.deadline = c.deadline
         /\ \A x : LET d == [c EXCEPT !.output = x] IN
              /\ d.token = c.token /\ d.module = c.module /\ d.aclApproval = c.aclApproval
              /\ d.executed = c.executed /\ d.deadline = c.deadline
         /\ \A x : LET d == [c EXCEPT !.token = x, !.module = NoModule, !.output = FALSE, !.executed = 0] IN
              /\ d.token = x /\ d.module = NoModule /\ d.aclApproval = c.aclApproval
              /\ d.executed = 0 /\ d.deadline = c.deadline
  BY DEF Contexts

(* What context_creation leaves alone.                                     *)
LEMMA CreationReads ==
  ASSUME Fields, ContextCreation
  PROVE  /\ ctx'.token = ctx.token /\ ctx'.module = ctx.module /\ ctx'.aclApproval = ctx.aclApproval
         /\ ctx'.executed = ctx.executed /\ pc = "context" /\ pc' = "guard"
         /\ UNCHANGED <<err, result, failed, stage, cfg, seen>>
  <1>1. ctx' = [ctx EXCEPT !.caller = CallerOf(ctx.chain), !.chain = Append(@, Me), !.level = @ + 1,
                           !.deadline = IF @ = None /\ cfg.global > 0 THEN now + cfg.global ELSE @]
    BY ContinueContext DEF ContextCreation
  <1>2. pc = "context" /\ UNCHANGED <<err, result, failed, stage, cfg, seen>>
    BY ContinueContext DEF ContextCreation
  <1>3. pc' = "guard"
    BY LiveSteps, DrySteps DEF ContextCreation, Continue
  <1>4. QED
    BY <1>1, <1>2, <1>3 DEF Fields, Contexts

DryPlaces == {"entry", "context", "guard", "lookup", "acl", "input", "output", "report", "done"}
Early     == {"entry", "context", "guard", "lookup", "acl", "gate", "approval", "before", "before_hook"}

(* A dry run visits the pure steps only; no before() counts as executed    *)
(* before the hooks are done; an error or a result ends what it belongs to.*)
Stations ==
  /\ IF DryRun THEN pc \in DryPlaces ELSE pc # "report"
  /\ ~DryRun /\ pc \in Early => ctx.executed = 0
  /\ pc \notin {"on_error", "done"} => err = None
  /\ pc # "done" => result = None
  /\ "chunk_cancel" \notin Uses => CancelledNeverRecovered

(* What a step that succeeds or fails leaves, read from the context it     *)
(* leaves.                                                                 *)
Passed(s) == pc' = Following(s, ctx') /\ UNCHANGED <<err, result, failed>>
Failed(s, e) ==
  IF DryRun THEN pc' = Following(s, ctx') /\ UNCHANGED <<err, result>> /\ failed' = failed \cup {s}
  ELSE /\ failed' = failed
       /\ \/ pc' = "done" /\ err' = err /\ result' = "chunks"
          \/ pc' = "done" /\ err' = e /\ result' = e
          \/ pc' = "on_error" /\ err' = e /\ e # "cancelled" /\ ctx'.executed # 0 /\ result' = result

(* A failing step is a Failed one.                                         *)
LEMMA FailEffect == ASSUME NEW s, NEW e, NEW c, Fail(s, e, c) PROVE ctx' = c /\ Failed(s, e)
  BY DEF Fail, Surface, Finish, Recover, PostStreamFailure, Unrecoverable, Failed

(* A succeeding step is a Passed one.                                      *)
LEMMA ContinueEffect == ASSUME NEW s, NEW c, Continue(s, c) PROVE ctx' = c /\ Passed(s)
  BY DEF Continue, Passed

(* The steps that change the context, field by field.                      *)
LEMMA LookupEffect ==
  ASSUME Fields, ModuleLookup
  PROVE  /\ pc = "lookup" /\ UNCHANGED <<cfg, stage, seen>>
         /\ Passed("lookup") \/ \E e \in {"not_found", "disabled"} : Failed("lookup", e) /\ ctx' = ctx
         /\ ctx'.token = ctx.token /\ ctx'.aclApproval = ctx.aclApproval
         /\ ctx'.executed = ctx.executed /\ ctx'.deadline = ctx.deadline
  <1>1. /\ pc = "lookup" /\ UNCHANGED <<cfg, stage, seen>>
        /\ Passed("lookup") \/ \E e \in {"not_found", "disabled"} : Failed("lookup", e) /\ ctx' = ctx
        /\ ctx' = ctx \/ ctx' = [ctx EXCEPT !.module = reg.module]
    BY FailEffect, ContinueEffect DEF ModuleLookup
  <1>2. CASE ctx' = [ctx EXCEPT !.module = reg.module]
    BY <1>1, <1>2, UpdateReads DEF Fields
  <1>3. QED
    BY <1>1, <1>2

(* The ACL check changes aclApproval only.                                 *)
LEMMA ACLEffect ==
  ASSUME Fields, ACLCheck
  PROVE  /\ pc = "acl" /\ UNCHANGED <<cfg, stage>>
         /\ \/ Passed("acl") /\ (IF cfg.acl THEN seen' = [seen EXCEPT !.acl = TRUE] ELSE seen' = seen)
            \/ Failed("acl", "acl_denied") /\ seen' = seen
         /\ ctx'.token = ctx.token /\ ctx'.module = ctx.module
         /\ ctx'.executed = ctx.executed /\ ctx'.deadline = ctx.deadline
  <1>1. ctx' = ctx \/ \E x \in BOOLEAN : ctx' = [ctx EXCEPT !.aclApproval = x]
    BY FailEffect, ContinueEffect DEF ACLCheck
  <1>2. /\ pc = "acl" /\ UNCHANGED <<cfg, stage>>
        /\ \/ Passed("acl") /\ (IF cfg.acl THEN seen' = [seen EXCEPT !.acl = TRUE] ELSE seen' = seen)
           \/ Failed("acl", "acl_denied") /\ seen' = seen
    BY FailEffect, ContinueEffect DEF ACLCheck
  <1>3. ASSUME NEW x, ctx' = [ctx EXCEPT !.aclApproval = x]
        PROVE  /\ ctx'.token = ctx.token /\ ctx'.module = ctx.module
               /\ ctx'.executed = ctx.executed /\ ctx'.deadline = ctx.deadline
    BY <1>3, UpdateReads DEF Fields
  <1>4. QED
    BY <1>1, <1>2, <1>3

(* The gate takes the token out; it passes when nothing has to be          *)
(* approved.                                                               *)
LEMMA GateEffect ==
  ASSUME Fields, ApprovalGate
  PROVE  /\ pc = "gate" /\ UNCHANGED <<cfg, stage, seen>>
         /\ \/ Passed("gate") /\ (~NeedsApproval(ctx) \/ (~cfg.handler /\ ~cfg.strict))
            \/ \E e \in {"bad_token", "approval"} : Failed("gate", e)
            \/ pc' = "approval" /\ UNCHANGED <<err, failed, result>>
         /\ ctx'.token = "none" /\ ctx'.module = ctx.module /\ ctx'.aclApproval = ctx.aclApproval
         /\ ctx'.executed = ctx.executed /\ ctx'.deadline = ctx.deadline
  <1>1. /\ pc = "gate" /\ UNCHANGED <<cfg, stage, seen>>
        /\ \/ Passed("gate") /\ (~NeedsApproval(ctx) \/ (~cfg.handler /\ ~cfg.strict))
           \/ \E e \in {"bad_token", "approval"} : Failed("gate", e)
           \/ pc' = "approval" /\ UNCHANGED <<err, failed, result>>
    BY FailEffect, ContinueEffect DEF ApprovalGate
  <1>2. ctx' = [ctx EXCEPT !.token = "none"]
    BY FailEffect, ContinueEffect DEF ApprovalGate
  <1>3. QED
    BY <1>1, <1>2, UpdateReads DEF Fields

(* A before() hook.                                                        *)
LEMMA BeforeEffect ==
  ASSUME Fields, BeforeHook
  PROVE  /\ pc = "before_hook" /\ UNCHANGED <<cfg, stage>>
         /\ \/ Passed("before") /\ UNCHANGED <<hook, seen>>
            \/ \E e \in {"middleware", "cancelled"} : Failed("before", e)
            \/ /\ hook'.next = hook.next + 1 /\ hook'.list = hook.list
               /\ UNCHANGED <<ctx, pc, err, failed, result>>
         /\ seen'.acl = seen.acl /\ seen'.approved = seen.approved /\ seen'.told = seen.told
         /\ seen'.introspected = seen.introspected
         /\ ctx'.token = ctx.token /\ ctx'.module = ctx.module /\ ctx'.aclApproval = ctx.aclApproval
         /\ ctx'.deadline = ctx.deadline
  <1>1. /\ pc = "before_hook" /\ UNCHANGED <<cfg, stage>>
        /\ \/ Passed("before") /\ UNCHANGED <<hook, seen>>
           \/ \E e \in {"middleware", "cancelled"} : Failed("before", e)
           \/ hook' = [hook EXCEPT !.next = @ + 1] /\ UNCHANGED <<ctx, pc, err, failed, result>>
    BY FailEffect, ContinueEffect DEF BeforeHook
  <1>2. ctx' = ctx \/ \E x : ctx' = [ctx EXCEPT !.executed = x]
    BY FailEffect, ContinueEffect DEF BeforeHook
  <1>8. ASSUME NEW x, ctx' = [ctx EXCEPT !.executed = x]
        PROVE  /\ ctx'.token = ctx.token /\ ctx'.module = ctx.module /\ ctx'.aclApproval = ctx.aclApproval
               /\ ctx'.deadline = ctx.deadline
    BY <1>8, UpdateReads DEF Fields
  <1>3. /\ ctx'.token = ctx.token /\ ctx'.module = ctx.module /\ ctx'.aclApproval = ctx.aclApproval
        /\ ctx'.deadline = ctx.deadline
    BY <1>2, <1>8
  <1>4. seen' = seen \/ \E m : seen' = [seen EXCEPT !.ran = @ \cup {m}]
    BY DEF BeforeHook
  <1>5. /\ seen'.acl = seen.acl /\ seen'.approved = seen.approved /\ seen'.told = seen.told
        /\ seen'.introspected = seen.introspected
    BY <1>4 DEF Fields, Histories
  <1>6. hook' = [hook EXCEPT !.next = @ + 1] => hook'.next = hook.next + 1 /\ hook'.list = hook.list
    BY DEF Fields, HookLoops
  <1>7. QED
    BY <1>1, <1>3, <1>5, <1>6

(* None is neither an error nor a value.                                   *)
LEMMA NoneIsNoError == None \notin Errors /\ None \notin Values
  OBVIOUS

(* A call starts at a station.                                             *)
LEMMA InitStations == Init => Stations /\ Begun
  BY NoneIsNoError DEF Init, Stations, Begun, DryPlaces, CancelledNeverRecovered, Errors, Configs

(* The steps up to the approval lead to stations.                          *)
LEMMA OpeningStations ==
  ASSUME Fields, Stations,
         Enter \/ ContextCreation \/ CallChainGuard \/ ModuleLookup \/ ACLCheck \/ ApprovalGate \/ ApprovalAnswer
  PROVE  Stations' /\ Begun'
  <1> USE NoneIsNoError, LiveSteps, DrySteps
      DEF Stations, Begun, DryPlaces, Early, CancelledNeverRecovered, Errors, DryRun, Passed, Failed
  <1>1. CASE Enter
    BY <1>1 DEF Enter, Finish
  <1>2. CASE ContextCreation
    BY <1>2, CreationReads
  <1>3. CASE CallChainGuard
    BY <1>3, FailEffect, ContinueEffect DEF CallChainGuard
  <1>4. CASE ModuleLookup
    BY <1>4, LookupEffect
  <1>5. CASE ACLCheck
    BY <1>5, ACLEffect
  <1>6. CASE ApprovalGate
    BY <1>6, GateEffect
  <1>7. CASE ApprovalAnswer
    BY <1>7, FailEffect, ContinueEffect DEF ApprovalAnswer
  <1>8. QED
    BY <1>1, <1>2, <1>3, <1>4, <1>5, <1>6, <1>7

(* The return of a module.                                                 *)
LEMMA ReturnsEffect ==
  ASSUME Fields, ModuleReturns
  PROVE  /\ pc = "running" /\ UNCHANGED <<cfg, stage, seen>>
         /\ Passed("execute") \/ \E e \in {"module", "cancelled"} : Failed("execute", e)
         /\ ctx'.token = ctx.token /\ ctx'.module = ctx.module /\ ctx'.aclApproval = ctx.aclApproval
         /\ ctx'.executed = ctx.executed /\ ctx'.deadline = ctx.deadline
  <1>1. /\ pc = "running" /\ UNCHANGED <<cfg, stage, seen>>
        /\ Passed("execute") \/ \E e \in {"module", "cancelled"} : Failed("execute", e)
        /\ ctx' = ctx \/ ctx' = [ctx EXCEPT !.output = TRUE]
    BY FailEffect, ContinueEffect DEF ModuleReturns
  <1>2. CASE ctx' = [ctx EXCEPT !.output = TRUE]
    BY <1>1, <1>2, UpdateReads DEF Fields
  <1>3. QED
    BY <1>1, <1>2

(* The after() hooks.                                                      *)
LEMMA AfterEffect ==
  ASSUME Fields, MiddlewareAfter \/ AfterHook
  PROVE  /\ UNCHANGED <<cfg, stage, seen>>
         /\ \/ pc = "after" /\ pc' = "after_hook" /\ UNCHANGED <<err, failed, result>>
            \/ /\ pc = "after_hook"
               /\ \/ Passed("after") \/ UNCHANGED <<pc, err, failed, result>>
                  \/ \E e \in {"middleware", "cancelled"} : Failed("after", e)
         /\ ctx'.token = ctx.token /\ ctx'.module = ctx.module /\ ctx'.aclApproval = ctx.aclApproval
         /\ ctx'.executed = ctx.executed /\ ctx'.deadline = ctx.deadline
  <1>1. /\ UNCHANGED <<cfg, stage, seen>>
        /\ \/ pc = "after" /\ pc' = "after_hook" /\ UNCHANGED <<err, failed, result>>
           \/ /\ pc = "after_hook"
              /\ \/ Passed("after") \/ UNCHANGED <<pc, err, failed, result>>
                 \/ \E e \in {"middleware", "cancelled"} : Failed("after", e)
    BY FailEffect, ContinueEffect DEF MiddlewareAfter, AfterHook
  <1>2. ctx' = ctx \/ \E x \in BOOLEAN : ctx' = [ctx EXCEPT !.output = x]
    BY FailEffect, ContinueEffect DEF MiddlewareAfter, AfterHook
  <1>3. ASSUME NEW x, ctx' = [ctx EXCEPT !.output = x]
        PROVE  /\ ctx'.token = ctx.token /\ ctx'.module = ctx.module /\ ctx'.aclApproval = ctx.aclApproval
               /\ ctx'.executed = ctx.executed /\ ctx'.deadline = ctx.deadline
    BY <1>3, UpdateReads DEF Fields
  <1>4. QED
    BY <1>1, <1>2, <1>3

(* An on_error() hook: the next one, the end, or a retry from the start.   *)
LEMMA OnErrorEffect ==
  ASSUME Fields, OnErrorHook
  PROVE  /\ pc = "on_error" /\ UNCHANGED <<cfg, stage>>
         /\ \/ UNCHANGED <<pc, ctx, err, result>> /\ (seen' = seen \/ seen' = Told)
            \/ /\ pc' = "done" /\ UNCHANGED <<ctx, err>> /\ result' \in {err, "inputs", "recovered"}
               /\ seen' = seen \/ seen' = Told
            \/ /\ pc' = "context" /\ err' = None /\ result' = result /\ seen' = NoHistory
               /\ cfg.mode = "call" /\ ctx'.executed = 0 /\ ctx'.module = NoModule
  <1>1. /\ pc = "on_error" /\ UNCHANGED <<cfg, stage>>
        /\ \/ UNCHANGED <<pc, ctx, err, result>> /\ (seen' = seen \/ seen' = Told)
           \/ /\ pc' = "done" /\ UNCHANGED <<ctx, err>> /\ result' \in {err, "inputs", "recovered"}
              /\ seen' = seen \/ seen' = Told
           \/ ResetForRetry /\ cfg.mode = "call"
    BY DEF OnErrorHook, Finish
  <1>2. ASSUME NEW x, ctx' = [ctx EXCEPT !.token = x, !.module = NoModule, !.output = FALSE, !.executed = 0]
        PROVE  ctx'.executed = 0 /\ ctx'.module = NoModule
    BY <1>2, UpdateReads DEF Fields
  <1>3. QED
    BY <1>1, <1>2 DEF ResetForRetry

(* A chunk, an error of the stream, or its end.                            *)
LEMMA StreamEffect ==
  ASSUME Fields, StreamNext
  PROVE  /\ pc = "chunks" /\ UNCHANGED <<cfg, seen>>
         /\ \/ pc' = "chunks" /\ UNCHANGED <<stage, err, result>>
            \/ pc' = "done" /\ stage' = stage /\ err' = result' /\ result' \in {"timeout", "not_object", "module", "cancelled"}
            \/ /\ pc' = "on_error" /\ stage' = stage /\ result' = result
               /\ err' \in {"module"} \cup (IF "chunk_cancel" \in Uses THEN {"cancelled"} ELSE {})
            \/ pc' = "output" /\ stage' = "phase3" /\ UNCHANGED <<err, result>>
         /\ ctx'.token = ctx.token /\ ctx'.module = ctx.module /\ ctx'.aclApproval = ctx.aclApproval
         /\ ctx'.executed = ctx.executed /\ ctx'.deadline = ctx.deadline
  <1>1. /\ pc = "chunks" /\ UNCHANGED <<cfg, seen>>
        /\ \/ pc' = "chunks" /\ UNCHANGED <<stage, err, result>>
           \/ pc' = "done" /\ stage' = stage /\ err' = result' /\ result' \in {"timeout", "not_object", "module", "cancelled"}
           \/ /\ pc' = "on_error" /\ stage' = stage /\ result' = result
              /\ err' \in {"module"} \cup (IF "chunk_cancel" \in Uses THEN {"cancelled"} ELSE {})
           \/ pc' = "output" /\ stage' = "phase3" /\ UNCHANGED <<err, result>>
    BY DEF StreamNext, Finish, ChunkError, Surface, Recover, PostStream
  <1>2. ctx' = ctx \/ ctx' = [ctx EXCEPT !.output = TRUE]
    BY DEF StreamNext, PostStream
  <1>3. CASE ctx' = [ctx EXCEPT !.output = TRUE]
    BY <1>1, <1>3, UpdateReads DEF Fields
  <1>4. QED
    BY <1>1, <1>2, <1>3

(* The steps up to the after() hooks lead to stations.                     *)
LEMMA RunningStations ==
  ASSUME Fields, Begun, Stations,
         MiddlewareBefore \/ BeforeHook \/ InputValidation \/ Execute \/ ModuleReturns
           \/ InvocationTimesOut \/ OutputValidation \/ MiddlewareAfter \/ AfterHook
  PROVE  Stations' /\ Begun'
  <1> USE NoneIsNoError, LiveSteps, DrySteps
      DEF Stations, Begun, DryPlaces, Early, CancelledNeverRecovered, Errors, DryRun, Passed, Failed
  <1>1. CASE MiddlewareBefore
    BY <1>1 DEF MiddlewareBefore
  <1>2. CASE BeforeHook
    <2>1. hook.next \in Nat
      BY DEF Fields, HookLoops
    <2>2. Begun'
      BY <1>2, <2>1, BeforeEffect
    <2>3. Stations'
      BY <1>2, BeforeEffect
    <2>4. QED
      BY <2>2, <2>3
  <1>3. CASE InputValidation
    BY <1>3, FailEffect, ContinueEffect DEF InputValidation
  <1>4. CASE Execute
    BY <1>4, FailEffect DEF Execute
  <1>5. CASE ModuleReturns
    BY <1>5, ReturnsEffect
  <1>6. CASE InvocationTimesOut
    BY <1>6, FailEffect DEF InvocationTimesOut
  <1>7. CASE OutputValidation
    BY <1>7, FailEffect, ContinueEffect DEF OutputValidation
  <1>8. CASE MiddlewareAfter \/ AfterHook
    BY <1>8, AfterEffect
  <1>9. QED
    BY <1>1, <1>2, <1>3, <1>4, <1>5, <1>6, <1>7, <1>8

(* The steps that end a call or stream lead to stations.                   *)
LEMMA ClosingStations ==
  ASSUME Fields, Stations, ReturnResult \/ OnErrorHook \/ StreamOpen \/ StreamNext \/ Report
  PROVE  Stations' /\ Begun'
  <1> USE NoneIsNoError DEF Stations, Begun, DryPlaces, Early, CancelledNeverRecovered, Errors, DryRun
  <1>1. CASE ReturnResult
    BY <1>1 DEF ReturnResult, Finish
  <1>2. CASE OnErrorHook
    BY <1>2, OnErrorEffect
  <1>3. CASE StreamOpen
    BY <1>3 DEF StreamOpen, Finish, Fallback
  <1>4. CASE StreamNext
    BY <1>4, StreamEffect
  <1>5. CASE Report
    BY <1>5 DEF Report, Finish
  <1>6. QED
    BY <1>1, <1>2, <1>3, <1>4, <1>5

(* Every step leads to a station.                                          *)
LEMMA NextStations == Fields /\ Begun /\ Stations /\ [Next]_vars => Stations' /\ Begun'
  <1>1. ASSUME Fields, Begun, Stations, CallerCancels \/ RegistryChanges \/ MiddlewaresChange \/ Tick \/ UNCHANGED vars
        PROVE  Stations' /\ Begun'
    BY <1>1 DEF CallerCancels, RegistryChanges, MiddlewaresChange, Tick, vars, Stations, Begun, CancelledNeverRecovered, DryRun
  <1>2. QED
    BY <1>1, OpeningStations, RunningStations, ClosingStations DEF Next, Proceed

-----------------------------------------------------------------------------
(* The governance of an invocation, the token and the timer.               *)

(* What the updates of a history leave alone.                              *)
LEMMA HistoryReads ==
  ASSUME NEW h \in Histories
  PROVE  /\ \A x : LET g == [h EXCEPT !.acl = x] IN
              g.acl = x /\ g.approved = h.approved /\ g.introspected = h.introspected
         /\ \A x : LET g == [h EXCEPT !.approved = x] IN
              g.acl = h.acl /\ g.approved = x /\ g.introspected = h.introspected
         /\ \A x : LET g == [h EXCEPT !.introspected = x] IN
              g.acl = h.acl /\ g.approved = h.approved /\ g.introspected = x
         /\ \A m : LET g == [h EXCEPT !.told = @ \cup {m}] IN
              g.acl = h.acl /\ g.approved = h.approved /\ g.introspected = h.introspected
  BY DEF Histories

(* Some approval is needed for what was resolved, and the gate enforces it.*)
Demanded ==
  /\ (ctx.module = "gated" /\ cfg.policy # "waive") \/ ctx.aclApproval
  /\ cfg.handler \/ cfg.strict

(* Behind the ACL check this attempt was allowed, behind the gate it was   *)
(* approved; a dry run that resolved a module was allowed or failed.       *)
Governance ==
  /\ pc \in {"entry", "context", "guard", "lookup"} => ctx.module = NoModule
  /\ ~DryRun /\ pc \in {"gate", "approval", "before", "before_hook", "input", "execute", "running", "chunks"} =>
       (cfg.acl => seen.acl)
  /\ ~DryRun /\ pc \in {"before", "before_hook", "input", "execute", "running", "chunks"} =>
       (Demanded => seen.approved)
  /\ DryRun /\ pc \in {"input", "output", "report"} /\ ctx.module # NoModule =>
       (cfg.acl => seen.acl \/ "acl" \in failed)
  /\ seen.introspected => DryRun /\ (cfg.acl => seen.acl)

Kept == Governance /\ TokenIsStripped /\ BoundedByDeadline

(* Nothing is owed at the start.                                           *)
LEMMA InitKept == Init => Kept
  BY DEF Init, Kept, Governance, TokenIsStripped, BoundedByDeadline, Past, NoHistory

(* What the gate lets through unapproved demands no approval.              *)
LEMMA GateDemands ==
  ASSUME Fields, ~NeedsApproval(ctx) \/ (~cfg.handler /\ ~cfg.strict)
  PROVE  ~Demanded
  BY DEF Fields, Configs, NeedsApproval, PolicyNeeds, Demanded

(* The steps up to the approval keep the promises.                         *)
LEMMA OpeningKept ==
  ASSUME Fields, Stations, Kept,
         Enter \/ ContextCreation \/ CallChainGuard \/ ModuleLookup \/ ACLCheck \/ ApprovalGate \/ ApprovalAnswer
  PROVE  Kept'
  <1> USE LiveSteps, DrySteps
      DEF Stations, DryPlaces, Early, DryRun, Passed, Failed, Kept, Governance, Demanded, TokenIsStripped,
          BoundedByDeadline, Past, Pcs
  <1>1. CASE Enter
    BY <1>1 DEF Enter, Finish
  <1>2. CASE ContextCreation
    BY <1>2, CreationReads
  <1>3. CASE CallChainGuard
    BY <1>3, FailEffect, ContinueEffect DEF CallChainGuard
  <1>4. CASE ModuleLookup
    BY <1>4, LookupEffect
  <1>5. CASE ACLCheck
    <2>1. seen' = [seen EXCEPT !.acl = TRUE] =>
            seen'.acl /\ seen'.approved = seen.approved /\ seen'.introspected = seen.introspected
      BY HistoryReads DEF Fields
    <2>2. QED
      BY <1>5, <2>1, ACLEffect
  <1>6. CASE ApprovalGate
    BY <1>6, GateEffect, GateDemands
  <1>7. CASE ApprovalAnswer
    <2>1. seen' = [seen EXCEPT !.approved = TRUE] =>
            seen'.approved /\ seen'.acl = seen.acl /\ seen'.introspected = seen.introspected
      BY HistoryReads DEF Fields
    <2>2. /\ pc = "approval" /\ ctx' = ctx /\ UNCHANGED <<cfg, stage>>
          /\ \/ Passed("gate") /\ seen' = [seen EXCEPT !.approved = TRUE]
             \/ Failed("gate", "approval") /\ seen' = seen
      BY <1>7, FailEffect, ContinueEffect DEF ApprovalAnswer
    <2>3. QED
      BY <2>1, <2>2
  <1>8. QED
    BY <1>1, <1>2, <1>3, <1>4, <1>5, <1>6, <1>7

(* The timer of an invocation respects the deadline of the call.           *)
LEMMA TimerIsSet ==
  ASSUME Fields, Stations, Execute, pc' = "running"
  PROVE  ctx' = ctx /\ (ctx.deadline # None => timer' # None /\ timer' <= ctx.deadline)
  <1>1. ~DryRun /\ \A e : ~Failed("execute", e)
    BY DEF Execute, Stations, DryPlaces, Failed
  <1>2. /\ ~NegativeTimeout /\ ~DeadlinePassed /\ ctx' = ctx
        /\ timer' = IF EffectiveTimeout > 0 THEN now + EffectiveTimeout ELSE None
    BY <1>1, FailEffect DEF Execute
  <1>3. ASSUME ctx.deadline # None PROVE timer' # None /\ timer' <= ctx.deadline
    <2>1. ctx.deadline \in Nat /\ now \in Nat /\ now < ctx.deadline
      BY <1>2, <1>3, Reads DEF Fields, DeadlinePassed, Remaining
    <2>2. reg.timeout = None \/ reg.timeout \in Nat
      BY <1>2, Reads DEF NegativeTimeout
    <2>3. EffectiveTimeout \in 1..(ctx.deadline - now)
      BY <2>1, <2>2 DEF EffectiveTimeout, Remaining
    <2>4. QED
      BY <1>2, <2>1, <2>3
  <1>4. QED
    BY <1>2, <1>3

(* The steps up to the after() hooks keep the promises.                    *)
LEMMA RunningKept ==
  ASSUME Fields, Stations, Kept,
         MiddlewareBefore \/ BeforeHook \/ InputValidation \/ Execute \/ ModuleReturns
           \/ InvocationTimesOut \/ OutputValidation \/ MiddlewareAfter \/ AfterHook
  PROVE  Kept'
  <1> USE LiveSteps, DrySteps
      DEF Stations, DryPlaces, Early, DryRun, Passed, Failed, Kept, Governance, Demanded, TokenIsStripped,
          BoundedByDeadline, Past, Pcs
  <1>1. CASE MiddlewareBefore
    BY <1>1 DEF MiddlewareBefore
  <1>2. CASE BeforeHook
    BY <1>2, BeforeEffect
  <1>3. CASE InputValidation
    BY <1>3, FailEffect, ContinueEffect DEF InputValidation
  <1>4. CASE Execute
    <2>1. pc' = "running" => BoundedByDeadline'
      BY <1>4, TimerIsSet DEF Execute
    <2>2. QED
      BY <1>4, <2>1, FailEffect DEF Execute
  <1>5. CASE ModuleReturns
    BY <1>5, ReturnsEffect
  <1>6. CASE InvocationTimesOut
    BY <1>6, FailEffect DEF InvocationTimesOut
  <1>7. CASE OutputValidation
    BY <1>7, FailEffect, ContinueEffect DEF OutputValidation
  <1>8. CASE MiddlewareAfter \/ AfterHook
    BY <1>8, AfterEffect
  <1>9. QED
    BY <1>1, <1>2, <1>3, <1>4, <1>5, <1>6, <1>7, <1>8

(* The steps that end a call or stream keep the promises.                  *)
LEMMA ClosingKept ==
  ASSUME Fields, Stations, Kept, ReturnResult \/ OnErrorHook \/ StreamOpen \/ StreamNext \/ Report
  PROVE  Kept'
  <1> USE DEF Stations, DryPlaces, Early, DryRun, Kept, Governance, Demanded, TokenIsStripped,
          BoundedByDeadline, Past, Pcs
  <1>1. CASE ReturnResult
    BY <1>1 DEF ReturnResult, Finish
  <1>2. CASE OnErrorHook
    <2>1. seen' = Told =>
            seen'.approved = seen.approved /\ seen'.acl = seen.acl /\ seen'.introspected = seen.introspected
      BY HistoryReads DEF Fields, Told
    <2>2. QED
      BY <1>2, <2>1, OnErrorEffect DEF NoHistory
  <1>3. CASE StreamOpen
    BY <1>3 DEF StreamOpen, Finish, Fallback
  <1>4. CASE StreamNext
    BY <1>4, StreamEffect
  <1>5. CASE Report
    <2>1. /\ pc = "report" /\ pc' = "done" /\ seen' = [seen EXCEPT !.introspected = Introspects]
          /\ UNCHANGED <<cfg, ctx, failed>>
      BY <1>5 DEF Report, Finish
    <2>2. seen'.acl = seen.acl /\ seen'.introspected = Introspects
      BY <2>1, HistoryReads DEF Fields
    <2>3. QED
      BY <2>1, <2>2 DEF Introspects
  <1>6. QED
    BY <1>1, <1>2, <1>3, <1>4, <1>5

(* Every step keeps the promises.                                          *)
LEMMA NextKept == Fields /\ Stations /\ Kept /\ [Next]_vars => Kept'
  <1>1. ASSUME Fields, Kept, CallerCancels \/ RegistryChanges \/ MiddlewaresChange \/ Tick \/ UNCHANGED vars
        PROVE  Kept'
    BY <1>1 DEF CallerCancels, RegistryChanges, MiddlewaresChange, Tick, vars, Kept, Governance, Demanded,
                TokenIsStripped, BoundedByDeadline, DryRun
  <1>2. QED
    BY <1>1, OpeningKept, RunningKept, ClosingKept DEF Next, Proceed

IInv == Fields /\ Begun /\ Stations /\ Kept

(* IInv holds for any configuration, chain, middlewares and environment.   *)
THEOREM Invariance == Spec => []IInv
  <1>1. Init => IInv
    BY InitFields, InitStations, InitKept DEF IInv
  <1>2. IInv /\ [Next]_vars => IInv'
    BY NextFields, NextStations, NextKept DEF IInv
  <1>3. QED
    BY <1>1, <1>2, PTL DEF Spec

(* InvocationGoverned: module code runs (builtin_steps.rs, the execute     *)
(* step) only behind the ACL check and the approval of this attempt, and   *)
(* validate() introspects only for a caller the ACL allows.                *)
THEOREM Governed == Spec => []InvocationGoverned
  <1>1. IInv => InvocationGoverned
    BY DEF IInv, Stations, DryPlaces, Kept, Governance, Demanded, InvocationGoverned
  <1>2. QED
    BY <1>1, Invariance, PTL

(* CancelledNeverRecovered (D-20), as long as no stream fails with         *)
(* ExecutionCancelled at a chunk: recover_stream_chunk_error would hand it *)
(* to the on_error hooks.                                                  *)
THEOREM CancellationIsFinal == ASSUME "chunk_cancel" \notin Uses PROVE Spec => []CancelledNeverRecovered
  <1>1. IInv => CancelledNeverRecovered
    BY DEF IInv, Stations
  <1>2. QED
    BY <1>1, Invariance, PTL

(* BoundedByDeadline: resolve_effective_timeout_ms never lets an           *)
(* invocation                                                              *)
(* outlive the global deadline, whatever timeouts are configured.          *)
THEOREM DeadlineBounds == Spec => []BoundedByDeadline
  <1>1. IInv => BoundedByDeadline
    BY DEF IInv, Kept
  <1>2. QED
    BY <1>1, Invariance, PTL

(* TokenIsStripped: behind the approval gate no step sees _approval_token, *)
(* whatever the inputs of a retry.                                         *)
THEOREM TokenStripped == Spec => []TokenIsStripped
  <1>1. IInv => TokenIsStripped
    BY DEF IInv, Kept
  <1>2. QED
    BY <1>1, Invariance, PTL

-----------------------------------------------------------------------------
(* on_error over the middlewares whose before() ran.                       *)

(* While nobody adds or removes middlewares, every hook loop goes over the *)
(* same list, and what counts as executed has run.                         *)
Ordered ==
  /\ pc = "before_hook" =>
       hook.list = mws /\ \A i \in 1..Len(mws) : i < hook.next => mws[i] \in seen.ran
  /\ \A i \in 1..Len(mws) : i <= ctx.executed => mws[i] \in seen.ran
  /\ pc = "on_error" => hook.list = mws /\ hook.next <= ctx.executed
  /\ seen.told \subseteq seen.ran

(* No hook has run at the start.                                           *)
LEMMA InitOrdered == Init => Ordered
  BY DEF Init, Ordered, NoHistory

(* The on_error loop starts at the middlewares that count as executed.     *)
LEMMA FailHook ==
  ASSUME NEW s, NEW e, NEW c, Fail(s, e, c), pc' = "on_error", ~DryRun
  PROVE  ctx' = c /\ hook' = [list |-> mws, next |-> c.executed]
  BY DEF Fail, Surface, Finish, Recover, PostStreamFailure

(* What the updates of a history do to the hooks that ran.                 *)
LEMMA RanReads ==
  ASSUME NEW h \in Histories
  PROVE  /\ \A x : LET g == [h EXCEPT !.acl = x] IN g.ran = h.ran /\ g.told = h.told
         /\ \A x : LET g == [h EXCEPT !.approved = x] IN g.ran = h.ran /\ g.told = h.told
         /\ \A x : LET g == [h EXCEPT !.introspected = x] IN g.ran = h.ran /\ g.told = h.told
         /\ \A m : LET g == [h EXCEPT !.ran = @ \cup {m}] IN g.ran = h.ran \cup {m} /\ g.told = h.told
         /\ \A m : LET g == [h EXCEPT !.told = @ \cup {m}] IN g.ran = h.ran /\ g.told = h.told \cup {m}
  BY DEF Histories

(* The steps before and behind the hooks.                                  *)
LEMMA OrderedElsewhere ==
  ASSUME Fields, Stations, Stations', Ordered,
         \/ Enter \/ ContextCreation \/ CallChainGuard \/ ModuleLookup \/ ACLCheck \/ ApprovalGate \/ ApprovalAnswer
         \/ MiddlewareBefore \/ InputValidation \/ Execute \/ ModuleReturns \/ InvocationTimesOut
         \/ OutputValidation \/ MiddlewareAfter \/ AfterHook \/ ReturnResult \/ StreamOpen \/ StreamNext \/ Report
  PROVE  Ordered'
  <1>1. UNCHANGED mws
    BY DEF env, Enter, ContextCreation, CallChainGuard, ModuleLookup, ACLCheck, ApprovalGate, ApprovalAnswer,
           MiddlewareBefore, InputValidation, Execute, ModuleReturns, InvocationTimesOut, OutputValidation,
           MiddlewareAfter, AfterHook, ReturnResult, StreamOpen, StreamNext, Report
  <1>2. ctx'.executed = ctx.executed
    <2>1. CASE Enter \/ CallChainGuard \/ ApprovalAnswer \/ MiddlewareBefore \/ InputValidation \/ Execute
                 \/ InvocationTimesOut \/ OutputValidation \/ ReturnResult \/ StreamOpen \/ Report
      BY <2>1, FailEffect, ContinueEffect
         DEF Enter, CallChainGuard, ApprovalAnswer, MiddlewareBefore, InputValidation, Execute,
             InvocationTimesOut, OutputValidation, ReturnResult, StreamOpen, Report
    <2>2. QED
      BY <2>1, CreationReads, LookupEffect, ACLEffect, GateEffect, ReturnsEffect, AfterEffect, StreamEffect
  <1>3. seen'.ran = seen.ran /\ seen'.told = seen.told
    <2>1. \/ seen' = seen \/ seen' = [seen EXCEPT !.acl = TRUE] \/ seen' = [seen EXCEPT !.approved = TRUE]
          \/ seen' = [seen EXCEPT !.introspected = Introspects]
      BY DEF Enter, ContextCreation, CallChainGuard, ModuleLookup, ACLCheck, ApprovalGate, ApprovalAnswer,
             MiddlewareBefore, InputValidation, Execute, ModuleReturns, InvocationTimesOut, OutputValidation,
             MiddlewareAfter, AfterHook, ReturnResult, StreamOpen, StreamNext, Report
    <2>2. CASE seen' = [seen EXCEPT !.acl = TRUE]
      BY <2>2, RanReads DEF Fields
    <2>3. CASE seen' = [seen EXCEPT !.approved = TRUE]
      BY <2>3, RanReads DEF Fields
    <2>4. CASE seen' = [seen EXCEPT !.introspected = Introspects]
      BY <2>4, RanReads DEF Fields
    <2>5. QED
      BY <2>1, <2>2, <2>3, <2>4
  <1>4. pc' = "before_hook" => hook' = [list |-> mws, next |-> 1]
    BY LiveSteps, DrySteps, FailEffect, ContinueEffect, CreationReads, LookupEffect, ACLEffect, GateEffect,
       ReturnsEffect, AfterEffect, StreamEffect
       DEF Enter, Finish, CallChainGuard, ApprovalAnswer, MiddlewareBefore, InputValidation, Execute,
           InvocationTimesOut, OutputValidation, ReturnResult, StreamOpen, Fallback, Report, Stations,
           DryPlaces, Passed, Failed
  <1>5. ASSUME pc' = "on_error" PROVE hook' = [list |-> mws, next |-> ctx'.executed]
    <2>1. UNCHANGED cfg
      BY DEF Enter, ContextCreation, CallChainGuard, ModuleLookup, ACLCheck, ApprovalGate, ApprovalAnswer,
             MiddlewareBefore, InputValidation, Execute, ModuleReturns, InvocationTimesOut, OutputValidation,
             MiddlewareAfter, AfterHook, ReturnResult, StreamOpen, StreamNext, Report
    <2>2. ~DryRun
      BY <1>5, <2>1 DEF Stations, DryPlaces, DryRun
    <2>3. \A c : \A s \in {"context", "guard", "lookup", "acl", "gate", "input", "execute", "output", "after"} :
            ~Continue(s, c)
      BY <1>5, <2>2, LiveSteps DEF Continue
    <2>4. \A s, e, c : Fail(s, e, c) => hook' = [list |-> mws, next |-> ctx'.executed]
      BY <1>5, <2>2, FailHook
    <2>5. CASE StreamNext
      <3>1. ctx' = ctx /\ hook' = [list |-> mws, next |-> ctx.executed]
        BY <1>5, <2>5 DEF StreamNext, Finish, ChunkError, Surface, Recover, PostStream
      <3>2. QED
        BY <3>1
    <2>6. CASE Enter \/ MiddlewareBefore \/ MiddlewareAfter \/ ReturnResult \/ StreamOpen \/ Report
      BY <1>5, <2>6 DEF Enter, Finish, MiddlewareBefore, MiddlewareAfter, ReturnResult, StreamOpen, Fallback, Report
    <2>7. CASE AfterHook
      BY <1>5, <2>3, <2>4, <2>7, AfterEffect DEF AfterHook
    <2>8. QED
      BY <1>5, <2>3, <2>4, <2>5, <2>6, <2>7
         DEF ContextCreation, CallChainGuard, ModuleLookup, ACLCheck, ApprovalGate, ApprovalAnswer, InputValidation,
             Execute, ModuleReturns, InvocationTimesOut, OutputValidation
  <1>6. ctx.executed \in Nat
    BY Reads
  <1>7. QED
    BY <1>1, <1>2, <1>3, <1>4, <1>5, <1>6 DEF Ordered

(* A before() hook, and the one that fails, count as run.                  *)
LEMMA OrderedBefore == Fields /\ Begun /\ Stations /\ Ordered /\ BeforeHook => Ordered'
  <1> SUFFICES ASSUME Fields, Begun, Stations, Ordered, BeforeHook PROVE Ordered'
    OBVIOUS
  <1>1. /\ pc = "before_hook" /\ ~DryRun /\ hook.list = mws /\ UNCHANGED <<cfg, mws>>
        /\ \A i \in 1..Len(mws) : i < hook.next => mws[i] \in seen.ran
        /\ seen.told \subseteq seen.ran
    BY DEF BeforeHook, Stations, DryPlaces, Ordered, env
  <1>2. hook.next \in Nat /\ hook.next >= 1 /\ Len(mws) \in Nat
    BY <1>1, HookUpdates DEF Fields, Begun
  <1>3. CASE hook.next > Len(hook.list)
    <2>1. ctx' = [ctx EXCEPT !.executed = Len(hook.list)] /\ seen' = seen /\ Passed("before")
      BY <1>2, <1>3, ContinueEffect DEF BeforeHook
    <2>2. ctx'.executed = Len(mws)
      BY <1>1, <2>1, UpdateReads DEF Fields
    <2>3. pc' = "input"
      BY <1>1, <2>1, LiveSteps DEF Passed
    <2>4. QED
      BY <1>1, <1>2, <1>3, <2>1, <2>2, <2>3 DEF Ordered
  <1>4. CASE hook.next <= Len(hook.list)
    <2>1. seen' = [seen EXCEPT !.ran = @ \cup {mws[hook.next]}]
      BY <1>1, <1>2, <1>4 DEF BeforeHook
    <2>2. seen'.ran = seen.ran \cup {mws[hook.next]} /\ seen'.told = seen.told
      BY <2>1, RanReads DEF Fields
    <2>3. \A i \in 1..Len(mws) : i < hook.next + 1 => mws[i] \in seen'.ran
      BY <1>1, <1>2, <2>2
    <2>4. CASE hook' = [hook EXCEPT !.next = @ + 1] /\ UNCHANGED <<ctx, pc>>
      <3>1. hook'.list = hook.list /\ hook'.next = hook.next + 1
        BY <2>4 DEF Fields, HookLoops
      <3>2. QED
        BY <1>1, <2>2, <2>3, <2>4, <3>1 DEF Ordered
    <2>5. ASSUME NEW e, Fail("before", e, [ctx EXCEPT !.executed = hook.next]) PROVE Ordered'
      <3> DEFINE c == [ctx EXCEPT !.executed = hook.next]
      <3>1. c.executed = hook.next
        BY UpdateReads DEF Fields
      <3>2. ctx' = c /\ Failed("before", e) /\ (pc' = "on_error" => hook' = [list |-> mws, next |-> c.executed])
        BY <1>1, <2>5, FailEffect, FailHook
      <3> HIDE DEF c
      <3>3. pc' # "before_hook"
        BY <1>1, <3>2 DEF Failed
      <3>4. QED
        BY <1>1, <1>2, <2>2, <2>3, <3>1, <3>2, <3>3 DEF Ordered
    <2>6. \/ hook' = [hook EXCEPT !.next = @ + 1] /\ UNCHANGED <<ctx, pc>>
          \/ \E e : Fail("before", e, [ctx EXCEPT !.executed = hook.next])
      <3>1. ~(hook.next > Len(hook.list))
        BY <1>1, <1>2, <1>4
      <3>2. QED
        BY <3>1 DEF BeforeHook
    <2>7. QED
      BY <2>4, <2>5, <2>6
  <1>5. QED
    BY <1>1, <1>2, <1>3, <1>4

(* on_error() is told to what ran.                                         *)
LEMMA OrderedOnError == Fields /\ Ordered /\ OnErrorHook => Ordered'
  <1> SUFFICES ASSUME Fields, Ordered, OnErrorHook PROVE Ordered'
    OBVIOUS
  <1>1. pc = "on_error" /\ hook.list = mws /\ hook.next <= ctx.executed /\ UNCHANGED mws
    BY DEF OnErrorHook, Ordered, env
  <1>2. hook.next \in Nat /\ Len(mws) \in Nat /\ ctx.executed \in Nat
    BY <1>1, HookUpdates, Reads DEF Fields
  <1>3. hook.next \in 1..Len(hook.list) =>
          /\ Told.ran = seen.ran /\ Told.told = seen.told \cup {mws[hook.next]} /\ mws[hook.next] \in seen.ran
    BY <1>1, <1>2, RanReads DEF Fields, Ordered, Told
  <1>4. hook'.list = hook.list /\ hook'.next <= hook.next /\ hook'.next \in Int
    <2>1. hook' = hook \/ hook' = [hook EXCEPT !.next = @ - 1]
      BY DEF OnErrorHook
    <2>2. CASE hook' = [hook EXCEPT !.next = @ - 1]
      BY <1>2, <2>2 DEF Fields, HookLoops
    <2>3. QED
      BY <1>2, <2>1, <2>2
  <1>5. CASE pc' = "context"
    <2>1. ctx'.executed = 0 /\ seen' = NoHistory
      BY <1>1, <1>5, OnErrorEffect
    <2>2. QED
      BY <1>2, <1>5, <2>1 DEF Ordered, NoHistory
  <1>6. CASE pc' # "context"
    <2>1. ctx' = ctx /\ pc' # "before_hook"
      BY <1>1, <1>6, OnErrorEffect
    <2>2. IF hook.next \in 1..Len(hook.list) THEN seen' = seen \/ seen' = Told ELSE seen' = seen
      BY <1>1, <1>2, <1>6 DEF OnErrorHook, ResetForRetry
    <2>3. seen'.ran = seen.ran /\ seen'.told \subseteq seen'.ran
      BY <1>3, <2>2 DEF Ordered
    <2>4. QED
      BY <1>1, <1>2, <1>4, <2>1, <2>3 DEF Ordered
  <1>7. QED
    BY <1>5, <1>6

(* The environment leaves the hooks alone.                                 *)
LEMMA EnvironmentOrdered ==
  ASSUME Ordered, "middlewares" \notin Uses,
         CallerCancels \/ RegistryChanges \/ MiddlewaresChange \/ Tick \/ UNCHANGED vars
  PROVE  Ordered'
  BY DEF CallerCancels, RegistryChanges, MiddlewaresChange, Tick, vars, Ordered

(* OnErrorMatchesBefore, while nobody adds or removes middlewares:         *)
(* on_error                                                                *)
(* selects by index in a fresh snapshot (manager.rs).                      *)
THEOREM OnErrorFollowsBefore == ASSUME "middlewares" \notin Uses PROVE Spec => []OnErrorMatchesBefore
  <1>1. Init => Ordered
    BY InitOrdered
  <1>2. IInv /\ IInv' /\ Ordered /\ [Next]_vars => Ordered'
    <2> SUFFICES ASSUME IInv, IInv', Ordered, [Next]_vars PROVE Ordered'
      OBVIOUS
    <2>1. Fields /\ Begun /\ Stations /\ Stations'
      BY DEF IInv
    <2>2. QED
      BY <2>1, OrderedElsewhere, OrderedBefore, OrderedOnError, EnvironmentOrdered DEF Next, Proceed
  <1>3. Ordered => OnErrorMatchesBefore
    BY DEF Ordered, OnErrorMatchesBefore
  <1>4. QED
    BY <1>1, <1>2, <1>3, Invariance, PTL DEF Spec

-----------------------------------------------------------------------------
(* Types.                                                                  *)

(* Each attempt adds Me to the chain and a token to the token chain, and   *)
(* the guard stops the attempt that is one too many.                       *)
Counted ==
  /\ ctx.level <= Cardinality(Occurrences(ctx.chain))
  /\ ~DryRun => ctx.level <= MaxModuleRepeat + 1
  /\ ~DryRun /\ pc \notin {"guard", "done"} => ctx.level <= MaxModuleRepeat
  /\ DryRun => IF pc \in {"entry", "context"} THEN ctx.level = 0 ELSE ctx.level <= 1

Typed ==
  /\ pc \in Pcs /\ stage \in {"main", "fallback", "chunks", "phase3"}
  /\ err \in Errors \cup {None} /\ result \in Values \cup Errors \cup {None}
  /\ cancelled \subseteq 0..(MaxModuleRepeat + 1)

(* The places of Me in a chain; each attempt appends one.                  *)
LEMMA OccurrencesCount ==
  ASSUME NEW chain \in Seq({Me, "caller"})
  PROVE  /\ Cardinality(Occurrences(chain)) \in Nat
         /\ Cardinality(Occurrences(Append(chain, Me))) = Cardinality(Occurrences(chain)) + 1
  <1>1. Len(chain) \in Nat
    OBVIOUS
  <1>2. IsFiniteSet(1..Len(chain))
    BY <1>1, FS_Interval
  <1>3. Occurrences(chain) \subseteq 1..Len(chain)
    BY DEF Occurrences
  <1>4. IsFiniteSet(Occurrences(chain))
    BY <1>2, <1>3, FS_Subset
  <1>5. /\ Occurrences(Append(chain, Me)) = Occurrences(chain) \cup {Len(chain) + 1}
        /\ Len(chain) + 1 \notin Occurrences(chain)
    BY <1>1 DEF Occurrences
  <1>6. QED
    BY <1>4, <1>5, FS_CardinalityType, FS_AddElement

(* What the updates of a context do to its chain: nothing.                 *)
LEMMA LevelReads ==
  ASSUME NEW c \in Contexts
  PROVE  /\ \A x : LET d == [c EXCEPT !.token = x] IN d.level = c.level /\ d.chain = c.chain
         /\ \A x : LET d == [c EXCEPT !.module = x] IN d.level = c.level /\ d.chain = c.chain
         /\ \A x : LET d == [c EXCEPT !.aclApproval = x] IN d.level = c.level /\ d.chain = c.chain
         /\ \A x : LET d == [c EXCEPT !.executed = x] IN d.level = c.level /\ d.chain = c.chain
         /\ \A x : LET d == [c EXCEPT !.output = x] IN d.level = c.level /\ d.chain = c.chain
         /\ \A x : LET d == [c EXCEPT !.token = x, !.module = NoModule, !.output = FALSE, !.executed = 0] IN
              d.level = c.level /\ d.chain = c.chain
  BY DEF Contexts

(* Only context_creation adds a level and a link of the chain.             *)
LEMMA LevelStays ==
  ASSUME Fields, Proceed \/ ModuleReturns, ~ContextCreation
  PROVE  ctx'.level = ctx.level /\ ctx'.chain = ctx.chain
  <1>1. CASE Enter \/ CallChainGuard \/ ApprovalAnswer \/ MiddlewareBefore \/ InputValidation \/ Execute
               \/ InvocationTimesOut \/ OutputValidation \/ ReturnResult \/ StreamOpen \/ Report
    BY <1>1, FailEffect, ContinueEffect
       DEF Enter, CallChainGuard, ApprovalAnswer, MiddlewareBefore, InputValidation, Execute,
           InvocationTimesOut, OutputValidation, ReturnResult, StreamOpen, Report
  <1>2. CASE ModuleLookup
    <2>1. ctx' = ctx \/ ctx' = [ctx EXCEPT !.module = reg.module]
      BY <1>2, FailEffect, ContinueEffect DEF ModuleLookup
    <2>2. CASE ctx' = [ctx EXCEPT !.module = reg.module]
      BY <2>2, LevelReads DEF Fields
    <2>3. QED
      BY <2>1, <2>2
  <1>3. CASE ACLCheck
    <2>1. ctx' = ctx \/ \E x \in BOOLEAN : ctx' = [ctx EXCEPT !.aclApproval = x]
      BY <1>3, FailEffect, ContinueEffect DEF ACLCheck
    <2>2. ASSUME NEW x, ctx' = [ctx EXCEPT !.aclApproval = x]
          PROVE  ctx'.level = ctx.level /\ ctx'.chain = ctx.chain
      BY <2>2, LevelReads DEF Fields
    <2>3. QED
      BY <2>1, <2>2
  <1>4. CASE ApprovalGate
    <2>1. ctx' = [ctx EXCEPT !.token = "none"]
      BY <1>4, FailEffect, ContinueEffect DEF ApprovalGate
    <2>2. QED
      BY <2>1, LevelReads DEF Fields
  <1>5. CASE BeforeHook
    <2>1. ctx' = ctx \/ \E x : ctx' = [ctx EXCEPT !.executed = x]
      BY <1>5, FailEffect, ContinueEffect DEF BeforeHook
    <2>2. ASSUME NEW x, ctx' = [ctx EXCEPT !.executed = x]
          PROVE  ctx'.level = ctx.level /\ ctx'.chain = ctx.chain
      BY <2>2, LevelReads DEF Fields
    <2>3. QED
      BY <2>1, <2>2
  <1>6. CASE ModuleReturns \/ MiddlewareAfter \/ AfterHook \/ StreamNext
    <2>1. ctx' = ctx \/ \E x : ctx' = [ctx EXCEPT !.output = x]
      BY <1>6, FailEffect, ContinueEffect DEF ModuleReturns, MiddlewareAfter, AfterHook, StreamNext, PostStream
    <2>2. ASSUME NEW x, ctx' = [ctx EXCEPT !.output = x]
          PROVE  ctx'.level = ctx.level /\ ctx'.chain = ctx.chain
      BY <2>2, LevelReads DEF Fields
    <2>3. QED
      BY <2>1, <2>2
  <1>7. CASE OnErrorHook
    <2>1. \/ ctx' = ctx
          \/ \E x : ctx' = [ctx EXCEPT !.token = x, !.module = NoModule, !.output = FALSE, !.executed = 0]
      BY <1>7 DEF OnErrorHook, ResetForRetry
    <2>2. ASSUME NEW x, ctx' = [ctx EXCEPT !.token = x, !.module = NoModule, !.output = FALSE, !.executed = 0]
          PROVE  ctx'.level = ctx.level /\ ctx'.chain = ctx.chain
      BY <2>2, LevelReads DEF Fields
    <2>3. QED
      BY <2>1, <2>2
  <1>8. QED
    BY <1>1, <1>2, <1>3, <1>4, <1>5, <1>6, <1>7 DEF Proceed

(* context_creation counts.                                                *)
LEMMA CreationCounted ==
  ASSUME Fields, Counted, ContextCreation
  PROVE  Counted' /\ ctx'.level \in 0..(MaxModuleRepeat + 1)
  <1>1. pc = "context" /\ pc' = "guard" /\ UNCHANGED cfg
    BY CreationReads
  <1>2. ctx' = [ctx EXCEPT !.caller = CallerOf(ctx.chain), !.chain = Append(@, Me), !.level = @ + 1,
                           !.deadline = IF @ = None /\ cfg.global > 0 THEN now + cfg.global ELSE @]
    BY ContinueContext DEF ContextCreation
  <1>3. ctx'.level = ctx.level + 1 /\ ctx'.chain = Append(ctx.chain, Me)
    BY <1>2 DEF Fields, Contexts
  <1>4. /\ Cardinality(Occurrences(ctx.chain)) \in Nat
        /\ Cardinality(Occurrences(ctx'.chain)) = Cardinality(Occurrences(ctx.chain)) + 1
    BY <1>3, Reads, OccurrencesCount
  <1>5. Cardinality(Occurrences(ctx.chain))' = Cardinality(Occurrences(ctx'.chain))
    BY DEF Occurrences
  <1>6. ctx.level \in Nat
    BY Reads
  <1>7. QED
    BY <1>1, <1>3, <1>4, <1>5, <1>6 DEF Counted, DryRun

(* The guard lets a chain pass only with room for one more attempt.        *)
LEMMA GuardCounted ==
  ASSUME Fields, Stations, Counted, CallChainGuard, ~DryRun
  PROVE  pc' = "done" \/ ctx.level <= MaxModuleRepeat
  <1>1. CASE GuardCallChain(ctx.chain)
    <2>1. Cardinality(Occurrences(ctx.chain)) <= MaxModuleRepeat
      BY <1>1 DEF GuardCallChain
    <2>2. Cardinality(Occurrences(ctx.chain)) \in Nat /\ ctx.level \in Nat
      BY Reads, OccurrencesCount
    <2>3. QED
      BY <2>1, <2>2 DEF Counted
  <1>2. CASE ~GuardCallChain(ctx.chain)
    BY <1>2, FailEffect DEF CallChainGuard, Failed, Stations, Early
  <1>3. QED
    BY <1>1, <1>2

(* Where the other steps lead.                                             *)
LEMMA Progress ==
  ASSUME Fields, Stations, Proceed \/ ModuleReturns, ~ContextCreation
  PROVE  /\ pc \notin {"done", "context"} /\ UNCHANGED cfg
         /\ DryRun => pc' # "entry" /\ (pc' = "context" => pc = "entry")
         /\ pc = "guard" => CallChainGuard
  <1> USE DEF Stations, DryPlaces, DryRun, Passed, Failed
  <1>1. CASE Enter \/ MiddlewareBefore \/ ReturnResult \/ StreamOpen \/ Report
    BY <1>1 DEF Enter, Finish, MiddlewareBefore, ReturnResult, StreamOpen, Fallback, Report
  <1>2. CASE CallChainGuard \/ ApprovalAnswer \/ InputValidation \/ Execute \/ InvocationTimesOut \/ OutputValidation
    BY <1>2, FailEffect, ContinueEffect, LiveSteps, DrySteps
       DEF CallChainGuard, ApprovalAnswer, InputValidation, Execute, InvocationTimesOut, OutputValidation
  <1>3. CASE ModuleLookup \/ ACLCheck \/ ApprovalGate \/ BeforeHook \/ ModuleReturns \/ MiddlewareAfter \/ AfterHook
    BY <1>3, LookupEffect, ACLEffect, GateEffect, BeforeEffect, ReturnsEffect, AfterEffect, LiveSteps, DrySteps
  <1>4. CASE OnErrorHook \/ StreamNext
    BY <1>4, OnErrorEffect, StreamEffect
  <1>5. QED
    BY <1>1, <1>2, <1>3, <1>4 DEF Proceed

(* Every step keeps the count.                                             *)
LEMMA NextCounted == Fields /\ Stations /\ Counted /\ [Next]_vars => Counted' /\ (ctx'.level \in 0..(MaxModuleRepeat + 1))
  <1> SUFFICES ASSUME Fields, Stations, Counted, [Next]_vars
               PROVE  Counted' /\ ctx'.level \in 0..(MaxModuleRepeat + 1)
    OBVIOUS
  <1>1. CASE ContextCreation
    BY <1>1, CreationCounted
  <1>2. CASE (Proceed \/ ModuleReturns) /\ ~ContextCreation
    <2>1. ctx'.level = ctx.level /\ ctx'.chain = ctx.chain /\ ctx.level \in Nat
      BY <1>2, LevelStays, Reads
    <2>2. Cardinality(Occurrences(ctx.chain))' = Cardinality(Occurrences(ctx.chain))
      BY <2>1 DEF Occurrences
    <2>3. QED
      BY <1>2, <2>1, <2>2, Progress, GuardCounted DEF Counted, DryRun
  <1>3. CASE CallerCancels \/ RegistryChanges \/ MiddlewaresChange \/ Tick \/ UNCHANGED vars
    <2>1. UNCHANGED <<ctx, pc, cfg>>
      BY <1>3 DEF CallerCancels, RegistryChanges, MiddlewaresChange, Tick, vars
    <2>2. QED
      BY <2>1, Reads DEF Counted, DryRun, Occurrences
  <1>4. QED
    BY <1>1, <1>2, <1>3 DEF Next

(* Every step keeps the remaining types.                                   *)
LEMMA TypedNext == Fields /\ Stations /\ Counted /\ Typed /\ [Next]_vars => Typed'
  <1> SUFFICES ASSUME Fields, Stations, Counted, Typed, [Next]_vars PROVE Typed'
    OBVIOUS
  <1> DEFINE Levels == 0..(MaxModuleRepeat + 1)
  <1>1. ctx.level \in Levels /\ 0 \in Levels /\ cancelled \subseteq Levels
    BY Reads DEF Counted, Typed
  <1>types. (Typed <=> /\ pc \in Pcs /\ stage \in {"main", "fallback", "chunks", "phase3"}
                    /\ err \in Errors \cup {None} /\ result \in Values \cup Errors \cup {None}
                    /\ cancelled \subseteq Levels)'
    BY DEF Typed
  <1> HIDE DEF Levels
  <1>cancels. ASSUME Execute \/ InvocationTimesOut PROVE cancelled' \subseteq Levels
    <2>1. cancelled' = cancelled \/ cancelled' = cancelled \cup {ctx.level}
      BY <1>cancels DEF Execute, InvocationTimesOut
    <2>2. QED
      BY <1>1, <2>1
  <1> USE LiveSteps, DrySteps DEF Typed, Stations, DryPlaces, Pcs, Errors, Values, DryRun, Passed, Failed
  <1>2. CASE Enter \/ MiddlewareBefore \/ ReturnResult \/ StreamOpen \/ Report
    BY <1>2 DEF Enter, Finish, MiddlewareBefore, ReturnResult, StreamOpen, Fallback, Report
  <1>3. CASE CallChainGuard \/ ApprovalAnswer \/ InputValidation \/ OutputValidation
    BY <1>3, FailEffect, ContinueEffect DEF CallChainGuard, ApprovalAnswer, InputValidation, OutputValidation
  <1>4. CASE Execute \/ InvocationTimesOut
    <2>1. cancelled' \subseteq Levels
      BY <1>4, <1>cancels
    <2>2. /\ pc' \in Pcs /\ stage' \in {"main", "fallback", "chunks", "phase3"}
          /\ err' \in Errors \cup {None} /\ result' \in Values \cup Errors \cup {None}
      BY <1>4, FailEffect DEF Execute, InvocationTimesOut
    <2>3. QED
      BY <1>types, <2>1, <2>2
  <1>5. CASE ContextCreation
    BY <1>5, CreationReads DEF ContextCreation
  <1>6. CASE ModuleLookup \/ ACLCheck \/ ApprovalGate
    BY <1>6, LookupEffect, ACLEffect, GateEffect DEF ModuleLookup, ACLCheck, ApprovalGate
  <1>7. CASE BeforeHook \/ ModuleReturns \/ MiddlewareAfter \/ AfterHook
    BY <1>7, BeforeEffect, ReturnsEffect, AfterEffect DEF BeforeHook, ModuleReturns, MiddlewareAfter, AfterHook
  <1>8. CASE OnErrorHook \/ StreamNext
    BY <1>8, OnErrorEffect, StreamEffect DEF OnErrorHook, StreamNext
  <1>9. CASE CallerCancels \/ RegistryChanges \/ MiddlewaresChange \/ Tick \/ UNCHANGED vars
    <2>1. cancelled' \subseteq Levels /\ UNCHANGED <<pc, stage, err, result>>
      BY <1>1, <1>9 DEF CallerCancels, RegistryChanges, MiddlewaresChange, Tick, vars
    <2>2. QED
      BY <1>types, <2>1
  <1>10. QED
    BY <1>2, <1>3, <1>4, <1>5, <1>6, <1>7, <1>8, <1>9 DEF Next, Proceed

(* TypeOK; in particular guard_call_chain bounds the attempts of a call.   *)
THEOREM TypeCorrect == Spec => []TypeOK
  <1>1. Init => Counted /\ Typed
    <2> SUFFICES ASSUME Init PROVE Counted /\ Typed
      OBVIOUS
    <2>1. ctx.level = 0 /\ pc = "entry"
      BY DEF Init
    <2>2. ctx.chain \in Seq({Me, "caller"})
      BY InitFields, Reads
    <2>3. Counted
      BY <2>1, <2>2, OccurrencesCount DEF Counted
    <2>4. Typed
      BY DEF Init, Typed, Pcs
    <2>5. QED
      BY <2>3, <2>4
  <1>2. IInv /\ Counted /\ Typed /\ [Next]_vars => Counted' /\ Typed'
    BY NextCounted, TypedNext DEF IInv
  <1>3. IInv /\ Counted /\ Typed => TypeOK
    BY Reads DEF IInv, Fields, Typed, Counted, TypeOK, HookLoops, Histories
  <1>4. QED
    BY <1>1, <1>2, <1>3, Invariance, PTL DEF Spec
=============================================================================
