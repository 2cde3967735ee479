------------------------------ MODULE ACLRules ------------------------------
(***************************************************************************)
(* The access control list (src/src/acl.rs, src/src/acl_handlers.rs): the  *)
(* rules and what enters them, the three-valued conditions, the decision   *)
(* and its audit.  An ACL is changed under &mut, so a check is one step;   *)
(* the handlers of conditions and the file may change between any two.     *)
(***************************************************************************)
EXTENDS Integers, Sequences, SequencesExt, FiniteSets, FiniteSetsExt

CONSTANTS
  Drafts,      \* the rules somebody may try to add
  Documents,   \* the contents the ACL file may have
  First,       \* the one the ACL was loaded from
  Keys,        \* the condition keys an application registers
  Covers,      \* which ids a glob pattern other than "*" matches
  Trees,       \* the conditions a rule may carry, as JSON trees
  Nodes,       \* the trees, and every part that stands where a tree is expected
  MaxNesting,  \* how many mappings lie within one another at most
  Requests,    \* the checks, with what the handlers answer them
  NoConditions,
  MaxRules,    \* bound on the list
  Late         \* the keys whose handlers may be registered after the start

VARIABLES
  rules, defaultEffect,
  file,         \* the document at yaml_path
  sync, async,  \* the keys that resolve in CONDITION_HANDLERS, ASYNC_...
  warned,       \* warned_missing_context
  callback,     \* the audit logger: none, sound or panicking
  auditConfig,  \* the declared audit block, if any
  failed,       \* AuditSink.failed
  reports       \* diagnostics of this sink

book == <<rules, defaultEffect>>
handlers == <<sync, async>>
sink == <<callback, auditConfig, failed, reports>>
vars == <<book, file, handlers, warned, sink>>

-----------------------------------------------------------------------------
(* Three-valued conditions.  The order of the values makes a conjunction   *)
(* their minimum and a disjunction their maximum.                          *)
Unsatisfied == 0
Unevaluable == 1
Satisfied == 2

And(outcomes) == Min(outcomes \cup {Satisfied})
Or(outcomes) == Max(outcomes \cup {Unsatisfied})

Negate(outcome) == Satisfied - outcome
FromBool(b) == IF b THEN Satisfied ELSE Unsatisfied

Compound == {"$or", "$not"}
Predicates == {"has_key", "has_all_keys", "has_none_of"}

(* An async check falls back to the synchronous registry.                  *)
Resolves(mode, key) ==
  \/ key \in Compound \cup {"arguments"} \cup sync
  \/ mode = "async" /\ key \in async

(* One predicate of `arguments`, over the keys of the call.                *)
Predicate(e, projection) ==
  IF e.key \notin Predicates \/ e.operand.kind # "names" \/ ~projection.given THEN Unevaluable
  ELSE FromBool(CASE e.key = "has_key" -> e.operand.names \cap projection.names # {}
                  [] e.key = "has_all_keys" -> e.operand.names \subseteq projection.names
                  [] e.key = "has_none_of" -> e.operand.names \cap projection.names = {})

Arguments(operand, projection) ==
  IF operand.kind # "mapping" \/ operand.entries = <<>> THEN Unevaluable
  ELSE And({Predicate(e, projection) : e \in ToSet(operand.entries)})

(* One key of a mapping, where `below` has the outcome of every part.      *)
Evaluate(e, view, below) ==
  IF ~Resolves(view.mode, e.key) THEN Unevaluable
  ELSE CASE e.key = "$or" -> IF e.operand.kind # "list" THEN Unevaluable
                             ELSE Or({below[branch] : branch \in ToSet(e.operand.items)})
         [] e.key = "$not" -> Negate(below[e.operand])
         [] e.key = "arguments" -> Arguments(e.operand, view.projection)
         [] OTHER -> view.answers[e.key]

(* Every child is evaluated; a tree that is not a mapping has no answer.   *)
Conjunctions(view, below) ==
  [tree \in Nodes |-> IF tree.kind # "mapping" THEN Unevaluable
                      ELSE And({Evaluate(e, view, below) : e \in ToSet(tree.entries)})]

(* The outcomes by nesting: compound handlers evaluate their parts.        *)
Outcomes(view) ==
  LET level[d \in Nat] == IF d = 0 THEN [tree \in Nodes |-> Unevaluable]
                          ELSE Conjunctions(view, level[d - 1])
  IN level
EvaluateConditions(tree, view) == Outcomes(view)[MaxNesting][tree]

ArgumentsFault(operand) ==
  \/ operand.kind # "mapping"
  \/ operand.entries = <<>>
  \/ \E e \in ToSet(operand.entries) : e.key \notin Predicates \/ e.operand.kind # "names"

(* The precheck looks at structure and registries, and asks no handler.    *)
Faulty(tree, mode, below) ==
  \/ tree.kind # "mapping"
  \/ \E e \in ToSet(tree.entries) :
       \/ ~Resolves(mode, e.key)
       \/ /\ e.key = "$or"
          /\ e.operand.kind # "list" \/ \E branch \in ToSet(e.operand.items) : below[branch]
       \/ e.key = "$not" /\ below[e.operand]
       \/ e.key = "arguments" /\ ArgumentsFault(e.operand)
PrecheckFails(tree, mode) ==
  LET level[d \in Nat] == IF d = 0 THEN [part \in Nodes |-> TRUE]
                          ELSE [part \in Nodes |-> Faulty(part, mode, level[d - 1])]
  IN level[MaxNesting][tree]

-----------------------------------------------------------------------------
(* Patterns.                                                               *)
External == "@external"
Operators == {"$or", "$not"}

(* Tier 1, the shapes that no door lets in.                                *)
ShapeFault(ps) ==
  \/ ps = <<>>
  \/ "" \in ToSet(ps)
  \/ \E i \in 2 .. Len(ps) : ps[i] \in Operators
  \/ ps[1] = "$or" /\ Len(ps) < 2
  \/ ps[1] = "$not" /\ Len(ps) # 2

MatchPattern(p, v) == p \in {"*", v} \/ (p \in DOMAIN Covers /\ v \in Covers[p])

MatchACLPattern(p, v, ctx) ==
  CASE p = "@system" -> ctx.given /\ ctx.identity = "system"
    [] p = External -> v = External
    [] OTHER -> MatchPattern(p, v)

MatchPatterns(ps, v, ctx) ==
  /\ ps # <<>>
  /\ CASE ps[1] = "$or" -> \E p \in ToSet(Tail(ps)) : MatchACLPattern(p, v, ctx)
       [] ps[1] = "$not" -> Len(ps) >= 2 /\ ~MatchACLPattern(ps[2], v, ctx)
       [] OTHER -> \E p \in ToSet(ps) : MatchACLPattern(p, v, ctx)

Operands(ps) == IF ps[1] = "$or" THEN Tail(ps) ELSE ps

(* Tier 2, a finding of validate_rules only: no id can match.  Wildcards   *)
(* are the patterns of `Universal`, "?" is in those of `Questioned`.       *)
Universal == {"*", "**"}
Questioned == {"a?"}

NeverMatches(field, ps) ==
  IF ps[1] = "$not" THEN ps[2] \in Universal
  ELSE \/ ToSet(Operands(ps)) \subseteq Questioned
       \/ field = "targets" /\ ToSet(Operands(ps)) = {External}

-----------------------------------------------------------------------------
(* What a rule must be to enter, in the order the doors report it.         *)
Fault(rule) ==
  IF rule.effect \notin {"allow", "deny"} THEN "effect"
  ELSE IF rule.effect = "deny" /\ rule.approval THEN "approval"
  ELSE IF ShapeFault(rule.callers) \/ ShapeFault(rule.targets) THEN "patterns"
  ELSE "none"

AuditFields == {"enabled", "include_denied", "log_level"}
Levels == {"trace", "debug", "info", "warn", "error"}

(* An audit key with nothing under it is a declaration too.                *)
AuditValid(raw) ==
  \/ raw.kind \in {"absent", "null"}
  \/ /\ raw.kind = "mapping"
     /\ DOMAIN raw.fields \subseteq AuditFields
     /\ \A f \in DOMAIN raw.fields :
          raw.fields[f] \in (IF f = "log_level" THEN Levels ELSE {"true", "false"})

(* parse_audit_block of a valid block: what is not set is on.              *)
AuditBlock(raw) ==
  LET off(f) == raw.kind = "mapping" /\ f \in DOMAIN raw.fields /\ raw.fields[f] = "false" IN
  [declared |-> raw.kind # "absent", enabled |-> ~off("enabled"), includeDenied |-> ~off("include_denied")]

(* A document: its audit block comes first, then the default effect, then  *)
(* rule by rule its keys and its content.                                  *)
Loads(doc) ==
  /\ AuditValid(doc.audit)
  /\ doc.defaultEffect \in {"allow", "deny"}
  /\ \A i \in 1 .. Len(doc.rules) : doc.keysOk[i] /\ Fault(doc.rules[i]) = "none"

-----------------------------------------------------------------------------
(* The scan.                                                               *)
Conditions(rule, view) ==
  IF PrecheckFails(Trees[rule.conditions], view.mode) THEN Unevaluable
  ELSE IF ~view.ctx.given THEN Unsatisfied
  ELSE EvaluateConditions(Trees[rule.conditions], view)

InScope(rule, view) ==
  /\ MatchPatterns(rule.callers, view.caller, view.ctx)
  /\ MatchPatterns(rule.targets, view.target, view.ctx)

(* NoMatch, Match and Unevaluable of a rule, as the values of a condition. *)
MatchesRule(rule, view) ==
  IF ShapeFault(rule.callers) \/ ShapeFault(rule.targets) THEN Unevaluable
  ELSE IF ~InScope(rule, view) THEN Unsatisfied
  ELSE IF rule.conditions = NoConditions THEN Satisfied
  ELSE Conditions(rule, view)

(* What is pending needs approval if something grants; a denial clears it. *)
Decision(effect, approval, index) ==
  [access |-> effect, approval |-> approval /\ effect = "allow", index |-> index]

FinalizeDefaultEffect(default, pending) == Decision(default, pending, 0)
FinalizeRuleMatch(rule, index, pending) == Decision(rule.effect, rule.approval \/ pending, index)

(* Mutant: an allow rule that steps aside takes its approval with it.      *)
ScanForgetful(list, default, view) ==
  LET outcome == [i \in DOMAIN list |-> MatchesRule(list[i], view)]
      decides == {i \in DOMAIN list :
                    outcome[i] = Satisfied \/ (outcome[i] = Unevaluable /\ list[i].effect = "deny")}
  IN IF decides = {} THEN FinalizeDefaultEffect(default, FALSE)
     ELSE LET i == Min(decides) IN FinalizeRuleMatch(list[i], i, FALSE)

(* The first rule that matches, or denies what it cannot evaluate, decides.*)
(* An allow rule that cannot be evaluated steps aside, and what it wanted  *)
(* approved stays pending for whatever grants later.                       *)
Scan(list, default, view) ==
  LET outcome == [i \in DOMAIN list |-> MatchesRule(list[i], view)]
      decides == {i \in DOMAIN list :
                    outcome[i] = Satisfied \/ (outcome[i] = Unevaluable /\ list[i].effect = "deny")}
      pendingBefore(k) == \E j \in DOMAIN list :
        j < k /\ outcome[j] = Unevaluable /\ list[j].effect = "allow" /\ list[j].approval
  IN IF decides = {} THEN FinalizeDefaultEffect(default, pendingBefore(Len(list) + 1))
     ELSE LET i == Min(decides) IN FinalizeRuleMatch(list[i], i, pendingBefore(i))

Check(r) == Scan(rules, defaultEffect, r)

(* check and async_check: the boolean form.                                *)
Grants(d) == d.access = "allow" /\ ~d.approval

-----------------------------------------------------------------------------
Init ==
  /\ file = First /\ Loads(file)
  /\ rules = file.rules /\ defaultEffect = file.defaultEffect
  /\ sync = Keys \ Late /\ async = {}
  /\ warned = {}
  /\ callback = "none"
  /\ auditConfig = AuditBlock(file.audit)
  /\ failed = FALSE /\ reports = 0

(* Mutant: the markers stay when the indices move.                         *)
TryAddRuleKeepsMarkers(rule) ==
  /\ Fault(rule) = "none"
  /\ Len(rules) < MaxRules
  /\ rules' = <<rule>> \o rules
  /\ UNCHANGED <<defaultEffect, file, handlers, warned, sink>>

(* try_add_rule, up to MaxRules rules.                                     *)
TryAddRule(rule) ==
  /\ Fault(rule) = "none"
  /\ Len(rules) < MaxRules
  /\ rules' = <<rule>> \o rules
  /\ warned' = {}
  /\ UNCHANGED <<defaultEffect, file, handlers, sink>>

(* The first rule with these callers and targets, and conditions if named. *)
RemoveRule(callers, targets, conditions) ==
  LET found == {i \in DOMAIN rules :
                  /\ rules[i].callers = callers /\ rules[i].targets = targets
                  /\ conditions \in {NoConditions, rules[i].conditions}} IN
  /\ found # {}
  /\ rules' = RemoveAt(rules, Min(found))
  /\ warned' = {}
  /\ UNCHANGED <<defaultEffect, file, handlers, sink>>

WriteFile(doc) ==
  /\ file' = doc
  /\ UNCHANGED <<book, handlers, warned, sink>>

NewSink(cb, config) ==
  callback' = cb /\ auditConfig' = config /\ failed' = FALSE /\ reports' = 0

(* A reload keeps the callback; a document that does not load changes      *)
(* nothing.                                                                *)
Reload ==
  /\ Loads(file)
  /\ rules' = file.rules /\ defaultEffect' = file.defaultEffect
  /\ NewSink(callback, AuditBlock(file.audit))
  /\ warned' = {}
  /\ UNCHANGED <<file, handlers>>

SetAuditLogger(cb) ==
  /\ NewSink(cb, auditConfig)
  /\ UNCHANGED <<book, file, handlers, warned>>

SetAuditConfig(config) ==
  /\ NewSink(callback, config)
  /\ UNCHANGED <<book, file, handlers, warned>>

(* Applications register handlers at any time; none is ever removed.       *)
RegisterCondition(key) ==
  /\ sync' = sync \cup {key}
  /\ UNCHANGED <<book, file, async, warned, sink>>

RegisterAsyncCondition(key) ==
  /\ async' = async \cup {key}
  /\ UNCHANGED <<book, file, sync, warned, sink>>

(* The rules the scan reached and skipped for want of a context.           *)
Skipped(r) ==
  LET d == Check(r)
      last == IF d.index = 0 THEN Len(rules) ELSE d.index IN
  {i \in 1 .. last :
     /\ ~r.ctx.given /\ rules[i].conditions # NoConditions
     /\ ~ShapeFault(rules[i].callers) /\ ~ShapeFault(rules[i].targets)
     /\ InScope(rules[i], r) /\ ~PrecheckFails(Trees[rules[i].conditions], r.mode)}

(* One effective sink: the callback, which gets everything, or the         *)
(* declared block, which may leave denials out.                            *)
Sinks(decision) ==
  IF callback # "none" THEN {"callback"}
  ELSE IF auditConfig.declared /\ auditConfig.enabled
          /\ (decision = "deny" => auditConfig.includeDenied)
       THEN {"default"} ELSE {}

(* check_access and async_check_access: the decision, the warnings, the    *)
(* audit, whose failure is reported once per sink.                         *)
CheckAccess(r) ==
  /\ warned' = warned \cup {<<i, rules[i]>> : i \in {k \in Skipped(r) :
                              \A w \in warned : w[1] # k \/ w[2].effect # rules[k].effect}}
  /\ failed' = (failed \/ callback = "panics")
  /\ reports' = IF callback = "panics" /\ ~failed THEN reports + 1 ELSE reports
  /\ UNCHANGED <<book, file, handlers, callback, auditConfig>>

Blocks == {AuditBlock(doc.audit) : doc \in {d \in Documents : AuditValid(d.audit)}}

Next ==
  \/ \E rule \in Drafts : TryAddRule(rule)
  \/ \E rule \in Drafts : \E conditions \in {NoConditions, rule.conditions} :
       RemoveRule(rule.callers, rule.targets, conditions)
  \/ \E doc \in Documents : WriteFile(doc)
  \/ Reload
  \/ \E cb \in {"sound", "panics"} : SetAuditLogger(cb)
  \/ \E config \in Blocks : SetAuditConfig(config)
  \/ \E key \in Late : RegisterCondition(key) \/ RegisterAsyncCondition(key)
  \/ \E r \in Requests : CheckAccess(r)

Spec == Init /\ [][Next]_vars

-----------------------------------------------------------------------------
(* Whatever door a rule came through, no rule of the list is one that the  *)
(* doors refuse (validate_rule), a reload that fails included.             *)
RulesAreLegal == \A i \in DOMAIN rules : Fault(rules[i]) = "none"

(* A check that lets a call run without asking anyone would also do so if  *)
(* a handler that gave no answer had given one, either one: what nobody    *)
(* could evaluate never opens the gate.                                    *)
FailsClosed ==
  \A r \in Requests : Grants(Check(r)) =>
    \A k \in Keys : r.answers[k] = Unevaluable =>
      \A answer \in {Unsatisfied, Satisfied} :
        Grants(Scan(rules, defaultEffect, [r EXCEPT !.answers[k] = answer]))

(* The marker that silences a warning silences it for the rule it was      *)
(* given for, whatever was inserted, removed or reloaded since (D-88).     *)
MarkersNameTheirRule ==
  \A w \in warned : w[1] \in DOMAIN rules /\ rules[w[1]] = w[2]

(* One sink at most; a callback gets every decision, denials included,     *)
(* whatever the file declares; a sink that fails is reported once.         *)
AuditIsWhole ==
  /\ \A decision \in {"allow", "deny"} :
       /\ callback # "none" => Sinks(decision) = {"callback"}
       /\ callback = "none" /\ ~auditConfig.declared => Sinks(decision) = {}
  /\ reports <= 1

(* A finding of the second tier is true: no call in scope of the array.    *)
FindingsAreTrue ==
  \A rule \in Drafts : Fault(rule) = "none" =>
    \A r \in Requests :
      /\ NeverMatches("callers", rule.callers) => ~MatchPatterns(rule.callers, r.caller, r.ctx)
      /\ NeverMatches("targets", rule.targets) => ~MatchPatterns(rule.targets, r.target, r.ctx)
=============================================================================
