----------------------------- MODULE DataCapture -----------------------------
(***************************************************************************)
(* What of a call's data is captured for audit and written to logs         *)
(* (src/src/executor.rs, src/src/executor/schema_redaction.rs,             *)
(* src/src/observability/redaction.rs, builtin_steps.rs and the logging    *)
(* middlewares): the rules for fields and values, where they are applied   *)
(* along a call that rewrites, streams, fails and is retried, and the      *)
(* merge of streamed chunks.                                               *)
(*                                                                         *)
(* A value is [is |-> "text" or "null", of |-> a text], or a container     *)
(* [is |-> "object" or "array", of |-> a function] from names, which are   *)
(* "0", "1"... in an array.  A schema is a node of a graph, references and *)
(* identifiers resolved.                                                   *)
(***************************************************************************)
EXTENDS Naturals, SequencesExt

CONSTANTS
  Payloads, Outputs,    \* sequences of values: inputs of calls, and what modules return
  Later,                \* the places in Payloads of what a middleware or a retry brings
  ChunkLists,           \* streams of values
  Depths, DefaultDepth, \* the settings of stream.max_merge_depth
  Schema,               \* the nodes
  Contracts,            \* pairs of the node of the inputs and that of the output, None for none
  Settings, Builders,   \* obs.redaction.* as configured, and builders of a middleware's own rules
  Covers, Invalid,      \* the names or texts an entry matches; patterns that do not compile
  DefaultKeys, NeverRedact, SecretNamed,
  Place,                \* the position of each array name
  MaxRetries, None

VARIABLES
  redactionRules, logger, contract, depthCap, \* how the call is set up
  inputs, output,       \* ctx.inputs, ctx.output: <<>> before there is one
  capturedInputs, capturedOutput,    \* context.redacted_inputs, redacted_output: [of, shows] or none
  stageOf, rewritten, retried,
  logged,               \* what was written last: of a capture or of a raw value
  merged                \* the chunks of the stream behind the output

vars == <<redactionRules, logger, contract, depthCap, inputs, output, capturedInputs, capturedOutput, stageOf, rewritten,
          retried, logged, merged>>

Text(t)        == [is |-> "text", of |-> t]
Redacted       == Text("***")
IsContainer(v) == v.is \in {"object", "array"}
EmptyObject    == [is |-> "object", of |-> <<>>]
AsObject(v)    == IF v.is = "object" THEN v ELSE EmptyObject

-----------------------------------------------------------------------------
(* The schema's rule: x-sensitive, through $ref, allOf, anyOf, oneOf.      *)
RECURSIVE Reached(_)
Reached(nodes) ==
  LET next == nodes \cup UNION {Schema[n].branches \cup Schema[n].ref : n \in nodes}
  IN  IF next = nodes THEN nodes ELSE Reached(next)

(* The node for a part of a container: a property; an item by its place,   *)
(* or the one for the rest.                                                *)
PartNode(v, name, n) ==
  CASE v.is = "object" -> IF name \in DOMAIN Schema[n].properties THEN Schema[n].properties[name] ELSE None
    [] OTHER -> IF Place[name] <= Len(Schema[n].prefix) THEN Schema[n].prefix[Place[name]] ELSE Schema[n].items

RECURSIVE RedactValue(_, _, _)
RedactShape(v, n) ==
  IF ~IsContainer(v) THEN v
  ELSE [v EXCEPT !.of = [name \in DOMAIN v.of |->
         IF PartNode(v, name, n) = None THEN v.of[name] ELSE RedactValue(v.of[name], PartNode(v, name, n), FALSE)]]

(* An object at the root is kept, and so is a null.                        *)
RedactValue(v, n, preserveObjectRoot) ==
  LET here == Reached({n}) IN
  IF ~preserveObjectRoot /\ \E m \in here : Schema[m].sensitive THEN (IF v.is = "null" THEN v ELSE Redacted)
  ELSE FoldLeft(RedactShape, v, SetToSeq(here))

RECURSIVE RedactSecretPrefix(_)
RedactSecretPrefix(v) ==
  IF ~IsContainer(v) THEN v
  ELSE [v EXCEPT !.of = [name \in DOMAIN v.of |->
         IF v.is = "object" /\ name \in SecretNamed THEN (IF v.of[name].is = "null" THEN v.of[name] ELSE Redacted)
         ELSE RedactSecretPrefix(v.of[name])]]

-----------------------------------------------------------------------------
(* The configured rules.  A setting is read under its canonical key, then  *)
(* under its legacy one; <<>> is absent or null.                           *)
Effective(s) == IF s.canonical # <<>> THEN s.canonical ELSE s.legacy

Matched(entries)        == UNION {Covers[e] : e \in entries}
Rules(keys, patterns, r) == [fields |-> Matched(keys), texts |-> Matched(patterns \ Invalid), replacement |-> r]
DefaultRules            == Rules(DefaultKeys, {}, "***")

(* A configured list replaces the default keys, also when it is empty; a   *)
(* pattern that does not compile is skipped.                               *)
FromConfig(c) ==
  Rules(IF Effective(c.keys) = <<>> THEN DefaultKeys ELSE Head(Effective(c.keys)),
        IF Effective(c.patterns) = <<>> THEN {} ELSE Head(Effective(c.patterns)),
        IF Effective(c.replacement) = <<>> THEN "***" ELSE Head(Effective(c.replacement)))

(* The builder has no defaults, and fails on such a pattern.               *)
TryBuild(b) == IF b.patterns \cap Invalid # {} THEN <<>> ELSE <<Rules(b.keys, b.patterns, b.replacement)>>

(* Correlation identifiers are exempt, the parts of their values are not.  *)
RECURSIVE RedactInner(_, _, _)
RedactInner(v, name, r) ==
  LET protected == name \in NeverRedact IN
  CASE ~protected /\ name \in r.fields -> Text(r.replacement)
    [] IsContainer(v) ->
         [v EXCEPT !.of = [part \in DOMAIN v.of |-> RedactInner(v.of[part], IF v.is = "object" THEN part ELSE None, r)]]
    [] v.is = "text" /\ ~protected /\ v.of \in r.texts -> Text(r.replacement)
    [] OTHER -> v
Redact(v, r) == RedactInner(v, None, r)

RedactSensitiveWith(v, n, r) ==
  Redact(RedactSecretPrefix(IF n = None THEN v ELSE RedactValue(v, n, v.is = "object")), r)

-----------------------------------------------------------------------------
(* The merge of chunks; at the cap an object is merged one level deep.     *)
RECURSIVE DeepMergeValue(_, _, _, _)
DeepMergeValue(base, overlay, depth, cap) ==
  IF base.is # "object" \/ overlay.is # "object" THEN overlay
  ELSE [is |-> "object", of |-> [name \in DOMAIN base.of \cup DOMAIN overlay.of |->
         IF name \notin DOMAIN overlay.of THEN base.of[name]
         ELSE IF name \notin DOMAIN base.of \/ depth >= cap THEN overlay.of[name]
         ELSE DeepMergeValue(base.of[name], overlay.of[name], depth + 1, cap)]]

(* A cap that is no positive number is the default one.                    *)
ResolveMergeDepth(n) == IF n >= 1 THEN n ELSE DefaultDepth

DeepMergeChunks(chunks, cap) == FoldLeft(LAMBDA acc, chunk : DeepMergeValue(acc, chunk, 0, cap), EmptyObject, chunks)

-----------------------------------------------------------------------------
(* A call, from its setup on.  A capture is the value and what it shows.   *)
Captured(v, n) == <<[of |-> v, shows |-> AsObject(RedactSensitiveWith(v, n, redactionRules))]>>
Enter(stage)   == stageOf' = stage

(* A logging middleware has no rules of its own, or a context logger that  *)
(* has the default ones until a policy is attached to it.                  *)
LoggersFor(configured) ==
  {<<>>, <<DefaultRules>>, <<configured>>} \cup ({TryBuild(b) : b \in Builders} \ {<<>>})

Init ==
  /\ \E c \in Settings : redactionRules = FromConfig(c)
  /\ logger \in LoggersFor(redactionRules)
  /\ contract \in Contracts /\ \E d \in Depths : depthCap = ResolveMergeDepth(d)
  /\ \E k \in DOMAIN Payloads : inputs = Payloads[k]
  /\ output = <<>> /\ capturedInputs = <<>> /\ capturedOutput = <<>>
  /\ stageOf = "lookup" /\ rewritten = FALSE /\ retried = 0 /\ logged = <<>> /\ merged = <<>>

Setup == <<redactionRules, logger, contract, depthCap>>

(* Module lookup captures, and keeps a copy where no schema is declared.   *)
Lookup ==
  /\ stageOf = "lookup" /\ Enter("before")
  /\ capturedInputs' = IF contract[1] = None THEN <<[of |-> inputs, shows |-> AsObject(inputs)]>>
                       ELSE Captured(inputs, contract[1])
  /\ UNCHANGED <<Setup, inputs, output, capturedOutput, rewritten, retried, logged, merged>>

(* A middleware rewrites the inputs, before or behind the logging one.     *)
Rewrite(k) ==
  /\ stageOf \in {"before", "logged"} /\ ~rewritten /\ rewritten' = TRUE
  /\ inputs' = Payloads[k]
  /\ UNCHANGED <<Setup, output, capturedInputs, capturedOutput, stageOf, retried, logged, merged>>

(* What is logged: the capture, else the raw value under the logger's      *)
(* rules or the default ones.                                              *)
Loggable(captured, raw) ==
  IF captured # <<>> THEN Head(captured).shows
  ELSE RedactSensitiveWith(raw, None, IF logger = <<>> THEN DefaultRules ELSE Head(logger))

(* A context logger applies its rules to what it is given.                 *)
Emit(v) == IF logger = <<>> THEN v ELSE Redact(v, Head(logger))

Write(what, captured, raw) ==
  logged' = <<[what |-> what, raw |-> IF captured # <<>> THEN Head(captured).of ELSE raw, shown |-> Emit(Loggable(captured, raw))]>>

LogStart ==
  /\ stageOf = "before" /\ Enter("logged") /\ Write("inputs", capturedInputs, inputs)
  /\ UNCHANGED <<Setup, inputs, output, capturedInputs, capturedOutput, rewritten, retried, merged>>

(* A schema rejects values that do not conform, or any if it is broken.    *)
MayReject(n) == n # None

ValidateInputs ==
  /\ stageOf = "logged"
  /\ \/ MayReject(contract[1]) /\ Enter("failing") /\ UNCHANGED capturedInputs
     \/ /\ Enter("execute")
        /\ capturedInputs' = IF contract[1] = None THEN capturedInputs ELSE Captured(inputs, contract[1])
  /\ UNCHANGED <<Setup, inputs, output, capturedOutput, rewritten, retried, logged, merged>>

Execute ==
  /\ stageOf = "execute"
  /\ \/ Enter("failing") /\ UNCHANGED output
     \/ \E k \in DOMAIN Outputs : output' = <<Outputs[k]>> /\ Enter("validate output")
  /\ UNCHANGED <<Setup, inputs, capturedInputs, capturedOutput, rewritten, retried, logged, merged>>

(* A stream gives its chunks; one that is no object ends it, unlogged,     *)
(* while a chunk that fails is logged as a failure.                        *)
Stream(k) ==
  /\ stageOf = "execute" /\ merged' = <<ChunkLists[k]>>
  /\ \/ Enter("failing") /\ UNCHANGED output
     \/ /\ \E c \in DOMAIN ChunkLists[k] : ChunkLists[k][c].is # "object"
        /\ Enter("ended") /\ UNCHANGED output
     \/ /\ \A c \in DOMAIN ChunkLists[k] : ChunkLists[k][c].is = "object"
        /\ output' = <<DeepMergeChunks(ChunkLists[k], depthCap)>> /\ Enter("validate output")
  /\ UNCHANGED <<Setup, inputs, capturedInputs, capturedOutput, rewritten, retried, logged>>

(* The chunks of a stream were delivered: what fails now is swallowed.     *)
FailedLate == IF merged = <<>> THEN Enter("failing") ELSE Enter("ended")

ValidateOutput ==
  /\ stageOf = "validate output"
  /\ \/ MayReject(contract[2]) /\ FailedLate /\ UNCHANGED capturedOutput
     \/ /\ Enter("after")
        /\ capturedOutput' = IF contract[2] = None THEN capturedOutput ELSE Captured(Head(output), contract[2])
  /\ UNCHANGED <<Setup, inputs, output, capturedInputs, rewritten, retried, logged, merged>>

LogEnd ==
  /\ stageOf = "after"
  /\ \/ Enter("done") /\ Write("output", capturedOutput, Head(output))
     \/ FailedLate /\ UNCHANGED logged
  /\ UNCHANGED <<Setup, inputs, output, capturedInputs, capturedOutput, rewritten, retried, merged>>

(* Only the logger without rules of its own writes the inputs of a failed  *)
(* run.  A call is retried with new inputs, and keeps the captures.         *)
LogError ==
  /\ stageOf = "failing" /\ Enter("failed")
  /\ IF logger = <<>> THEN Write("failure", capturedInputs, inputs) ELSE UNCHANGED logged
  /\ UNCHANGED <<Setup, inputs, output, capturedInputs, capturedOutput, rewritten, retried, merged>>

Retry(k) ==
  /\ stageOf = "failed" /\ merged = <<>> /\ retried < MaxRetries /\ retried' = retried + 1
  /\ Enter("lookup") /\ inputs' = Payloads[k] /\ output' = <<>> /\ rewritten' = FALSE
  /\ UNCHANGED <<Setup, capturedInputs, capturedOutput, logged, merged>>

Next ==
  \/ Lookup \/ LogStart \/ ValidateInputs \/ Execute \/ ValidateOutput \/ LogEnd \/ LogError
  \/ \E k \in Later : Rewrite(k) \/ Retry(k)
  \/ \E k \in DOMAIN ChunkLists : Stream(k)

-----------------------------------------------------------------------------
(* Places in a value, as sequences of names, and what the rules say of     *)
(* each: the reference that the traversals are compared with.              *)
RECURSIVE Places(_)
Places(v) ==
  {<<>>} \cup (IF IsContainer(v) THEN UNION {{<<k>> \o p : p \in Places(v.of[k])} : k \in DOMAIN v.of} ELSE {})
RECURSIVE PartAt(_, _)
PartAt(v, p) == IF p = <<>> THEN v ELSE PartAt(v.of[Head(p)], Tail(p))

IsField(v, p)  == p # <<>> /\ PartAt(v, Front(p)).is = "object"
IsNull(v, p)   == PartAt(v, p).is = "null"
IsText(v, p)   == PartAt(v, p).is = "text"
SameText(v, w, p) == IsText(w, p) /\ PartAt(v, p).of = PartAt(w, p).of

(* The nodes that describe a place, and whether one of them is sensitive:  *)
(* what as many steps lead to as there are nodes.                          *)
Linked(nodes) ==
  LET within[i \in 0..Cardinality(DOMAIN Schema)] ==
        IF i = 0 THEN nodes
        ELSE LET near == within[i - 1] IN near \cup {m \in DOMAIN Schema : \E n \in near : m \in Schema[n].branches \cup Schema[n].ref}
  IN  within[Cardinality(DOMAIN Schema)]
NodesFor(v, name, n) ==
  {m \in DOMAIN Schema :
     IF v.is = "object" THEN name \in DOMAIN Schema[n].properties /\ m = Schema[n].properties[name]
     ELSE IF Place[name] \in DOMAIN Schema[n].prefix THEN m = Schema[n].prefix[Place[name]]
     ELSE m = Schema[n].items}
RECURSIVE NodesAt(_, _, _)
NodesAt(v, p, nodes) ==
  LET all == Linked(nodes) IN
  IF p = <<>> THEN all ELSE NodesAt(v.of[Head(p)], Tail(p), UNION {NodesFor(v, Head(p), n) : n \in all})
Marked(v, p, n) == n # None /\ \E m \in NodesAt(v, p, {n}) : Schema[m].sensitive

Hidden(v, p, n, r) ==
  \/ (p # <<>> \/ v.is # "object") /\ ~IsNull(v, p) /\ Marked(v, p, n)
  \/ IsField(v, p) /\ Last(p) \in SecretNamed /\ ~IsNull(v, p)
  \/ IsField(v, p) /\ Last(p) \in r.fields \ NeverRedact
  \/ IsText(v, p) /\ PartAt(v, p).of \in r.texts /\ ~(IsField(v, p) /\ Last(p) \in NeverRedact)

(* A redaction is exact when it replaces what is hidden and nothing else.  *)
Exact(v, shown, n, r) ==
  \A p \in Places(v) :
    IF \E i \in 0..Len(p) : Hidden(v, SubSeq(p, 1, i), n, r)
    THEN p \in Places(shown) =>
           IsNull(shown, p) \/ (IsText(shown, p) /\ PartAt(shown, p).of \in {Redacted.of, r.replacement})
    ELSE /\ p \in Places(shown) /\ PartAt(shown, p).is = PartAt(v, p).is
         /\ IsText(v, p) => SameText(v, shown, p)

(* Captures are exact under the schema and the configured rules together,  *)
(* whatever references, branches and nestings lead to a value: stated      *)
(* where a capture was just made, as the other conjuncts are.              *)
CaptureIsExact(captured, n) ==
  (n # None /\ captured # <<>>) =>
    LET c == Head(captured) IN c.of.is = "object" => Exact(c.of, c.shows, n, redactionRules)
CapturesAreExact ==
  /\ stageOf \in {"before", "execute"} => CaptureIsExact(capturedInputs, contract[1])
  /\ stageOf = "after" => CaptureIsExact(capturedOutput, contract[2])

(* What executes, and what is logged at the end, is what was captured: of  *)
(* this run and of the inputs as they were rewritten.                      *)
CapturesAreCurrent ==
  /\ (stageOf = "execute" /\ contract[1] # None) => Head(capturedInputs).of = inputs
  /\ (stageOf = "done" /\ contract[2] # None) => Last(logged).raw = Head(output)

(* No log shows a value that the schema marks, nor a field that the rules  *)
(* of its own logger hide.                                                 *)
LogsAreSafe ==
  stageOf \in {"logged", "failed", "done"} => \A i \in DOMAIN logged :
    LET raw   == logged[i].raw
        shown == logged[i].shown
        n     == IF logged[i].what = "output" THEN contract[2] ELSE contract[1]
    IN \A p \in Places(raw) \cap Places(shown) :
         /\ (p # <<>> /\ Marked(raw, p, n)) => ~IsContainer(PartAt(shown, p)) /\ (IsNull(shown, p) => IsNull(raw, p))
         /\ (logger # <<>> /\ IsField(raw, p)) => (Last(p) \in Head(logger).fields \ NeverRedact => IsText(shown, p))

(* A merge keeps every text of a chunk that no later chunk writes over,    *)
(* directly or, at the cap, with the object around it.                     *)
WritesOver(chunk, p) ==
  \E i \in 1..Len(p) : LET q == SubSeq(p, 1, i) IN
    q \in Places(chunk) /\ (q = p \/ i > depthCap \/ PartAt(chunk, q).is # "object")
MergeKeeps ==
  stageOf = "validate output" => \A m \in DOMAIN merged : LET chunks == merged[m] IN
    \A i \in DOMAIN chunks : \A p \in Places(chunks[i]) :
      (IsText(chunks[i], p) /\ \A j \in i + 1..Len(chunks) : ~WritesOver(chunks[j], p)) =>
        p \in Places(Head(output)) /\ SameText(chunks[i], Head(output), p)

CapturesAreSound == CapturesAreExact /\ CapturesAreCurrent /\ LogsAreSafe /\ MergeKeeps

(* Observations, not checked: without a schema the copy is logged with no  *)
(* rule applied, and the inputs logged at the start are those before a     *)
(* middleware rewrote them.                                                *)
RulesReachLogs ==
  \A i \in DOMAIN logged : LET e == logged[i] IN
    \A p \in Places(e.raw) \cap Places(e.shown) :
      (IsField(e.raw, p) /\ Last(p) \in redactionRules.fields \ NeverRedact) =>
        IsText(e.shown, p) /\ PartAt(e.shown, p).of = redactionRules.replacement
StartLogsInputs == stageOf = "logged" => Last(logged).raw = inputs
=============================================================================
