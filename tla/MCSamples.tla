----------------------------- MODULE MCSamples -----------------------------
(***************************************************************************)
(* The data on which MCServices runs its services: rules, documents,       *)
(* requests and trees, written out.                                        *)
(***************************************************************************)
EXTENDS Integers, Sequences, TLC

CONSTANTS
  None,
  Loose        \* callers that go beyond what the services stand

(* The samples of the access control list.                                *)
(* JSON trees of conditions. *)
Mapping(entries) == [kind |-> "mapping", entries |-> entries]
Entry(key, operand) == [key |-> key, operand |-> operand]
Scalar == [kind |-> "scalar"]
One(key, operand) == Mapping(<<Entry(key, operand)>>)
TheTrees ==
  [plain |-> Mapping(<<Entry("roles", Scalar), Entry("late", Scalar)>>),
   either |-> One("$or", [kind |-> "list", items |-> <<One("roles", Scalar), One("late", Scalar)>>]),
   negated |-> One("$not", One("roles", Scalar)),
   broken |-> One("$not", Scalar),
   args |-> One("arguments", One("has_none_of", [kind |-> "names", names |-> {"force"}]))]

(* The trees, and the parts that are trees or stand in the place of one.   *)
TheNodes == {TheTrees[t] : t \in DOMAIN TheTrees} \cup {One("roles", Scalar), One("late", Scalar), Scalar}

Rule(callers, targets, effect, approval, conditions) ==
  [callers |-> callers, targets |-> targets, effect |-> effect, approval |-> approval,
   conditions |-> conditions]

TheDrafts ==
  { Rule(<<"admin">>, <<"db">>, "deny", FALSE, "plain"),
    Rule(<<"$not", "admin">>, <<"$or", "db", "@external">>, "allow", TRUE, "either"),
    Rule(<<"a*">>, <<"*">>, "allow", FALSE, "negated"),
    Rule(<<"@system">>, <<"db">>, "allow", TRUE, "args"),
    Rule(<<"@external">>, <<"@external">>, "allow", FALSE, "none"),
    Rule(<<"a?">>, <<"db">>, "deny", FALSE, "broken"),
    Rule(<<"a*">>, <<>>, "deny", FALSE, "none"),
    Rule(<<"a*">>, <<"$not", "db", "admin">>, "deny", FALSE, "none"),
    Rule(<<"admin">>, <<"db">>, "deny", TRUE, "none") }

Document(list, keysOk, effect, audit) ==
  [rules |-> list, keysOk |-> keysOk, defaultEffect |-> effect, audit |-> audit]

Absent == [kind |-> "absent"]
FirstDocument == Document(<<>>, <<>>, "allow", Absent)
TheDocuments ==
  { FirstDocument,
    Document(<<Rule(<<"a*">>, <<"db">>, "allow", FALSE, "either")>>, <<TRUE>>, "deny",
             [kind |-> "mapping", fields |-> "include_denied" :> "false" @@ "log_level" :> "warn"]),
    Document(<<Rule(<<"a*">>, <<"db">>, "Allow", FALSE, "none")>>, <<TRUE>>, "deny",
             [kind |-> "mapping", fields |-> "enable" :> "true"]),
    Document(<<Rule(<<"a*">>, <<"db">>, "deny", FALSE, "none")>>, <<FALSE>>, "allow",
             [kind |-> "null"]) }

Context(given, identity) == [given |-> given, identity |-> identity]

(* What the handlers of roles and of late answer; the external caller      *)
(* comes with a context.                                                   *)
TheAnswers(mode) ==
  IF mode = "sync" THEN {<<0, 1>>, <<1, 1>>, <<2, 1>>} ELSE {<<0, 1>>, <<1, 1>>, <<1, 2>>, <<2, 2>>}
TheRequests ==
  UNION {{[mode |-> m, caller |-> from[1], target |-> "db", ctx |-> from[2],
           projection |-> [given |-> m = "sync", names |-> {"force"}],
           answers |-> ("roles" :> given[1]) @@ ("late" :> given[2])] :
            from \in {<<"admin", Context(FALSE, "none")>>, <<"admin", Context(TRUE, "system")>>,
                     <<"@external", Context(TRUE, "system")>>},
            given \in TheAnswers(m)} : m \in {"sync", "async"}}

(* The samples of the configuration: three typed leaves and the tree.      *)
Whole(v) == [kind |-> "int", n |-> v]
Text(v) == [kind |-> "text", n |-> v]
Flag(v) == [kind |-> "bool", n |-> v]
Null == [kind |-> "null", n |-> 0]

Depth == <<"executor", "max_call_depth">>
Exporter == <<"observability", "tracing", "exporter">>
Endpoint == <<"observability", "tracing", "otlp_endpoint">>
Root == <<"acl", "root">>
Spare == <<"executor", "spare">>
Version == <<"version">>
Size == <<"sys_modules", "size">>
Key == <<"svc", "key">>
InApcore(path) == <<"apcore">> \o path

FitsLeaf(p, v) ==
  IF p = Depth THEN v.kind = "int" ELSE v.kind = "text" \/ (p = Endpoint /\ v.kind = "null")

LegalLeaf(p, v) ==
  CASE p = Depth -> v.kind = "int" /\ v.n >= 1
    [] p = Exporter -> v \in {Text(1), Text(2)}
    [] p = Endpoint -> v = Null \/ (v.kind = "text" /\ v.n # 0)
    [] p \in {Size, Key} -> v.kind = "int"
    [] OTHER -> TRUE

LeavesAgree(typed) == typed[Endpoint] # Null => typed[Exporter] = Text(2)

TheTypedDefaults == Depth :> Whole(2) @@ Exporter :> Text(1) @@ Endpoint :> Null

TheNamespaces ==
  ("svc" :> (Key :> Whole(1))) @@ ("sys_modules" :> (Size :> Whole(1)))
  @@ ("observability" :> (Exporter :> Text(1) @@ Endpoint :> Null))

TheTextFiles ==
  { Version :> Text(1) @@ Depth :> Whole(3) @@ Root :> Text(2) @@ Spare :> Whole(1) @@ Key :> Whole(2),
    Version :> Text(1) @@ Exporter :> Text(2) @@ Endpoint :> Text(1) @@ <<"_config", "strict">> :> Flag(1),
    InApcore(Version) :> Text(1) @@ InApcore(Depth) :> Whole(3) @@ InApcore(Root) :> Text(2) @@ Key :> Whole(2),
    InApcore(Root) :> Text(2) @@ InApcore(Depth) :> Whole(3) @@ Depth :> Whole(1) @@ Key :> Whole(2)
      @@ Size :> Whole(2) @@ <<"_config", "allow_unknown">> :> Flag(0),
    Root :> Text(2) }

Variable(prefix, path, framework) == [prefix |-> prefix, path |-> path, framework |-> framework]
DepthVariable == Variable(None, Depth, TRUE)
RootVariable == Variable(None, Root, TRUE)
ExporterVariable == Variable("observability", Tail(Exporter), TRUE)
KeyVariable == Variable("svc", <<"key">>, FALSE)

TheEnvironments ==
  { DepthVariable :> Whole(3) @@ RootVariable :> Text(0) @@ KeyVariable :> Whole(3),
    RootVariable :> Text(3) @@ ExporterVariable :> Text(2),
    DepthVariable :> Text(1) @@ ExporterVariable :> Text(1) }

TheWrites ==
  {[path |-> w[1], value |-> w[2]] :
     w \in { <<Depth, Whole(5)>>, <<Depth, Text(1)>>, <<InApcore(Depth), Whole(1)>>, <<Exporter, Text(2)>>,
             <<Root, Text(3)>>, <<InApcore(Root), Text(3)>>, <<Key, Whole(3)>> }}

TheMounts == {Key :> Whole(0) @@ Depth :> Whole(0), Root :> Text(0) @@ Size :> Text(1)}
(* The samples of the control plane: what two callers may ask.             *)
Update(k, v) == [op |-> "update", cell |-> <<"config", k>>, value |-> v]
Toggle(m, v) == [op |-> "toggle", cell |-> <<"toggle", m>>, value |-> v]
ReloadOf(ms, refresh) == [op |-> "reload", modules |-> ms, refresh |-> refresh]
TheControlKeys == {"limit", "secret", "enabled", "events", "control"}
LegalSetting(k, v) == ~(k = "limit" /\ v = "9")
FirstAsks ==
  {Update("limit", "1"), Update("secret", "9"), Update("enabled", "false"), Toggle("a", "false"),
   ReloadOf({"a", "b"}, TRUE)}
SecondAsks ==
  {Update("limit", "2"), Update("limit", "9"), Update("events", "false"), Update("secret", "8"),
   Toggle("a", "true"), ReloadOf({"a", "b"}, FALSE)}

(* The samples of discovery: ids, versions, file systems, sorts, batches.  *)
TheRanking ==
  << <<"B">>, <<"a">>, <<"a", "b">>, <<"a", "c">>, <<"b">>, <<"c">>, <<"d", "a", "b">>, <<"d", "c">>,
     <<"d", "e", "b">>, <<"d", "x">>, <<"ghost">>, <<"system", "x">>, <<"z">> >>
LowerId(id) == IF id = <<"B">> THEN <<"b">> ELSE id

Clause(op, operand) == [op |-> op, operand |-> operand]
BadClause == Clause("malformed", <<>>)
TheHints ==
  {None, <<BadClause>>, <<Clause("=", <<1>>)>>, <<Clause("^", <<1, 2>>)>>, <<Clause("^", <<0, 2, 1>>)>>,
   <<Clause("^", <<0, 0, 1>>)>>, <<Clause("~", <<0>>)>>, <<Clause("~", <<1, 2>>)>>,
   <<Clause(">=", <<1>>), Clause("<", <<2>>)>>, <<Clause(">", <<0, 2, 1>>), BadClause>>, <<Clause("<=", <<0, 2>>)>>}
TheVersions == {<<0, 0, 1>>, <<0, 2, 1>>, <<1>>, <<1, 0, 0>>, <<1, 3>>, <<2>>}

Need(on) == [on |-> on, wants |-> None, optional |-> FALSE]
Meta(entryPoint, product, version, deps) ==
  [entryPoint |-> entryPoint, product |-> product, version |-> version, deps |-> deps]
PlainMeta == Meta("given", "module", None, <<>>)
TheMetas ==
  {PlainMeta, Meta("given", "module", <<0, 2, 1>>, <<Need(<<"a">>)>>),
   Meta("given", "module", None, <<Need(<<"b">>), Need(<<"c">>)>>),
   Meta("given", "module", None, <<[on |-> <<"a">>, wants |-> <<Clause("^", <<0, 2>>)>>, optional |-> TRUE], Need(<<"b">>)>>),
   Meta("given", "module", <<2>>, <<[on |-> <<"c">>, wants |-> <<Clause("~", <<1>>)>>, optional |-> FALSE]>>),
   Meta("given", "module", None, <<[on |-> <<"b">>, wants |-> <<BadClause>>, optional |-> TRUE]>>),
   Meta("given", "module", <<1, 3>>, <<[on |-> <<"ghost">>, wants |-> None, optional |-> TRUE]>>)}

At(parent, kind, name) ==
  [parent |-> parent, kind |-> kind, name |-> name, shown |-> TRUE, module |-> TRUE, target |-> None, meta |-> PlainMeta]
Link(parent, name, target) == [At(parent, "link", name) EXCEPT !.target = target]
Hidden(e) == [e EXCEPT !.shown = FALSE]
WithMeta(e, meta) == [e EXCEPT !.meta = meta]
Top(t) == [top |-> t, basename |-> "d", namespace |-> None, declared |-> FALSE, missing |-> FALSE]
NoMap == [kind |-> "none"]
Disk(entries, roots, idMap) ==
  [entries |-> entries, roots |-> roots, idMap |-> idMap, depth |-> 2, follows |-> TRUE, factory |-> TRUE]
RootEntry == At(None, "dir", <<>>)
Named(meta1, meta2, meta3) ==
  "top" :> RootEntry @@ "fa" :> WithMeta(At("top", "file", <<"a">>), meta1)
  @@ "fb" :> WithMeta(At("top", "file", <<"b">>), meta2) @@ "fc" :> WithMeta(At("top", "file", <<"c">>), meta3)
Linked ==
  "top" :> RootEntry @@ "out" :> RootEntry @@ "away" :> At("out", "file", <<"z">>)
  @@ "d" :> At("top", "dir", <<"d">>) @@ "dx" :> At("d", "file", <<"x">>) @@ "e" :> At("d", "dir", <<"e">>)
  @@ "deep" :> At("e", "file", <<"b">>)
  @@ "lie" :> Link("top", <<"l">>, "e") @@ "back" :> Link("d", <<"k">>, "top") @@ "escape" :> Link("top", <<"o">>, "out")
  @@ "void" :> Link("top", <<"v">>, None) @@ "hidden" :> Hidden(At("top", "dir", <<"_h">>))
  @@ "hx" :> At("hidden", "file", <<"z">>) @@ "note" :> [At("top", "file", <<"c">>) EXCEPT !.module = FALSE]
Twins == "top" :> RootEntry @@ "ab" :> At("top", "file", <<"a", "b">>) @@ "da" :> At("top", "dir", <<"a">>)
         @@ "dab" :> At("da", "file", <<"b">>) @@ "fc" :> At("top", "file", <<"c">>)
Renaming(ids) == [kind |-> "read", ids |-> ids]
Small == Named(PlainMeta, PlainMeta, PlainMeta)
TheDisks ==
  {Disk(Named(x, y, z), <<Top("top")>>, NoMap) : x, y, z \in TheMetas}
  \cup {[Disk(Linked, <<Top("top")>>, NoMap) EXCEPT !.depth = n, !.follows = f] : n \in {2, 3}, f \in {TRUE, FALSE}}
  \cup {Disk(Twins, r, NoMap) :
          r \in {<<Top("top")>>, <<Top("top"), [Top("da") EXCEPT !.declared = TRUE, !.namespace = "a"]>>,
                 <<[Top("top") EXCEPT !.declared = TRUE], Top("da")>>, <<[Top("top") EXCEPT !.missing = TRUE]>>, <<>>}}
  \cup {Disk(Small, <<Top("top")>>, m) :
          m \in {[kind |-> "missing"], [kind |-> "broken"], Renaming(<< <<"a">> >> :> <<"b">>),
                 Renaming(<< <<"a">> >> :> <<"system", "x">>), Renaming(<< <<"a">> >> :> <<"ephemeral", "x">>),
                 Renaming(<< <<"a">> >> :> <<"B">> @@ << <<"c">> >> :> <<"d", "x", "y", "z">>)}}
  \cup {Disk(Named(PlainMeta, x, PlainMeta), <<Top("top")>>, NoMap) :
          x \in {Meta("empty", "module", None, <<>>), Meta("broken", "module", None, <<>>),
                 Meta("given", "error", None, <<>>), Meta("given", "none", None, <<>>)}}
  \cup {[Disk(Small, <<Top("top")>>, NoMap) EXCEPT !.factory = FALSE]}
  \cup (IF Loose THEN {Disk("top" :> RootEntry @@ "fa" :> At("top", "file", <<"a">>) @@ "la" :> Link("top", <<"b">>, "fa"),
                            <<Top("top")>>, NoMap)} ELSE {})

Mod(id, deps) == [id |-> id, deps |-> deps]
TheCalls ==
  {[mods |-> m, known |-> k, versions |-> <<>>] :
     m \in {<<Mod(<<"a">>, <<Need(<<"ghost">>)>>), Mod(<<"b">>, <<Need(<<"a">>)>>)>>,
            <<Mod(<<"a">>, <<Need(<<"b">>)>>), Mod(<<"b">>, <<Need(<<"a">>), Need(<<"ghost">>)>>)>>,
            <<Mod(<<"a">>, <<Need(<<"a">>)>>)>>, <<>>},
     k \in {{<<"a">>, <<"b">>}, {<<"a">>, <<"b">>, <<"ghost">>}}}

Class(segment, marked, loads) == [segment |-> segment, marked |-> marked, loads |-> loads]
Batch(base, classes) == [base |-> base, classes |-> classes]
TheBatches ==
  {Batch(<<"a">>, <<Class("x", FALSE, TRUE), Class("b", TRUE, TRUE), Class("c", TRUE, ok)>>) : ok \in BOOLEAN}
  \cup {Batch(<<"a">>, c) : c \in {<<Class("b", TRUE, TRUE)>>, <<Class("b", FALSE, TRUE), Class("c", FALSE, TRUE)>>,
         <<Class("b", TRUE, TRUE), Class("b", TRUE, TRUE)>>, <<Class("b", TRUE, TRUE), Class(None, TRUE, TRUE)>>, <<>>}}
  \cup {Batch(<<"a", "b", "c">>, <<Class("b", TRUE, TRUE), Class("c", TRUE, TRUE)>>),
        Batch(<<"system">>, <<Class("x", TRUE, TRUE), Class("y", FALSE, TRUE)>>)}

(* Pipelines.                                                              *)
Unset == [matches |-> None, ignores |-> None, pure |-> None, timeout |-> None, keys |-> {"known"}]
Fields(step, fields) == fields @@ [step |-> step] @@ Unset
Insertion(name, type, at, anchor) ==
  [name |-> name, type |-> type, at |-> at, anchor |-> anchor, handler |-> FALSE] @@ Unset
CustomStep(name, gate, requires, provides) ==
  [name |-> name, gate |-> gate, removable |-> TRUE, replaceable |-> TRUE, pure |-> gate = "acl",
   requires |-> requires, provides |-> provides, matches |-> None, ignores |-> FALSE, timeout |-> 0]
Audit == CustomStep("audit", None, {"module"}, {"receipt"})
Bill  == CustomStep("bill", None, {"receipt"}, {})
TheSteps == {Bill, CustomStep("acl_check", None, {}, {}), CustomStep("gate", "approval", {"module"}, {}),
             [CustomStep("weak", "acl", {}, {}) EXCEPT !.ignores = TRUE]}
TheStepLists ==
  {<<Audit>>, <<CustomStep("look", None, {}, {"module"}), Audit, Bill>>,
   <<CustomStep("gate", "acl", {}, {}), CustomStep("look", None, {}, {"module"}), CustomStep("gate", None, {}, {})>>,
   <<CustomStep("look", None, {}, {"module"}), CustomStep("gate", "acl", {"module"}, {})>>}
WrappersMake(step) ==
  {[step EXCEPT !.ignores = TRUE], [step EXCEPT !.gate = None, !.matches = {"a"}], [step EXCEPT !.name = "execute"]}
PipelineSection(remove, configure, insert) == [remove |-> remove, configure |-> configure, insert |-> insert, limit |-> 2]
TheSections ==
  {PipelineSection(r, c, i) :
     r \in {<<>>, <<"acl_check">>, <<"approval_gate", "input_validation">>, <<"execute">>, <<"ghost">>},
     c \in {<<>>, <<Fields("acl_check", [timeout |-> 1])>>, <<Fields("approval_gate", [pure |-> TRUE])>>,
            <<Fields("execute", [timeout |-> 2]), Fields("module_lookup", [timeout |-> 1])>>,
            <<Fields("approval_gate", [timeout |-> 1, pure |-> FALSE]), Fields("execute", [ignores |-> TRUE])>>,
            <<Fields("acl_check", [matches |-> {"a"}])>>, <<Fields("execute", [keys |-> {"unknown"}])>>,
            <<Fields("execute", [timeout |-> 3])>>},
     i \in {<<>>, <<Insertion("a", "audit", "after", "module_lookup"), Insertion(None, "bill", "after", "a")>>,
            <<Insertion("b", "bill", "before", "execute")>>, <<Insertion("acl_check", "audit", "after", "execute")>>,
            <<Insertion("a", "audit", "before", "module_lookup")>>, <<Insertion("g", "gate", "before", "execute")>>,
            <<[Insertion("g", "gate", "before", "execute") EXCEPT !.ignores = TRUE]>>,
            <<Insertion("long", "audit", "after", "execute")>>, <<Insertion("x", "audit", "nowhere", None)>>}}
  \cup {[PipelineSection(<<>>, <<Fields("execute", [timeout |-> 3])>>, <<Insertion("long", "audit", "after", "execute")>>) EXCEPT !.limit = None]}
TheFactories == "audit" :> Audit @@ "bill" :> Bill @@ "gate" :> CustomStep("gate", "approval", {"module"}, {})

(* Runs of the engine: a lookup that may find nothing, a gate that may     *)
(* skip, abort or fail, a step with effects, and one that needs both.      *)
RunStep(name, pure, matched, ignores, requires, provides, does) ==
  [name |-> name, pure |-> pure, matched |-> matched, ignores |-> ignores,
   requires |-> requires, provides |-> provides, does |-> does, target |-> "out"]

ThePipelines == {
  << RunStep("look", TRUE, TRUE, FALSE, {}, {"module"}, {"continue", "fail"}),
     RunStep("gate", TRUE, TRUE, ignored, {"module"}, {"leave"}, {"continue", "abort", "skip_to", "fail"}),
     RunStep("work", FALSE, matched, FALSE, {"module"}, {"output"}, {"continue", "timeout"}),
     RunStep("out", TRUE, TRUE, FALSE, {"leave"}, {}, last) >> :
  ignored \in BOOLEAN, matched \in BOOLEAN, last \in {{"continue"}, {"other", "skip_to"}} }

RunOption(stop, only, until, dry) == [stop |-> stop, only |-> only, until |-> until, dry |-> dry]

TheRunOptions(none) == {
  RunOption(none, none, none, FALSE), RunOption("work", none, none, FALSE),
  RunOption(none, {"gate", "out"}, none, FALSE), RunOption(none, none, "gate", FALSE),
  RunOption(none, none, none, TRUE) }
(* Values, schemas and rules of data capture.                              *)
Leaf(t)      == [is |-> "text", of |-> t]
NullValue    == [is |-> "null", of |-> ""]
Object(of)   == [is |-> "object", of |-> of]
ListOf(of)    == [is |-> "array", of |-> of]
SomeField(v) == Object("field" :> v)
Deep         == Object("user" :> Object("password" :> Leaf("x") @@ "name" :> Leaf("bearer") @@ "inner" :> SomeField(Leaf("y"))))
ThePayloads ==
  << Object("user" :> Object("password" :> NullValue @@ "_secret_a" :> Leaf("x") @@ "trace_id" :> Leaf("bearer"))
            @@ "list" :> ListOf("0" :> Leaf("bearer") @@ "1" :> SomeField(Leaf("y"))) @@ "trace_id" :> SomeField(Leaf("bearer"))),
     Object("next" :> Object("next" :> SomeField(Leaf("x")) @@ "field" :> Leaf("y")) @@ "_secret_a" :> NullValue
            @@ "list" :> ListOf("0" :> Deep @@ "1" :> ListOf("0" :> Leaf("x")))),
     Leaf("bearer"),
     ListOf("0" :> Leaf("x") @@ "1" :> Object("_secret_a" :> Leaf("y"))) >>
TheOutputs == << Deep, Leaf("x"), SomeField(NullValue) >>
TheChunkLists ==
  << << Deep, Object("user" :> Object("name" :> Leaf("x") @@ "inner" :> Object("other" :> Leaf("z")))) >>,
     << SomeField(Leaf("x")), Deep, Object("user" :> Leaf("y")), Object("user" :> SomeField(Leaf("z"))) >>,
     << Deep, Leaf("x") >>, << >> >>
SchemaNode == [sensitive |-> FALSE, ref |-> {}, branches |-> {}, properties |-> <<>>, prefix |-> <<>>, items |-> None]
TheSchema ==
  "plain"  :> SchemaNode
  @@ "tree"   :> [SchemaNode EXCEPT !.properties = "next" :> "again" @@ "field" :> "secret" @@ "list" :> "tuple"]
  @@ "again"  :> [SchemaNode EXCEPT !.ref = {"tree"}]
  @@ "tuple"  :> [SchemaNode EXCEPT !.prefix = <<"plain">>, !.items = "either"]
  @@ "either" :> [SchemaNode EXCEPT !.branches = {"plain", "through"}, !.ref = {"either"}]
  @@ "through" :> [SchemaNode EXCEPT !.ref = {"secret"}]
  @@ "secret" :> [SchemaNode EXCEPT !.sensitive = TRUE]
  @@ "whole"  :> [SchemaNode EXCEPT !.branches = {"secret", "users"}]
  @@ "users"  :> [SchemaNode EXCEPT !.properties = "user" :> "user"]
  @@ "user"   :> [SchemaNode EXCEPT !.properties = "name" :> "secret", !.ref = {"tree"}]
Setting(canonical, legacy) == [canonical |-> canonical, legacy |-> legacy]
TheSettings ==
  {[keys |-> Setting(<<>>, <<>>), patterns |-> Setting(<<>>, <<>>), replacement |-> Setting(<<>>, <<>>)],
   [keys |-> Setting(<<{}>>, <<{"name"}>>), patterns |-> Setting(<<{"bear.*", "("}>>, <<>>), replacement |-> Setting(<<>>, <<"#">>)],
   [keys |-> Setting(<<>>, <<{"*e*"}>>), patterns |-> Setting(<<>>, <<{"bear.*"}>>), replacement |-> Setting(<<"-">>, <<"#">>)]}
TheBuilders ==
  {[keys |-> {"name"}, patterns |-> p, replacement |-> "#"] : p \in {{"bear.*"}, {"("}}}
EntryCovers ==
  "name" :> {"name"} @@ "password" :> {"password"} @@ "_secret_*" :> {"_secret_a"} @@ "bear.*" :> {"bearer"} @@ "(" :> {}
  @@ "*e*" :> {"field", "next", "name", "trace_id", "user", "inner", "other", "_secret_a"}
(* Schema files: definitions within a document and within one of its       *)
(* schemas, recursive and circular ones, chains, and other files.          *)
Words(t)          == [is |-> "leaf", of |-> t]
RefTo(name, path) == [is |-> "ref", of |-> <<name, path>>]
Refer(name, path) == Object("$ref" :> RefTo(name, path))
ReferWith(name, path, siblings) == Object("$ref" :> RefTo(name, path) @@ siblings)
Here(k)           == Refer("", <<"$defs", k>>)
Defs(of)          == "$defs" :> Object(of)
Interface(input, output) ==
  Object("module_id" :> Words("a") @@ "input_schema" :> Object(input) @@ "output_schema" :> Object(output))
Noted   == Object("note" :> Words("theirs") @@ "kind" :> Words("str"))
Node    == Object("next" :> Here("node") @@ "v" :> Words("int"))

TheLoneSchemas == {
  Object("child" :> Refer("", <<>>) @@ "v" :> Words("int")),
  Object("$id" :> Words("tree") @@ "child" :> Refer("tree", <<>>) @@ "w" :> Refer("", <<"v">>) @@ "v" :> Words("int")),
  Object(Defs("node" :> Node) @@ "head" :> Here("node")),
  Object("again" :> Refer("ma", <<>>) @@ "v" :> Words("int")),
  Object(Defs("p" :> Here("q") @@ "q" :> Here("p")) @@ "x" :> Here("p")),
  Object(Defs("p" :> Here("q") @@ "q" :> Words("int")) @@ "x" :> Object("y" :> Object("z" :> Here("p")))),
  Object(Defs("p" :> Here("q") @@ "q" :> Here("r") @@ "r" :> Words("int")) @@ "x" :> Here("p")),
  Object("x" :> Refer("common", <<>>) @@ "y" :> Refer("absent", <<>>)),
  Object("x" :> Refer("common", <<"nothing">>)),
  Object("x" :> Refer("b", <<>>)),
  Object("x" :> ReferWith("shared", <<>>, "note" :> Here("t")) @@ Defs("t" :> Words("mine"))) }
TheInterfaces == {
  Interface("x" :> ReferWith("", <<"$defs", "t">>, "note" :> Words("mine")) @@ Defs("t" :> Noted), "y" :> Refer("@lib", <<"detail">>)),
  Interface("x" :> Here("t") @@ Defs("t" :> Noted), "y" :> Here("t")),
  Interface("x" :> Refer("@lib", <<"lonely">>) @@ Defs("t" :> Noted), "y" :> Refer("common", <<"field">>)),
  Interface("x" :> ReferWith("common", <<"field">>, "note" :> Words("lost")), Defs("node" :> Node) @@ "y" :> Here("node")),
  [Interface("x" :> Here("t") @@ "z" :> Here("only") @@ Defs("t" :> Words("inner") @@ "only" :> Words("int")), "y" :> Here("t"))
     EXCEPT !.of = @ @@ Defs("t" :> Words("outer"))],
  Object("input_schema" :> Noted @@ "output_schema" :> Noted),
  Object("output_schema" :> Object("y" :> Here("t")) @@ Defs("t" :> Refer("@lib", <<"detail">>))) }
(* One name for two definitions, and recursion that leaves its document.   *)
TheLooseSchemas == {
  Object(Defs("t" :> Refer("@lib", <<"lonely">>)) @@ "x" :> Here("t")),
  Object("x" :> Refer("@lib", <<"loop">>)),
  [Interface("x" :> Here("node"), "y" :> Words("int")) EXCEPT !.of = @ @@ Defs("node" :> Node)] }

TheLibraries(loose) ==
  { "a" :> d
    @@ "b" :> [is |-> "broken", of |-> ""]
    @@ "dir/lib" :> Object(
         "definitions" :> Object("detail" :> Object("code" :> Here("code") @@ "next" :> Refer("common", <<"field">>))
                                 @@ "lonely" :> Here("t") @@ "loop" :> Refer("", <<"definitions", "turn">>)
                                 @@ "turn" :> Object("more" :> Refer("", <<"definitions", "turn">>)))
         @@ Defs("code" :> Words("int")))
    @@ "common" :> Object("field" :> Words("outside"))
    @@ "dir/common" :> Object("field" :> Words("inside")) :
    d \in TheLoneSchemas \cup TheInterfaces \cup (IF loose THEN TheLooseSchemas ELSE {}) }
TheFileNamed(from, name, none) ==
  CASE name = "@lib"   -> "dir/lib"
    [] name = "common" -> IF from = "dir/lib" THEN "dir/common" ELSE "common"
    [] name = "b"      -> "b"
    [] OTHER           -> none
TheRegistered == {<<"shared", Object("note" :> Words("theirs") @@ "up" :> Refer("", <<"note">>))>>, <<"ma", Noted>>}
TheNatives(none) == {none, [input |-> Words("native"), output |-> Words("native")]}
=============================================================================
