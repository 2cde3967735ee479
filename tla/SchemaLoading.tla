---------------------------- MODULE SchemaLoading ----------------------------
(***************************************************************************)
(* Loading of schemas (src/src/schema/loader.rs) and the resolution of     *)
(* their references (src/src/schema/ref_resolver.rs): within a document,   *)
(* to registered schemas and across files, with recursive schemas left     *)
(* lazy, circular ones refused and a limit on the depth.                   *)
(*                                                                         *)
(* A value is an object [is |-> "object", of |-> a function from keys], a  *)
(* leaf [is |-> "leaf", of |-> a text], or, under the key "$ref", a        *)
(* reference [is |-> "ref", of |-> <<name, path>>]: the name "" is that of *)
(* the document itself.  A file that does not parse is [is |-> "broken"].  *)
(***************************************************************************)
EXTENDS Naturals, Sequences

CONSTANTS
  Libraries,      \* the files there may be: functions from files to values
  ModuleIds, FileOf,       \* the ids, and the file each is loaded from, None for none
  Registrations,  \* pairs of a name and a value that are loaded from memory
  FileNamed(_, _),         \* the file a name means in a file (None at the top), None for none
  Natives,        \* what a module offers itself: None, or [input, output]
  SchemaStrategies, MaxRefDepth,
  MaxSchemaLoads, Unfolding,   \* bounds: operations, and how deep schemas are compared
  None

VARIABLES
  library, schemaStrategy,
  schemas,        \* the loader's schemas in memory, by name
  answer,         \* what the last load returned
  loads

vars == <<library, schemaStrategy, schemas, answer, loads>>

Ok(v)      == [ok |-> TRUE, value |-> v]
Fail(code) == [ok |-> FALSE, value |-> code]
Has(v, k)  == v.is = "object" /\ k \in DOMAIN v.of

RECURSIVE Pointer(_, _)
Pointer(v, path) ==
  CASE path = <<>> -> Ok(v)
    [] path # <<>> /\ Has(v, Head(path)) -> Pointer(v.of[Head(path)], Tail(path))
    [] OTHER -> Fail("not found")

FirstOf(tries) ==
  IF \E i \in DOMAIN tries : tries[i].ok
  THEN tries[CHOOSE i \in DOMAIN tries : tries[i].ok /\ \A j \in 1..i - 1 : ~tries[j].ok]
  ELSE Fail("not found")

-----------------------------------------------------------------------------
(* Where a reference leads: its value, the document to go on in, and the   *)
(* key under which it is remembered.  The fallback stays with the document *)
(* that resolution began in; the known schemas go along.                   *)
DocumentBase(known, root, file, fallback) == [known |-> known, root |-> root, file |-> file, fallback |-> fallback]
Target(value, base, key)   == Ok([value |-> value, base |-> base, key |-> key])

Reached(found, base, key)  == IF found.ok THEN Target(found.value, base, key) ELSE found

LookupLocal(ref, base) ==
  Reached(FirstOf(<<Pointer(base.root, ref[2])>>
                  \o (IF base.fallback = None THEN <<>> ELSE <<Pointer(base.fallback, ref[2])>>)),
          base, IF base.file = None THEN ref ELSE <<base.file, ref[2]>>)

LoadSchemaDocument(file) ==
  CASE file = None \/ file \notin DOMAIN library -> Fail("not found")
    [] library[file].is = "broken" -> Fail("parse")
    [] OTHER -> Ok(library[file])

LookupIn(doc, file, path, known) ==
  IF ~doc.ok THEN doc
  ELSE Reached(FirstOf([i \in 1..3 |-> Pointer(doc.value, << <<>>, <<"definitions">>, <<"$defs">> >>[i] \o path)]),
               DocumentBase(known, doc.value, file, None), <<file, path>>)
LookupFile(ref, base) ==
  LET file == FileNamed(base.file, ref[1]) IN LookupIn(LoadSchemaDocument(file), file, ref[2], base.known)

LookupRef(ref, base) ==
  CASE ref[1] = "" -> LookupLocal(ref, base)
    [] ref[1] # "" /\ ref[1] \in DOMAIN base.known /\ ref[2] = <<>> ->
         Target(base.known[ref[1]], DocumentBase(base.known, base.known[ref[1]], None, None), <<"registered", <<ref[1]>>>>)
    [] OTHER -> LookupFile(ref, base)

(* References that mean the document itself.                               *)
RootRefAliases(document) ==
  {<<"", <<>>>>} \cup (IF Has(document, "$id") THEN {<<document.of["$id"].of, <<>>>>} ELSE {})

RECURSIVE ResolveInner(_, _, _, _, _)
Gather(part) ==
  IF \A k \in DOMAIN part : part[k].ok THEN Ok([k \in DOMAIN part |-> part[k].value])
  ELSE part[CHOOSE k \in DOMAIN part : ~part[k].ok]
ResolveParts(of, keys, base, seen, depth) ==
  Gather([k \in keys |-> ResolveInner(of[k], base, seen, depth, FALSE)])

(* The keys beside a reference go over those of its target.                *)
Overlay(target, siblings) ==
  IF ~siblings.ok THEN siblings
  ELSE Ok([target EXCEPT !.of = [k \in DOMAIN @ \cup DOMAIN siblings.value |->
                                   IF k \in DOMAIN siblings.value THEN siblings.value[k] ELSE @[k]]])
WithSiblings(node, result, base, seen, depth) ==
  IF ~result.ok \/ result.value.is # "object" THEN result
  ELSE Overlay(result.value, ResolveParts(node.of, DOMAIN node.of \ {"$ref"}, base, seen, depth))

(* A reference met again right behind a reference is a circle; one met     *)
(* again inside a schema is left for the validator.                        *)
FollowTo(node, ref, target, base, seen, depth, chained) ==
  CASE ref \in seen \/ (target.ok /\ target.value.key \in seen) ->
         IF chained THEN Fail("circular") ELSE Ok(node)
    [] ref \notin seen /\ ~target.ok -> target
    [] OTHER ->
         WithSiblings(node, ResolveInner(target.value.value, target.value.base,
                                         seen \cup {ref, target.value.key}, depth + 1, TRUE), base, seen, depth)
FollowRef(node, ref, base, seen, depth, chained) ==
  FollowTo(node, ref, LookupRef(ref, base), base, seen, depth, chained)

Rebuilt(node, parts) == IF parts.ok THEN Ok([node EXCEPT !.of = parts.value]) ELSE parts
ResolveInner(node, base, seen, depth, chained) ==
  CASE depth >= MaxRefDepth -> Fail("max depth")
    [] depth < MaxRefDepth /\ Has(node, "$ref") -> FollowRef(node, node.of["$ref"].of, base, seen, depth, chained)
    [] depth < MaxRefDepth /\ node.is = "object" /\ ~Has(node, "$ref") ->
         Rebuilt(node, ResolveParts(node.of, DOMAIN node.of, base, seen, depth))
    [] OTHER -> Ok(node)

ResolveInDocument(node, base) == ResolveInner(node, base, RootRefAliases(base.root), 0, FALSE)

(* SchemaLoader::resolve: where the file has no such definition, each of   *)
(* its schemas may have it.                                                *)
SchemaKeys == {"input_schema", "output_schema", "error_schema"}
FallbackFor(document, key) == IF key \in SchemaKeys THEN document.of[key] ELSE None
ByPart(document, whole, parts) ==
  IF whole.ok \/ whole.value # "not found" \/ ~(Has(document, "input_schema") \/ Has(document, "output_schema"))
  THEN whole ELSE Rebuilt(document, parts)
Resolve(known, document, file) ==
  ByPart(document, ResolveInDocument(document, DocumentBase(known, document, file, None)),
         Gather([k \in DOMAIN document.of |->
                   ResolveInDocument(document.of[k], DocumentBase(known, document, file, FallbackFor(document, k)))]))

(* The definition a loaded value stands for: one with both schemas must    *)
(* also name its module.                                                   *)
Empty == [is |-> "object", of |-> <<>>]
ValueToSchemaDef(v) ==
  IF Has(v, "input_schema") /\ Has(v, "output_schema") /\ ~Has(v, "module_id") THEN Fail("parse")
  ELSE Ok([input  |-> IF Has(v, "input_schema") THEN v.of["input_schema"] ELSE v,
           output |-> IF Has(v, "output_schema") THEN v.of["output_schema"] ELSE Empty])

Defined(resolved) == IF resolved.ok THEN ValueToSchemaDef(resolved.value) ELSE resolved

-----------------------------------------------------------------------------
(* The loader.  An answer says where it came from: "memory", "file",       *)
(* "native", or None.                                                      *)
Answer(id, from, result) == [id |-> id, from |-> from, result |-> result]

Init ==
  /\ library \in Libraries /\ schemaStrategy \in SchemaStrategies
  /\ schemas = <<>> /\ answer = None /\ loads = 0

Operation == loads < MaxSchemaLoads /\ loads' = loads + 1 /\ UNCHANGED <<library, schemaStrategy>>
Insert(name, v) == [n \in DOMAIN schemas \cup {name} |-> IF n = name THEN v ELSE schemas[n]]

LoadFromValue(r) ==
  /\ Operation /\ schemas' = Insert(r[1], r[2]) /\ answer' = None

LoadFromFile(id) ==
  LET doc == LoadSchemaDocument(FileOf[id]) IN
  /\ Operation /\ answer' = None
  /\ schemas' = IF doc.ok THEN Insert(id, doc.value) ELSE schemas

(* What load() returns, and what it leaves in memory: what was read, as it *)
(* was read, also when it does not resolve.                                *)
Loaded(id, doc) ==
  CASE id \in DOMAIN schemas -> Answer(id, "memory", ValueToSchemaDef(schemas[id]))
    [] id \notin DOMAIN schemas /\ ~doc.ok -> Answer(id, None, doc)
    [] OTHER -> Answer(id, "file", Defined(Resolve(Insert(id, doc.value), doc.value, FileOf[id])))
Remembered(id, doc) == IF id \notin DOMAIN schemas /\ doc.ok THEN Insert(id, doc.value) ELSE schemas

Load(id) ==
  LET doc == LoadSchemaDocument(FileOf[id]) IN
  /\ Operation /\ answer' = Loaded(id, doc) /\ schemas' = Remembered(id, doc)

(* get_schema(): by strategy, the file or what the module offers.          *)
OrElse(loaded, own) ==
  IF ~loaded.result.ok /\ loaded.result.value = "not found" THEN own ELSE loaded
GetSchema(id, native) ==
  LET doc    == LoadSchemaDocument(FileOf[id])
      loaded == Loaded(id, doc)
      own    == Answer(id, "native", Ok(native))
  IN /\ Operation
     /\ \/ /\ schemaStrategy = "native_first" /\ native # None
           /\ answer' = own /\ UNCHANGED schemas
        \/ /\ schemaStrategy # "native_first" \/ native = None
           /\ schemas' = Remembered(id, doc)
           /\ answer' = IF schemaStrategy = "yaml_first" /\ native # None THEN OrElse(loaded, own) ELSE loaded

Next ==
  \/ \E r \in Registrations : LoadFromValue(r)
  \/ \E id \in ModuleIds : LoadFromFile(id) \/ Load(id) \/ \E native \in Natives : GetSchema(id, native)

-----------------------------------------------------------------------------
(* What schemas mean, whatever was inlined: positions are values with the  *)
(* document they stand in, and a reference is followed there each time.  A *)
(* document may have one more place for its own definitions.               *)
At(value, home)      == [value |-> value, home |-> home]
Home(doc, file, own) == [doc |-> doc, file |-> file, own |-> own]
IsRef(pos)           == Has(pos.value, "$ref")

HomeOf(name, path, from) ==
  LET file == FileNamed(from.file, name) IN
  CASE name = "" \/ <<name, path>> \in RootRefAliases(from.doc) -> from
    [] name \in DOMAIN schemas /\ path = <<>> -> Home(schemas[name], None, <<>>)
    [] file # None /\ file \in DOMAIN library -> Home(library[file], file, <<>>)
    [] OTHER -> Home(None, None, <<>>)
Shared(home) == SelectSeq(<<"definitions", "$defs">>, LAMBDA k : Has(home.doc, k))
Places(home, from) ==
  <<home.doc>> \o (IF home = from THEN home.own
                   ELSE IF home.file = from.file THEN <<>>
                   ELSE [i \in DOMAIN Shared(home) |-> home.doc.of[Shared(home)[i]]])
Meant(found, home) == IF found.ok THEN Ok(At(found.value, home)) ELSE found
LeadsTo(path, home, from) ==
  IF home.doc = None THEN Fail("not found")
  ELSE Meant(FirstOf([i \in DOMAIN Places(home, from) |-> Pointer(Places(home, from)[i], path)]), home)
LeadsFrom(ref, from) == LeadsTo(ref[2], HomeOf(ref[1], ref[2], from), from)
Leads(pos)           == LeadsFrom(pos.value.of["$ref"].of, pos.home)

(* A position with the references behind it, as far as they lead.          *)
RECURSIVE Chain(_, _)
Onward(next, n) == IF next.ok THEN Chain(next.value, n) ELSE <<>>
Chain(pos, n)   == <<pos>> \o (IF n = 0 \/ ~IsRef(pos) THEN <<>> ELSE Onward(Leads(pos), n - 1))
ChainOf(pos)    == Chain(pos, MaxRefDepth)

Circles(chain) == Len(chain) > MaxRefDepth /\ \E i, j \in DOMAIN chain : i < j /\ chain[i] = chain[j]
Dangles(chain) == LET end == chain[Len(chain)] IN IsRef(end) /\ ~Leads(end).ok

EndOf(chain)  == chain[Len(chain)].value
KeysAt(chain) ==
  IF EndOf(chain).is # "object" THEN {} ELSE UNION {DOMAIN chain[i].value.of : i \in DOMAIN chain} \ {"$ref"}
Holder(chain, k)  == CHOOSE i \in DOMAIN chain : Has(chain[i].value, k) /\ \A j \in 1..i - 1 : ~Has(chain[j].value, k)
Part(pos, k)      == At(pos.value.of[k], pos.home)
Below(chain, k)   == ChainOf(Part(chain[Holder(chain, k)], k))

(* Two chains mean the same, as deep as is looked.                         *)
RECURSIVE Same(_, _, _)
Same(c, d, n) ==
  /\ \A chain \in {c, d} : ~Circles(chain) /\ ~Dangles(chain)
  /\ EndOf(c).is = EndOf(d).is
  /\ EndOf(c).is = "leaf" => EndOf(c) = EndOf(d)
  /\ KeysAt(c) = KeysAt(d)
  /\ n > 0 => \A k \in KeysAt(c) : Same(Below(c, k), Below(d, k), n - 1)

(* The chains at and below one, as deep as is looked.                      *)
RECURSIVE Under(_, _)
Under(c, n) == {c} \cup (IF n = 0 THEN {} ELSE UNION {Under(Below(c, k), n - 1) : k \in KeysAt(c)})
SomewhereCircles(c) == \E d \in Under(c, Unfolding) : Circles(d)
SomewhereDangles(c) == \E d \in Under(c, Unfolding) : Dangles(d)

(* The most references that are passed on one way down that meets none     *)
(* twice.                                                                  *)
RECURSIVE Passed(_, _)
Largest(numbers) == CHOOSE m \in numbers : \A o \in numbers : o <= m
PassedBy(c, own, met) ==
  IF own \cap met # {} \/ Circles(c) THEN 0
  ELSE Len(c) - 1 + Largest({0} \cup {Passed(Below(c, k), met \cup own) : k \in KeysAt(c)})
Passed(c, met) == PassedBy(c, {c[i] : i \in DOMAIN c}, met)

(* What a file is read as, before resolution: each of its schemas may have *)
(* definitions of its own.                                                 *)
ReadFrom(id, key) ==
  LET doc == library[FileOf[id]] IN
  CASE Has(doc, key) -> At(doc.of[key], Home(doc, FileOf[id], <<doc.of[key]>>))
    [] ~Has(doc, key) /\ key = "input_schema" -> At(doc, Home(doc, FileOf[id], <<>>))
    [] OTHER -> At(Empty, Home(doc, FileOf[id], <<>>))
AsLoaded(v) == At(v, Home(v, None, <<>>))

(* A schema resolved from its file means what the file says, lazy          *)
(* references included, and is refused only for a fault it has.            *)
TrueResolution(result, in, out) ==
  IF result.ok
  THEN Same(in, ChainOf(AsLoaded(result.value.input)), Unfolding) /\ Same(out, ChainOf(AsLoaded(result.value.output)), Unfolding)
  ELSE \E c \in {in, out} :
         CASE result.value = "circular"  -> SomewhereCircles(c)
           [] result.value = "not found" -> SomewhereDangles(c)
           [] result.value = "max depth" -> MaxRefDepth <= Passed(c, {})
           [] OTHER -> TRUE
ResolutionIsTrue ==
  (answer # None /\ answer.from = "file") =>
    TrueResolution(answer.result, ChainOf(ReadFrom(answer.id, "input_schema")), ChainOf(ReadFrom(answer.id, "output_schema")))

(* Observations, not checked: a later load of the id answers as the first  *)
(* did; a module's own schema stands in only where there is no file.       *)
AgainTheSame ==
  (answer # None /\ answer.from = "memory" /\ FileOf[answer.id] # None /\ schemas[answer.id] = library[FileOf[answer.id]]) =>
    LET r == Resolve(schemas, library[FileOf[answer.id]], FileOf[answer.id]) IN
    r.ok /\ answer.result = ValueToSchemaDef(r.value)
NativeWithoutFile ==
  (answer # None /\ answer.from = "native" /\ schemaStrategy = "yaml_first") => FileOf[answer.id] = None
=============================================================================
