--------------------------- MODULE Configuration ---------------------------
(***************************************************************************)
(* Config (config.rs): a document loaded from a file or from the defaults, *)
(* overridden by the environment, then by set, mount and reload.  A tree   *)
(* is the function from its leaves (paths of keys) to values.  Some leaves *)
(* are typed: they live in a struct field besides the tree, and every      *)
(* reader reconciles the two.                                              *)
(***************************************************************************)
EXTENDS Integers, Sequences, FiniteSets, SequencesExt

CONSTANTS
  Typed,              \* the leaves with a struct field
  TypedDefault,       \* their defaults
  Defaults,           \* CONFIG_DEFAULTS, a tree
  Required,           \* the required leaves
  PathTyped,          \* leaves that hold a filesystem path
  Declared,           \* FRAMEWORK_CONFIG_KEYS
  Namespaces,         \* the namespaces packages register, to their defaults
  Builtin,            \* those of the framework itself
  Width,              \* 2^32, of the executor's counters
  Documents, Environments,  \* the trees a file holds, the variables that are set
  Writes, Mounts,           \* what set and mount are called with
  Fits(_, _),         \* the value has the type of the leaf
  Legal(_, _),        \* it satisfies the leaf's entry of the constraint table
  Consistent(_),      \* the typed leaves agree (otlp_endpoint needs its exporter)
  Absent,             \* no value
  MaxGeneration       \* bound on the changes of a loaded configuration

VARIABLES
  namespaces,   \* the namespaces in the global registry
  environ,      \* the environment of the process
  config,       \* the live Config, or Absent
  writes,       \* history: what was written since the file was read
  source,       \* history: the document last read, and what was dropped of it
  checked       \* history: validate passed and nothing changed since

vars == <<namespaces, environ, config, writes, source, checked>>

Object == [kind |-> "object", n |-> 0]
Whole(v) == [kind |-> "int", n |-> v]
Text(v) == [kind |-> "text", n |-> v]     \* Text(0) is the empty string
Flag(v) == [kind |-> "bool", n |-> v]
Executor == "executor"
Observability == "observability"
Apcore == "apcore"

(* Trees.                                                                  *)
Empty == [p \in {} |-> Absent]
Heads(tree) == {p[1] : p \in DOMAIN tree}
Keep(tree, leaves) == [p \in DOMAIN tree \cap leaves |-> tree[p]]
Section(tree, name) == Keep(tree, {p \in DOMAIN tree : p[1] = name})

(* A value replaces what lies under its path, and any scalar on the way.   *)
Put(tree, path, value) ==
  LET others == {p \in DOMAIN tree : ~IsPrefix(p, path) /\ ~IsPrefix(path, p)}
  IN [p \in others \cup {path} |-> IF p = path THEN value ELSE tree[p]]

Overlay(tree, top) == FoldSet(LAMBDA p, t : Put(t, p, top[p]), tree, DOMAIN top)

Lookup(tree, path) ==
  IF path \in DOMAIN tree THEN tree[path]
  ELSE IF \E p \in DOMAIN tree : IsPrefix(path, p) THEN Object ELSE Absent

(* Config::deserialize.  The members of the apcore mapping are lifted to   *)
(* the top, over what stands there.                                        *)
HasMapping(tree, name) == \E p \in DOMAIN tree : p[1] = name /\ Len(p) > 1
Mode(tree) == IF HasMapping(tree, Apcore) THEN "namespace" ELSE "legacy"
Qualified(path) == <<Apcore>> \o path
Members(tree) == {p \in DOMAIN tree : p[1] = Apcore /\ Len(p) > 1}
Lifted(tree) ==
  LET own == {p \in DOMAIN tree : \A q \in Members(tree) : q[2] # p[1]}
      up == {Tail(q) : q \in Members(tree)}
  IN [p \in own \cup up |-> IF p \in up THEN tree[Qualified(p)] ELSE tree[p]]

ConfigFlag(tree, name, default) ==
  LET v == Lookup(tree, <<"_config", name>>)
  IN IF v \in {Flag(0), Flag(1)} THEN v = Flag(1) ELSE default

(* apply_allow_unknown: it goes by the names at the top of the document,   *)
(* so a lifted section of the same name goes too, and by the registry as   *)
(* it is before the load registers the built-in namespaces.                *)
Dropped(tree) ==
  IF \/ Mode(tree) = "legacy"
     \/ ConfigFlag(tree, "strict", FALSE)
     \/ ConfigFlag(tree, "allow_unknown", TRUE)
  THEN {}
  ELSE Heads(tree) \ (namespaces \cup {Apcore, "_config"})

(* The executor's counters are u32.                                        *)
Narrow(path, value) ==
  IF path[1] = Executor /\ value.kind = "int" THEN Whole(value.n % Width) ELSE value

Parses(tree) ==
  \A p \in Typed : LET v == Lookup(Lifted(tree), p) IN
    /\ v # Absent => Fits(p, v) /\ v = Narrow(p, v)
    /\ \A q \in DOMAIN Lifted(tree) : IsPrefix(q, p) => q = p

TypedFrom(tree) == [p \in Typed |-> IF p \in DOMAIN tree THEN tree[p] ELSE TypedDefault[p]]

Parsed(tree) ==
  [typed |-> TypedFrom(Lifted(tree)),
   raw |-> Keep(Lifted(tree), {p \in DOMAIN Lifted(tree) : p[1] \notin Dropped(tree)}),
   mode |-> Mode(tree), mounts |-> <<>>, generation |-> 0]

(* init_builtin_namespaces has run before anything reads a configuration.  *)
Known == namespaces \cup Builtin

(* Readers.  The typed leaves lie over the tree of their section.          *)
(* Mutant: the tree lies over the typed leaves.                            *)
ViewTreeWins(c, name) == Overlay(Section(c.typed, name), Section(c.raw, name))

View(c, name) == Overlay(Section(c.raw, name), Section(c.typed, name))

TypedField(c, path) == c.typed[path]

Direct(c, path) ==
  IF path \in Typed THEN TypedField(c, path)
  ELSE IF path[1] = Executor \/ (path[1] = Observability /\ Observability \in Heads(c.raw))
  THEN Lookup(View(c, path[1]), path)
  ELSE IF path[1] = Observability THEN Absent
  ELSE Lookup(c.raw, path)

FallsBack(c, path) == c.mode = "namespace" /\ path[1] # Apcore /\ Apcore \in Heads(c.raw)

RegisteredDefault(path) ==
  IF path[1] \in Known THEN Lookup(Namespaces[path[1]], path) ELSE Absent

FirstOf(values) == IF \E i \in DOMAIN values : values[i] # Absent
                   THEN values[CHOOSE i \in DOMAIN values :
                                 values[i] # Absent /\ \A j \in 1 .. i - 1 : values[j] = Absent]
                   ELSE Absent

DefaultFor(path) == Lookup(Defaults, path)

Get(c, path) ==
  FirstOf(<<Direct(c, path),
            IF FallsBack(c, path) THEN Direct(c, Qualified(path)) ELSE Absent,
            IF c.mode = "namespace" THEN RegisteredDefault(path) ELSE Absent,
            DefaultFor(path)>>)

AsWritten(c, path) == Lookup(c.raw, path)

GetDeclared(c, path) ==
  FirstOf(<<AsWritten(c, path), IF FallsBack(c, path) THEN AsWritten(c, Qualified(path)) ELSE Absent>>)

(* namespace() and bind(), as a tree.                                      *)
NamespaceOf(c, name) ==
  Overlay(IF name \in Known THEN Namespaces[name] ELSE Empty,
          IF name \in {Executor, Observability} THEN View(c, name) ELSE Section(c.raw, name))

(* data(): the document as it serialises.                                  *)
Data(c) == Overlay(c.raw, c.typed)

(* validate()                                                              *)
FrameworkSections == {d[1] : d \in Declared}

UnknownKeys(c) ==
  {p \in DOMAIN c.raw : /\ Len(p) > 1 /\ (\E d \in Declared : d[1] = p[1] /\ Len(d) > 1)
                        /\ ~\E d \in Declared : IsPrefix(p, d) \/ IsPrefix(d, p)}

UnknownNamespaces(c) ==
  {name \in Heads(c.raw) : /\ HasMapping(c.raw, name)
                           /\ name \notin Known \cup {Apcore, "_config"}
                           /\ name \notin FrameworkSections}

Constrained(c) == \A p \in Declared : LET v == Get(c, p) IN v # Absent => Legal(p, v)

Valid(c) ==
  /\ c.mode = "legacy" => \A p \in Required : GetDeclared(c, p) # Absent
  /\ Constrained(c)
  /\ Consistent(c.typed)
  /\ ConfigFlag(c.raw, "strict", FALSE) =>
       /\ UnknownKeys(c) = {}
       /\ c.mode = "namespace" => UnknownNamespaces(c) = {}
  /\ c.mode = "namespace" => \A p \in DOMAIN c.raw : p[1] \in Known => Legal(p, c.raw[p])

(* set() cuts a u64 to the u32 of its field; a value of another type goes  *)
(* to the tree alone.                                                      *)
SetTyped(typed, path, value) ==
  IF path \in Typed /\ Fits(path, value) THEN [typed EXCEPT ![path] = Narrow(path, value)] ELSE typed

Assign(c, path, value) ==
  LET named == IF path[1] = Apcore /\ Len(path) > 1 THEN Tail(path) ELSE path IN
  [c EXCEPT !.typed = SetTyped(@, named, value), !.raw = Put(@, path, value),
            !.generation = @ + 1]

(* The environment.  A variable stands for [prefix |-> the namespace its   *)
(* name begins with, or Absent, path]; APCORE_ is the framework's.         *)
Route(c, variable) ==
  IF c.mode = "namespace" /\ variable.prefix \in Known
  THEN <<variable.prefix>> \o variable.path
  ELSE IF variable.framework
  THEN LET path == (IF variable.prefix = Absent THEN <<>> ELSE <<variable.prefix>>) \o variable.path
       IN IF c.mode = "namespace" THEN Qualified(path) ELSE path
  ELSE Absent

Bare(path) == IF path[1] = Apcore THEN Tail(path) ELSE path

(* apply_one_env_override: an empty string is no path.                     *)
Overrides(c, env) ==
  {w \in {[path |-> Route(c, v), value |-> env[v], by |-> "env"] : v \in DOMAIN env} :
     w.path # Absent /\ ~(Bare(w.path) \in PathTyped /\ w.value = Text(0))}

ApplyWrites(c, list) == FoldLeft(LAMBDA d, w : Assign(d, w.path, w.value), c, list)

(* mount(): merged into the tree, never into the typed fields.             *)
ApplyMount(c, tree) == [c EXCEPT !.raw = Overlay(@, tree)]

MountWrites(tree) == SetToSeq({[path |-> p, value |-> tree[p], by |-> "mount"] : p \in DOMAIN tree})

LoadedFrom(tree) ==
  LET c == Parsed(tree) IN ApplyWrites(c, SetToSeq(Overrides(c, environ)))

Read(tree) == [tree |-> tree, dropped |-> Dropped(tree)]

(* Actions                                                                 *)
Init ==
  /\ namespaces = {}
  /\ environ = Empty
  /\ config = Absent /\ source = Read(Empty) /\ writes = <<>> /\ checked = FALSE

Start(env) ==
  /\ config = Absent /\ environ = Empty /\ environ' = env
  /\ UNCHANGED <<namespaces, config, writes, source, checked>>

RegisterNamespace(name) ==
  /\ name \notin namespaces /\ namespaces' = namespaces \cup {name}
  /\ checked' = FALSE
  /\ UNCHANGED <<environ, config, writes, source>>

(* Config::load of a file that holds `tree`, parsed and validated, or      *)
(* from_defaults, which validates nothing.                                 *)
Load(tree) ==
  /\ config = Absent /\ Parses(tree)
  /\ namespaces' = Known
  /\ IF Valid(LoadedFrom(tree))
     THEN /\ config' = LoadedFrom(tree) /\ source' = Read(tree) /\ checked' = TRUE
          /\ writes' = SetToSeq(Overrides(Parsed(tree), environ))
     ELSE UNCHANGED <<config, source, checked, writes>>
  /\ UNCHANGED environ

FromDefaults ==
  /\ config = Absent
  /\ config' = LoadedFrom(Empty) /\ UNCHANGED <<source, checked, environ>>
  /\ writes' = SetToSeq(Overrides(Parsed(Empty), environ))
  /\ namespaces' = Known

Changes == config # Absent /\ config.generation < MaxGeneration

Set(path, value) ==
  /\ Changes
  /\ config' = Assign(config, path, value)
  /\ writes' = Append(writes, [path |-> path, value |-> value, by |-> "set"])
  /\ checked' = FALSE
  /\ UNCHANGED <<namespaces, environ, source>>

Mount(tree) ==
  /\ Changes
  /\ config' = [ApplyMount(config, tree) EXCEPT !.mounts = Append(@, tree), !.generation = @ + 1]
  /\ writes' = writes \o MountWrites(tree)
  /\ checked' = FALSE
  /\ UNCHANGED <<namespaces, environ, source>>

(* reload() of what the file holds by now.  The new configuration stays in *)
(* place when its validation, after the mounts, fails.                     *)
Reload(tree) ==
  LET replayed == FoldLeft(ApplyMount, LoadedFrom(tree), config.mounts) IN
  /\ Changes /\ source.tree # Empty
  /\ Parses(tree) /\ Valid(LoadedFrom(tree))
  /\ config' = [replayed EXCEPT !.mounts = config.mounts, !.generation = config.generation + 1]
  /\ checked' = Valid(replayed)
  /\ source' = Read(tree)
  /\ writes' = SetToSeq(Overrides(Parsed(tree), environ))
               \o FlattenSeq([i \in DOMAIN config.mounts |-> MountWrites(config.mounts[i])])
  /\ UNCHANGED <<namespaces, environ>>

Next ==
  \/ \E env \in Environments : Start(env)
  \/ \E name \in DOMAIN Namespaces : RegisterNamespace(name)
  \/ FromDefaults
  \/ \E tree \in Documents : Load(tree) \/ Reload(tree)
  \/ \E w \in Writes : Set(w.path, w.value)
  \/ \E tree \in Mounts : Mount(tree)

Spec == Init /\ [][Next]_vars

(* What a leaf is worth: the last write of it, else the file, else the     *)
(* defaults.  A typed leaf answers to both its names and to no mount; the  *)
(* tree keeps the two names of another leaf apart, and the bare one wins.  *)
Latest(accepted(_)) ==
  LET places == {i \in DOMAIN writes : accepted(writes[i])}
  IN IF places = {} THEN Absent
     ELSE writes[CHOOSE i \in places : \A j \in places : j <= i].value

FromFile(path) ==
  IF path[1] \in source.dropped /\ path \notin Typed THEN Absent
  ELSE Lookup(Lifted(source.tree), path)

Worth(path) ==
  IF path \in Typed
  THEN LET v == Latest(LAMBDA w : Bare(w.path) = path /\ w.by # "mount" /\ Fits(path, w.value))
       IN FirstOf(<<IF v = Absent THEN v ELSE Narrow(path, v), FromFile(path), TypedDefault[path]>>)
  ELSE FirstOf(<<Latest(LAMBDA w : w.path = path), FromFile(path),
                 IF FallsBack(config, path) THEN Latest(LAMBDA w : w.path = Qualified(path)) ELSE Absent,
                 IF FallsBack(config, path) THEN Lookup(source.tree, Qualified(path)) ELSE Absent,
                 IF config.mode = "namespace" THEN RegisteredDefault(path) ELSE Absent,
                 Lookup(Defaults, path)>>)

Leaves == Typed \cup Declared \cup UNION {DOMAIN Namespaces[n] : n \in DOMAIN Namespaces}
          \cup UNION {DOMAIN t : t \in Mounts}

(* get() answers with the last write of a leaf whatever the order of       *)
(* file, environment, set, mount and reload.                               *)
LastWriteWins == config # Absent => \A p \in Leaves : p[1] # Apcore => Get(config, p) = Worth(p)

(* The readers of a section - get, namespace and data - agree on it.       *)
ReadersAgree ==
  config # Absent => \A p \in Leaves :
    LET unit == Lookup(NamespaceOf(config, p[1]), p) IN
    /\ p \in Typed => unit = Get(config, p) /\ Lookup(Data(config), p) = Get(config, p)
    /\ Direct(config, p) # Absent =>
         unit = Direct(config, p) /\ Lookup(Data(config), p) = Direct(config, p)
    /\ (config.mode = "namespace" /\ p \notin DOMAIN Defaults /\ Direct(config, Qualified(p)) = Absent)
         => unit = Get(config, p)

(* A configuration that load or reload accepted satisfies the table.       *)
AcceptedIsValid ==
  checked => Constrained(config) /\ Consistent(config.typed)
=============================================================================
