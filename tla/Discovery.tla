------------------------------ MODULE Discovery ------------------------------
(***************************************************************************)
(* Discovery (src/src/registry/): the scan of the extension roots, one     *)
(* directory entry at a time in the order the file system gives them, and  *)
(* what DefaultDiscoverer makes of the files: overrides, metadata, the     *)
(* factory, conflicts, and the load order of resolve_dependencies.  Beside *)
(* it, register_multi_class, which registers the classes of one file while *)
(* others register too, and VersionedStore.                                *)
(*                                                                         *)
(* Abstractions.  An id is the sequence of its segments, and a version     *)
(* that of its numbers.  A disk is given as its entries, each with its     *)
(* parent, kind and name (without extension); links name their target.     *)
(* The file that follows metadata, entry point and factory is one record   *)
(* `meta`.  Unreadable directories and entries are left out.               *)
(***************************************************************************)
EXTENDS Integers, Sequences, FiniteSets, SequencesExt, TLC

CONSTANTS
  Disks,          \* file systems, with the configuration they are scanned under
  Calls,          \* direct calls of resolve_dependencies
  Batches,        \* files with several classes: what register_multi_class is given
  Rivals,         \* the ids that others register meanwhile
  Ranking,        \* every id, in the order of strings
  Lower(_),       \* to_lowercase of an id
  Reserved,       \* RESERVED_WORDS
  LongId,         \* an id of more segments stands for one of MAX_MODULE_ID_LENGTH or more
  Shelved, Versions, Hints, Items, \* ids, versions, constraints and values for VersionedStore
  Nothing         \* None

VARIABLES
  disk,           \* the file system that is scanned, or Nothing
  root,           \* the number of the root that is scanned
  unread,         \* for each directory on the walk's path the entries left to read
  visited,        \* visited_real_paths
  discovered,     \* results: the files found, in order
  verdict,        \* what discover() or resolve_dependencies() returned
  batch,          \* the batch under registration, or Nothing
  progress,       \* of the batch: [stage, next, done]
  owner,          \* the registered ids, with who registered them
  shelf           \* VersionedStore.data: id -> version -> item

vars == <<disk, root, unread, visited, discovered, verdict, batch, progress, owner, shelf>>

Rank(id) == CHOOSE i \in DOMAIN Ranking : Ranking[i] = id
Sorted(ids) == SetToSortSeq(ids, LAMBDA a, b : Rank(a) < Rank(b))
Failure(code) == [ok |-> FALSE, code |-> code]

-----------------------------------------------------------------------------
(* Versions and their constraints.                                         *)
Triple(version) == [i \in 1 .. 3 |-> IF i <= Len(version) THEN version[i] ELSE 0]
Less(s, t) == \E i \in 1 .. 3 : s[i] < t[i] /\ \A j \in 1 .. i - 1 : s[j] = t[j]
AtLeast(s, t) == ~Less(s, t)

CaretUpper(t) ==
  CASE t[1] > 0 -> <<t[1] + 1, 0, 0>>
    [] t[1] = 0 /\ t[2] > 0 -> <<0, t[2] + 1, 0>>
    [] OTHER -> <<0, 0, t[3] + 1>>
TildeUpper(t, parts) == IF parts >= 2 THEN <<t[1], t[2] + 1, 0>> ELSE <<t[1] + 1, 0, 0>>

(* One clause of a constraint; its operand may have fewer than three parts. *)
Meets(s, clause) ==
  LET t == Triple(clause.operand)
      parts == Len(clause.operand)
  IN CASE clause.op = "^" -> AtLeast(s, t) /\ Less(s, CaretUpper(t))
       [] clause.op = "~" -> AtLeast(s, t) /\ Less(s, TildeUpper(t, parts))
       [] clause.op = "=" -> \A i \in 1 .. (IF parts > 3 THEN 3 ELSE parts) : s[i] = t[i]
       [] clause.op = ">=" -> AtLeast(s, t)
       [] clause.op = ">" -> Less(t, s)
       [] clause.op = "<=" -> AtLeast(t, s)
       [] clause.op = "<" -> Less(s, t)

(* The first clause that fails or is no constraint decides. *)
Hint(version, clauses) ==
  LET s == Triple(version)
      Fails(i) == clauses[i].op = "malformed" \/ ~Meets(s, clauses[i])
      first == {i \in DOMAIN clauses : Fails(i) /\ \A j \in 1 .. i - 1 : ~Fails(j)}
  IN IF first = {} THEN "met"
     ELSE IF \E i \in first : clauses[i].op = "malformed" THEN "malformed" ELSE "unmet"

(* The versions that select_best_version may return; of two spellings of   *)
(* one version the store's hash map decides.                               *)
Best(versions, hint) ==
  LET met == {v \in versions : hint = Nothing \/ Hint(v, hint) = "met"}
  IN IF hint # Nothing /\ \E v \in versions : Hint(v, hint) = "malformed" THEN {}
     ELSE {v \in met : \A w \in met : AtLeast(Triple(v), Triple(w))}

-----------------------------------------------------------------------------
(* resolve_dependencies                                                    *)

(* What becomes of one declared dependency. *)
Edge(dep, known, versions) ==
  CASE dep.on \notin known -> IF dep.optional THEN "skip" ELSE "missing"
    [] dep.on \in known /\ (dep.wants = Nothing \/ dep.on \notin DOMAIN versions) -> "edge"
    [] OTHER ->
         LET fit == Hint(versions[dep.on], dep.wants)
         IN CASE fit = "met" -> "edge"
              [] fit = "malformed" -> "malformed"
              [] OTHER -> IF dep.optional THEN "skip" ELSE "mismatch"

Declarations(mods) ==
  FlattenSeq([i \in DOMAIN mods |-> [j \in DOMAIN mods[i].deps |-> <<mods[i].id, mods[i].deps[j]>>]])

Counted(mods, known, versions) ==
  {<<d[2].on, d[1]>> : d \in {d \in ToSet(Declarations(mods)) : Edge(d[2], known, versions) = "edge"}}

(* Kahn's sort: a module is queued when the last one it depends on is taken. *)
RECURSIVE Take(_, _, _)
Take(queue, order, edges) ==
  IF queue = <<>> THEN order
  ELSE LET n == Head(queue)
           taken == ToSet(order) \cup {n}
           freed == {e[2] : e \in {e \in edges : e[1] = n /\ \A o \in edges : o[2] = e[2] => o[1] \in taken}}
       IN Take(Tail(queue) \o Sorted(freed), Append(order, n), edges)

LoadOrder(ids, edges) == Take(Sorted({id \in ids : \A e \in edges : e[2] # id}), <<>>, edges)

(* dfs_find_cycle: the path from the start, with the neighbours of each of *)
(* its nodes that are left to try.                                         *)
RECURSIVE Search(_, _, _, _)
Search(path, left, tried, neighbours) ==
  IF path = <<>> THEN <<>>
  ELSE IF Last(left) = <<>> THEN Search(Front(path), Front(left), tried, neighbours)
  ELSE LET n == Head(Last(left))
           rest == Append(Front(left), Tail(Last(left)))
       IN IF n \in ToSet(path)
          THEN SubSeq(path, CHOOSE i \in DOMAIN path : path[i] = n, Len(path)) \o <<n>>
          ELSE IF n \in tried THEN Search(path, rest, tried, neighbours)
          ELSE Search(Append(path, n), Append(rest, neighbours[n]), tried \cup {n}, neighbours)

(* Every declared dependency among the rest is an edge here, those that a  *)
(* version skipped included.                                               *)
ClassifyStall(mods, ordered) ==
  LET rest == {mods[i].id : i \in DOMAIN mods} \ ToSet(ordered)
      declared == {<<d[1], d[2].on>> : d \in ToSet(Declarations(mods))}
      neighbours == [id \in rest |-> Sorted({n \in rest : <<id, n>> \in declared})]
      cycles == SelectSeq([i \in 1 .. Cardinality(rest) |->
                             LET start == Sorted(rest)[i] IN Search(<<start>>, <<neighbours[start]>>, {start}, neighbours)],
                          LAMBDA c : c # <<>>)
  IN IF cycles # <<>> THEN [ok |-> FALSE, code |-> "circular", path |-> Head(cycles)]
     ELSE [ok |-> FALSE, code |-> "blocked", modules |-> Sorted(rest)]

(* mods in their order, the ids that count as present, the known versions. *)
Resolve(mods, known, versions) ==
  LET bad == SelectSeq(Declarations(mods), LAMBDA d : Edge(d[2], known, versions) \notin {"edge", "skip"})
      order == LoadOrder({mods[i].id : i \in DOMAIN mods}, Counted(mods, known, versions))
  IN IF mods = <<>> THEN [ok |-> TRUE, order |-> <<>>]
     ELSE IF bad # <<>> THEN Failure(Edge(Head(bad)[2], known, versions))
     ELSE IF Len(order) < Len(mods) THEN ClassifyStall(mods, order)
     ELSE [ok |-> TRUE, order |-> order]

-----------------------------------------------------------------------------
(* The scan.  An entry without parent is an extension root.                *)
Entries == DOMAIN disk.entries
Entry(e) == disk.entries[e]
Follows == disk.follows
Roots == disk.roots
Children(d) == {e \in Entries : Entry(e).parent = d}

RECURSIVE Ancestors(_)
Ancestors(e) == IF Entry(e).parent = Nothing THEN {e} ELSE {e} \cup Ancestors(Entry(e).parent)

(* The names from a root down to an entry. *)
RECURSIVE Path(_, _)
Path(e, top) == IF e = top THEN <<>> ELSE Append(Path(Entry(e).parent, top), Entry(e).name)
IdUnder(e, top) == FlattenSeq(Path(e, top))

(* from_config: a bare path names its own namespace; a root that was set   *)
(* on the registry has none, unless another one puts the scan under        *)
(* scan_multi_root.                                                        *)
Namespace(r) == IF r.namespace = Nothing THEN r.basename ELSE r.namespace
MultiRoot == \E i \in DOMAIN Roots : Roots[i].declared
Namespaces == [i \in DOMAIN Roots |-> IF Roots[i].declared THEN Namespace(Roots[i]) ELSE Roots[i].basename]
CanonicalId(e, i) ==
  (IF MultiRoot THEN <<Namespaces[i]>> ELSE <<>>) \o IdUnder(e, Roots[i].top)

(* One of the four at a time: they share nothing. *)
Idle == disk = Nothing /\ verdict = Nothing /\ batch = Nothing
Finish(result) == verdict' = result /\ UNCHANGED <<root, unread, visited, discovered>>
Apart == UNCHANGED <<batch, progress, owner, shelf>>

Begin(d) ==
  /\ Idle /\ shelf = <<>>
  /\ disk' = d
  /\ UNCHANGED <<root, unread, visited, discovered, verdict>> /\ Apart

Scanning == disk # Nothing /\ verdict = Nothing

(* scan_extensions of the next root; the namespaces are compared before    *)
(* any root is scanned.                                                    *)
NextRoot ==
  /\ Scanning /\ unread = <<>> /\ root < Len(Roots)
  /\ IF root = 0 /\ MultiRoot /\ ~IsInjective(Namespaces) THEN Finish(Failure("duplicate namespace"))
     ELSE IF Roots[root + 1].missing THEN Finish(Failure("root not found"))
     ELSE LET top == Roots[root + 1].top
          IN /\ root' = root + 1
             /\ visited' = {top}
             /\ unread' = <<Children(top)>>
             /\ UNCHANGED <<discovered, verdict>>
  /\ UNCHANGED disk /\ Apart

AsDirectory(e) == Entry(e).kind = "dir" \/ (Entry(e).kind = "link" /\ Follows)
AsFile(e) == Entry(e).kind = "file" \/ (Entry(e).kind = "link" /\ Follows)
Target(e) == IF Entry(e).kind = "link" THEN Entry(e).target ELSE e
Inside(real) == real # Nothing /\ Roots[root].top \in Ancestors(real)

(* The walk enters a directory below the one it reads, up to max_depth. *)
Descend(left, real) ==
  unread' = IF Entry(real).kind = "dir" /\ Len(unread) < disk.depth
            THEN left \o <<Children(real)>> ELSE left

(* A link is followed inside the root and once; what it leads to is then   *)
(* visited, and walked if it is a directory.                               *)
ReadDirectory(e, left) ==
  LET real == Target(e)
  IN IF Entry(e).kind = "link" /\ (~Inside(real) \/ real \in visited)
     THEN unread' = left /\ UNCHANGED <<visited, discovered>>
     ELSE /\ visited' = IF Entry(e).kind = "link" THEN visited \cup {real} ELSE visited
          /\ Descend(left, real)
          /\ UNCHANGED discovered

(* A file counts under its real path, once, and so does its id. *)
ReadFile(e, left) ==
  LET real == Target(e)
      id == CanonicalId(real, root)
      fresh == Entry(e).module /\ real # Nothing /\ real \notin visited /\ Inside(real)
      taken == \E i \in DOMAIN discovered : discovered[i].root = root /\ discovered[i].id = id
  IN /\ unread' = left
     /\ visited' = IF fresh THEN visited \cup {real} ELSE visited
     /\ discovered' = IF fresh /\ ~taken
                      THEN Append(discovered, [root |-> root, real |-> real, id |-> id]) ELSE discovered

(* scan_dir: the next entry of the directory being read, in any order. *)
Read(e) ==
  /\ Scanning /\ unread # <<>> /\ e \in Last(unread)
  /\ LET left == Append(Front(unread), Last(unread) \ {e})
     IN IF Entry(e).shown /\ AsDirectory(e) THEN ReadDirectory(e, left)
        ELSE IF Entry(e).shown /\ AsFile(e) THEN ReadFile(e, left)
        ELSE unread' = left /\ UNCHANGED <<visited, discovered>>
  /\ UNCHANGED <<disk, root, verdict>> /\ Apart

Leave ==
  /\ Scanning /\ unread # <<>> /\ Last(unread) = {}
  /\ unread' = Front(unread)
  /\ UNCHANGED <<disk, root, visited, discovered, verdict>> /\ Apart

-----------------------------------------------------------------------------
(* What discover() makes of the files.                                     *)

(* The key of the id map: the path under the deepest root that holds it. *)
Relative(e) ==
  LET tops == {Roots[i].top : i \in DOMAIN Roots} \cap Ancestors(e)
      deepest == CHOOSE t \in tops : \A u \in tops : Cardinality(Ancestors(u)) <= Cardinality(Ancestors(t))
  IN Path(e, deepest)

FinalId(f) ==
  LET map == disk.idMap
  IN IF map.kind = "read" /\ Relative(f.real) \in DOMAIN map.ids THEN map.ids[Relative(f.real)] ELSE f.id

Meta(f) == Entry(f.real).meta
Skipped(f) == Head(FinalId(f)) \in Reserved \/ Len(FinalId(f)) >= LongId

(* Why a file ends the discovery, if it does. *)
Refusal(f) ==
  CASE Meta(f).entryPoint = "empty" -> "no entry point"
    [] Meta(f).entryPoint # "empty" /\ ~disk.factory -> "no factory"
    [] Meta(f).entryPoint # "empty" /\ disk.factory /\ Meta(f).product = "error" -> "factory"
    [] OTHER -> Nothing

Pending == SelectSeq(discovered, LAMBDA f : ~Skipped(f) /\ Meta(f).product = "module")
Descriptor(f) == [id |-> FinalId(f), deps |-> Meta(f).deps]
Version(f) == IF Meta(f).version = Nothing THEN <<1, 0, 0>> ELSE Meta(f).version

Conclusion ==
  LET refused == SelectSeq(discovered, LAMBDA f : ~Skipped(f) /\ Refusal(f) # Nothing)
      mods == [i \in DOMAIN Pending |-> Descriptor(Pending[i])]
      versions == [id \in {FinalId(f) : f \in ToSet(Pending)} |->
                     Version(CHOOSE f \in ToSet(Pending) : FinalId(f) = id)]
  IN CASE disk.idMap.kind = "missing" -> Failure("no id map")
       [] disk.idMap.kind = "broken" -> Failure("broken id map")
       [] OTHER ->
            IF \E f \in ToSet(discovered) : Meta(f).entryPoint = "broken" THEN Failure("broken metadata")
            ELSE IF \E f \in ToSet(discovered) : Head(FinalId(f)) = "ephemeral" THEN Failure("ephemeral")
            ELSE IF refused # <<>> THEN Failure(Refusal(Head(refused)))
            ELSE IF \E i, j \in DOMAIN mods : i < j /\ Lower(mods[i].id) = Lower(mods[j].id) THEN Failure("conflict")
            ELSE Resolve(mods, DOMAIN versions, versions)

Settle ==
  /\ Scanning /\ unread = <<>> /\ root = Len(Roots)
  /\ Finish(Conclusion)
  /\ UNCHANGED disk /\ Apart

(* resolve_dependencies as called by others: the reload of several modules *)
(* (control.rs:479), or a program that knows of more ids than it sorts.    *)
ResolveAlone(c) ==
  /\ Idle /\ shelf = <<>>
  /\ Finish([call |-> c] @@ Resolve(c.mods, c.known, c.versions))
  /\ UNCHANGED disk /\ Apart

-----------------------------------------------------------------------------
(* register_multi_class, one registration at a time.                       *)

(* derive_module_ids, all classes implementing Module: the file's own id   *)
(* for one class or without markers, one for each marked class otherwise.  *)
DeriveIds(base, classes) ==
  LET marked == SelectSeq(classes, LAMBDA c : c.marked)
      IdOf(c) == base \o <<c.segment>>
      Problem(i) ==
        CASE marked[i].segment = Nothing -> "invalid segment"
          [] marked[i].segment # Nothing /\ \E j \in 1 .. i - 1 : marked[j].segment = marked[i].segment -> "conflict"
          [] marked[i].segment # Nothing /\ Len(base) + 1 > LongId -> "too long"
          [] OTHER -> Nothing
      problems == SelectSeq([i \in DOMAIN marked |-> Problem(i)], LAMBDA p : p # Nothing)
  IN IF classes = <<>> THEN [ok |-> TRUE, ids |-> <<>>]
     ELSE IF Len(classes) = 1 \/ marked = <<>> THEN [ok |-> TRUE, ids |-> <<base>>]
     ELSE IF problems # <<>> THEN Failure(Head(problems))
     ELSE [ok |-> TRUE, ids |-> [i \in DOMAIN marked |-> IdOf(marked[i])]]

(* detect_id_conflicts against the registered ids. *)
IdConflict(id) ==
  CASE id \in DOMAIN owner -> "duplicate"
    [] id \notin DOMAIN owner /\ Head(id) \in Reserved -> "reserved"
    [] id \notin DOMAIN owner /\ Head(id) \notin Reserved /\ \E o \in DOMAIN owner : Lower(o) = Lower(id) -> "case"
    [] OTHER -> Nothing
Admitted(id) == IdConflict(id) \in {"case", Nothing}

Without(f, x) == [y \in DOMAIN f \ {x} |-> f[y]]
Unscanned == UNCHANGED <<disk, root, unread, visited, discovered, verdict>>

(* The ids, and the classes they are registered for: a helper without      *)
(* marker is left out beside marked ones.                                  *)
IdsOf(b) == DeriveIds(b.base, b.classes)
BatchIds == IdsOf(batch)
Participants ==
  LET several == Len(batch.classes) > 1 /\ \E i \in DOMAIN batch.classes : batch.classes[i].marked
  IN SelectSeq(batch.classes, LAMBDA c : ~several \/ c.marked)

StartBatch(b) ==
  /\ Idle /\ shelf = <<>>
  /\ batch' = b
  /\ progress' = [stage |-> IF IdsOf(b).ok THEN "registering" ELSE "refused", next |-> 1, failed |-> 0]
  /\ UNCHANGED <<owner, shelf>> /\ Unscanned

RegisterNext ==
  /\ batch # Nothing /\ progress.stage = "registering"
  /\ LET ids == BatchIds.ids
         n == progress.next
     IN IF n > Len(ids)
        THEN progress' = [progress EXCEPT !.stage = "registered"] /\ UNCHANGED owner
        ELSE IF Admitted(ids[n]) /\ Participants[n].loads
        THEN owner' = (ids[n] :> "batch") @@ owner /\ progress' = [progress EXCEPT !.next = n + 1]
        ELSE progress' = [stage |-> "undoing", next |-> 1, failed |-> n] /\ UNCHANGED owner
  /\ UNCHANGED <<batch, shelf>> /\ Unscanned

(* Mutant: the rollback leaves out the module registered last. *)
UndoNextShort ==
  /\ batch # Nothing /\ progress.stage = "undoing"
  /\ IF progress.next >= progress.failed - 1
     THEN progress' = [progress EXCEPT !.stage = "failed"] /\ UNCHANGED owner
     ELSE /\ owner' = Without(owner, BatchIds.ids[progress.next])
          /\ progress' = [progress EXCEPT !.next = @ + 1]
  /\ UNCHANGED <<batch, shelf>> /\ Unscanned

(* The rollback unregisters what this batch registered, in order. *)
UndoNext ==
  /\ batch # Nothing /\ progress.stage = "undoing"
  /\ IF progress.next = progress.failed
     THEN progress' = [progress EXCEPT !.stage = "failed"] /\ UNCHANGED owner
     ELSE /\ owner' = Without(owner, BatchIds.ids[progress.next])
          /\ progress' = [progress EXCEPT !.next = @ + 1]
  /\ UNCHANGED <<batch, shelf>> /\ Unscanned

(* Another caller of register(), at any time. *)
RegisterElsewhere(id) ==
  /\ batch # Nothing /\ Admitted(id)
  /\ owner' = (id :> "other") @@ owner
  /\ UNCHANGED <<batch, progress, shelf>> /\ Unscanned

-----------------------------------------------------------------------------
(* VersionedStore                                                          *)
Unrelated == UNCHANGED <<batch, progress, owner>> /\ Unscanned

AddVersion(id, v, item) ==
  /\ Idle
  /\ shelf' = (id :> ((v :> item) @@ (IF id \in DOMAIN shelf THEN shelf[id] ELSE <<>>))) @@ shelf
  /\ Unrelated

RemoveVersion(id, v) ==
  /\ Idle /\ id \in DOMAIN shelf
  /\ LET left == Without(shelf[id], v)
     IN shelf' = IF left = <<>> THEN Without(shelf, id) ELSE (id :> left) @@ shelf
  /\ Unrelated

RemoveVersions(id) == Idle /\ id \in DOMAIN shelf /\ shelf' = Without(shelf, id) /\ Unrelated

(* resolve() and get_latest(): the items they may return. *)
ResolveVersion(id, hint) ==
  IF id \notin DOMAIN shelf THEN {} ELSE {shelf[id][v] : v \in Best(DOMAIN shelf[id], hint)}

-----------------------------------------------------------------------------
Init ==
  /\ disk = Nothing /\ root = 0 /\ unread = <<>> /\ visited = {} /\ discovered = <<>>
  /\ verdict = Nothing
  /\ batch = Nothing /\ progress = [stage |-> "none", next |-> 1, failed |-> 0] /\ owner = <<>>
  /\ shelf = <<>>

Next ==
  \/ \E d \in Disks : Begin(d)
  \/ NextRoot \/ Leave \/ Settle
  \/ unread # <<>> /\ \E e \in Last(unread) : Read(e)
  \/ \E c \in Calls : ResolveAlone(c)
  \/ \E b \in Batches : StartBatch(b)
  \/ RegisterNext \/ UndoNext
  \/ \E id \in Rivals : RegisterElsewhere(id)
  \/ \E id \in Shelved, v \in Versions, i \in Items : AddVersion(id, v, i)
  \/ \E id \in DOMAIN shelf, v \in Versions : RemoveVersion(id, v)
  \/ \E id \in DOMAIN shelf : RemoveVersions(id)

-----------------------------------------------------------------------------
(* Properties                                                              *)

(* A module file that lies in a root on a path of named directories, not   *)
(* too deep. *)
InReach(e, i) ==
  LET top == Roots[i].top
  IN /\ Entry(e).kind = "file" /\ Entry(e).module
     /\ top \in Ancestors(e)
     /\ \A a \in Ancestors(e) \ Ancestors(top) : Entry(a).shown
     /\ Len(Path(e, top)) <= disk.depth

(* The scan of a root finds every module file in reach, whatever order the *)
(* directories are read in and whatever links lead where (unless another   *)
(* file took its id), and no file twice or from outside (scanner.rs:76).   *)
ScanIsWhole ==
  disk # Nothing =>
    /\ \A i \in DOMAIN Roots, e \in Entries :
         (i < root \/ (i = root /\ unread = <<>>)) /\ InReach(e, i) =>
           \E f \in ToSet(discovered) : f.root = i /\ (f.real = e \/ f.id = CanonicalId(e, i))
    /\ \A i, j \in DOMAIN discovered :
         i < j /\ discovered[i].root = discovered[j].root =>
           discovered[i].real # discovered[j].real /\ discovered[i].id # discovered[j].id
    /\ \A f \in ToSet(discovered) : Roots[f.root].top \in Ancestors(f.real)

(* The result of a sort tells the truth about its input: an order puts     *)
(* every module once and after what it depends on, a cycle is declared,    *)
(* closes and, when all ids are in the batch or no versions are known,     *)
(* stands for one that really blocks; a blocked batch lacks a module.      *)
Justified(mods, known, versions, result) ==
  LET ids == {mods[i].id : i \in DOMAIN mods}
      edges == Counted(mods, known, versions)
      declared == {<<d[1], d[2].on>> : d \in ToSet(Declarations(mods))}
      Position(id) == CHOOSE i \in DOMAIN result.order : result.order[i] = id
  IN CASE result.ok ->
            /\ IsInjective(result.order) /\ ToSet(result.order) = ids
            /\ \A e \in edges : Position(e[1]) < Position(e[2])
       [] ~result.ok /\ result.code = "circular" ->
            /\ Len(result.path) > 1 /\ result.path[1] = Last(result.path)
            /\ \A i \in 1 .. Len(result.path) - 1 : <<result.path[i], result.path[i + 1]>> \in declared
            /\ known = ids \/ versions = <<>> =>
                 \E s \in SUBSET ids \ {{}} : \A m \in s : \E n \in s : <<n, m>> \in edges
       [] ~result.ok /\ result.code = "blocked" ->
            /\ \E e \in edges : e[1] \notin ids /\ e[2] \in ToSet(result.modules)
            /\ \A i, j \in DOMAIN result.modules : i < j => Rank(result.modules[i]) < Rank(result.modules[j])
       [] OTHER -> \E d \in ToSet(Declarations(mods)) : Edge(d[2], known, versions) = result.code

(* What discover() returns is true of the files it found, and so is what a *)
(* direct call of the sort returns (dependencies.rs:24).                   *)
OutcomeIsTrue ==
  verdict # Nothing =>
    IF disk = Nothing
    THEN Justified(verdict.call.mods, verdict.call.known, verdict.call.versions, verdict)
    ELSE verdict.ok \/ verdict.code \in {"circular", "blocked", "missing", "mismatch", "malformed"} =>
           LET mods == [i \in DOMAIN Pending |-> Descriptor(Pending[i])]
               ids == {mods[i].id : i \in DOMAIN mods}
           IN Justified(mods, ids, [id \in ids |-> Version(CHOOSE f \in ToSet(Pending) : FinalId(f) = id)], verdict)

(* The caret pins the parts up to the first that is not zero, the tilde    *)
(* the first two that are given; above the operand nothing else counts     *)
(* (version.rs:49-90).                                                     *)
RangesPin ==
  Idle /\ shelf = <<>> =>
    \A v \in Versions, h \in Hints :
      h # Nothing /\ Len(h) = 1 /\ h[1].op \in {"^", "~"} =>
        LET s == Triple(v)
            t == Triple(h[1].operand)
            pinned == IF h[1].op = "~" THEN IF Len(h[1].operand) >= 2 THEN 2 ELSE 1
                      ELSE CHOOSE n \in 1 .. 3 : (t[n] # 0 \/ n = 3) /\ \A m \in 1 .. n - 1 : t[m] = 0
        IN Hint(v, h) = "met" <=> AtLeast(s, t) /\ \A i \in 1 .. pinned : s[i] = t[i]

(* A batch is registered whole, each id for the class it is named after,   *)
(* or leaves nothing of its own behind (multi_class.rs:423).               *)
BatchIsWhole ==
  batch # Nothing =>
    /\ progress.stage = "registered" =>
         \A i \in DOMAIN BatchIds.ids :
           /\ owner[BatchIds.ids[i]] = "batch"
           /\ Len(BatchIds.ids[i]) > Len(batch.base) => Participants[i].segment = Last(BatchIds.ids[i])
    /\ progress.stage \in {"failed", "refused"} => \A id \in DOMAIN owner : owner[id] = "other"

(* A module is listed while it has a version, its latest is always found,  *)
(* and a constraint that is none selects nothing (version.rs:220-340).     *)
ShelfIsTidy ==
  \A id \in DOMAIN shelf :
    /\ DOMAIN shelf[id] # {} /\ ResolveVersion(id, Nothing) # {}
    /\ \A h \in Hints \ {Nothing} :
         \/ ResolveVersion(id, h) # {}
         \/ \A v \in DOMAIN shelf[id] : Hint(v, h) # "met"
=============================================================================
