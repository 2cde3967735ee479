---------------------------- MODULE ErrorRecords ----------------------------
(***************************************************************************)
(* ErrorHistory (src/src/observability/error_history.rs): errors kept once *)
(* per fingerprint, bounded per module and in total, with the heap that    *)
(* finds the oldest, and the saves to the storage backend, which are tasks *)
(* of their own.  A fingerprint is a model value; that two messages share  *)
(* one when they differ only in ids, times and large numbers is not        *)
(* modelled.                                                               *)
(***************************************************************************)
EXTENDS Naturals, Sequences, FiniteSets, SequencesExt

CONSTANTS
  Fingerprints, ErrorModule,  \* the errors that occur, and the module of each
  Limits,         \* the pairs of max_entries_per_module and max_total_entries
  MaxTime,        \* record_at is given times 1 .. MaxTime
  MaxRecords,     \* how many errors occur at most
  Ordered,        \* the spawned saves run in the order of their spawning
  Nothing

VARIABLES
  limits,         \* [perModule, total], or Nothing before construction
  fpIndex,        \* fp_index: fingerprint -> [count, first, last]
  moduleIndex,    \* module_index: module -> fingerprints in order of insertion
  heap,           \* the heap entries <<last_occurred, seq, fingerprint>>, stale ones too
  seq,            \* the tie-breaker
  victims,        \* what the last record evicted, with its last_occurred
  saves,          \* the saves that are spawned and not done
  backend,        \* the storage backend: fingerprint -> entry
  records         \* how many errors were recorded

vars == <<limits, fpIndex, moduleIndex, heap, seq, victims, saves, backend, records>>

Init ==
  /\ limits = Nothing
  /\ fpIndex = <<>> /\ moduleIndex = <<>> /\ heap = {} /\ seq = 0 /\ victims = {}
  /\ saves = <<>> /\ backend = <<>> /\ records = 0

New(perModule, total) ==
  /\ limits = Nothing /\ limits' = [perModule |-> perModule, total |-> total]
  /\ UNCHANGED <<fpIndex, moduleIndex, heap, seq, victims, saves, backend, records>>

Without(f, keys) == [k \in DOMAIN f \ keys |-> f[k]]
With(f, key, value) == [k \in DOMAIN f \cup {key} |-> IF k = key THEN value ELSE f[k]]
Fingers(state, m) == IF m \in DOMAIN state.modules THEN state.modules[m] ELSE <<>>
WithFingers(state, m, fps) ==
  IF fps = <<>> THEN Without(state.modules, {m}) ELSE With(state.modules, m, fps)

-----------------------------------------------------------------------------
(* The state that one lock guards: [index, modules, heap].                 *)

(* evict_per_module: the entries inserted first.                           *)
EvictPerModule(state, m) ==
  LET fps == Fingers(state, m)
      over == IF Len(fps) > limits.perModule THEN Len(fps) - limits.perModule ELSE 0
  IN [state EXCEPT !.index = Without(@, ToSet(SubSeq(fps, 1, over))),
                   !.modules = WithFingers(state, m, SubSeq(fps, over + 1, Len(fps)))]

Before(x, y) == x[1] < y[1] \/ (x[1] = y[1] /\ x[2] < y[2])
(* Mutant: a stale entry passes for the fingerprint it names.              *)
LiveByName(state, entry) == entry[3] \in DOMAIN state.index
Live(state, entry) == entry[3] \in DOMAIN state.index /\ state.index[entry[3]].last = entry[1]

(* pop_oldest: the heap gives up its entries, stale ones first, up to the  *)
(* oldest that is live.                                                    *)
PopOldest(state, oldest) ==
  LET fp == oldest[3]
      m == ErrorModule[fp]
  IN [index |-> Without(state.index, {fp}),
      modules |-> WithFingers(state, m, SelectSeq(Fingers(state, m), LAMBDA f : f # fp)),
      heap |-> {x \in state.heap : Before(oldest, x)}]

(* evict_total, until the limit is met or the heap is empty.  Errors come  *)
(* one at a time, so that at most one is over the limit.                   *)
EvictTotal(state) ==
  LET live == {x \in state.heap : Live(state, x)}
      oldest == CHOOSE x \in live : \A y \in live : x = y \/ Before(x, y)
  IN IF Cardinality(DOMAIN state.index) <= limits.total THEN state
     ELSE IF live = {} THEN [state EXCEPT !.heap = {}] ELSE PopOldest(state, oldest)

(* record_at: a known fingerprint is counted and gets a further heap entry *)
(* without any eviction; the entry that is saved is a copy made before the *)
(* eviction, which may take that very entry.                               *)
RecordAt(fp, when) ==
  LET m == ErrorModule[fp]
      known == fp \in DOMAIN fpIndex
      error == IF known THEN [fpIndex[fp] EXCEPT !.count = @ + 1, !.last = when]
               ELSE [count |-> 1, first |-> when, last |-> when]
      noted == [index |-> With(fpIndex, fp, error),
                modules |-> moduleIndex,
                heap |-> heap \cup {<<when, seq + 1, fp>>}]
      added == [noted EXCEPT !.modules = With(@, m, Append(Fingers(noted, m), fp))]
      after == IF known THEN noted ELSE EvictTotal(EvictPerModule(added, m))
  IN
  /\ limits # Nothing /\ records < MaxRecords /\ records' = records + 1
  /\ seq' = seq + 1
  /\ fpIndex' = after.index /\ moduleIndex' = after.modules /\ heap' = after.heap
  /\ victims' = {[fp |-> f, last |-> noted.index[f].last, sameModule |-> ErrorModule[f] = m]
                   : f \in DOMAIN noted.index \ DOMAIN after.index}
  /\ saves' = Append(saves, [fp |-> fp, value |-> error])
  /\ UNCHANGED <<limits, backend>>

(* One of the spawned tasks runs backend.save, an insert.                  *)
Save(i) ==
  /\ Ordered => i = 1
  /\ backend' = With(backend, saves[i].fp, saves[i].value)
  /\ saves' = RemoveAt(saves, i)
  /\ UNCHANGED <<limits, fpIndex, moduleIndex, heap, seq, victims, records>>

(* clear of one module leaves its heap entries; clear of all starts anew.  *)
ClearModule(m) ==
  /\ m \in DOMAIN moduleIndex
  /\ fpIndex' = Without(fpIndex, ToSet(moduleIndex[m])) /\ moduleIndex' = Without(moduleIndex, {m})
  /\ victims' = {}
  /\ UNCHANGED <<limits, heap, seq, saves, backend, records>>

ClearAll ==
  /\ fpIndex # <<>> /\ fpIndex' = <<>> /\ moduleIndex' = <<>> /\ heap' = {} /\ seq' = 0 /\ victims' = {}
  /\ UNCHANGED <<limits, saves, backend, records>>

Next ==
  \/ \E limit \in Limits : New(limit[1], limit[2])
  \/ \E fp \in Fingerprints, when \in 1 .. MaxTime : RecordAt(fp, when)
  \/ \E i \in DOMAIN saves : Save(i)
  \/ (\E fp \in Fingerprints : ClearModule(ErrorModule[fp])) \/ ClearAll

Spec == Init /\ [][Next]_vars

-----------------------------------------------------------------------------
(* The two indices list the same errors, each once and under its module;   *)
(* both limits hold; and every error has a heap entry with its own time,   *)
(* so that eviction finds it.                                              *)
HistoryIsBounded ==
  /\ DOMAIN fpIndex = UNION {ToSet(moduleIndex[m]) : m \in DOMAIN moduleIndex}
  /\ \A m \in DOMAIN moduleIndex :
       /\ moduleIndex[m] # <<>> /\ IsInjective(moduleIndex[m])
       /\ \A fp \in ToSet(moduleIndex[m]) : ErrorModule[fp] = m
       /\ Len(moduleIndex[m]) <= limits.perModule
  /\ limits # Nothing => Cardinality(DOMAIN fpIndex) <= limits.total
  /\ \A fp \in DOMAIN fpIndex : \E x \in heap : x[3] = fp /\ x[1] = fpIndex[fp].last

(* An error that the total limit evicts occurred last no later than any    *)
(* that stays, also when clear left stale entries in the heap.             *)
OldestGoes == \A v \in victims :
  v.sameModule \/ \A fp \in DOMAIN fpIndex : v.last <= fpIndex[fp].last

(* When its saves are done, the backend has the last state of an error.    *)
LatestIsSaved == \A fp \in DOMAIN fpIndex :
  (\A i \in DOMAIN saves : saves[i].fp # fp) => fp \in DOMAIN backend /\ backend[fp] = fpIndex[fp]
=============================================================================
