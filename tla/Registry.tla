------------------------------ MODULE Registry ------------------------------
(***************************************************************************)
(* Registry (src/src/registry/registry.rs): the life of ONE module id.     *)
(* Every map of the registry is keyed by the id and no operation looks at  *)
(* the entry of another one, so the entries do not interact.               *)
(*                                                                         *)
(* Callers run register, register_versioned, discovery, unregister,        *)
(* safe_unregister, the reload of system.control.reload_module             *)
(* (src/src/sys_modules/control.rs) and the file watcher's batch; users    *)
(* acquire() and release() the module.  One step is what happens under one *)
(* acquisition of the core lock, or one call of the module's own hooks,    *)
(* which run with no lock held.                                            *)
(***************************************************************************)
EXTENDS Integers, FiniteSets

CONSTANTS
  Callers,     \* each makes one call; a module instance it brings is named after it
  Users,       \* callers of acquire() and release()
  Old,         \* the instance registered at the start, if any
  Version,     \* the version each instance declares
  Jobs,        \* the kinds of call in use
  MayOverlap,  \* MayOverlap[<<j, k>>]: a call of kind j may start during one of kind k
  None         \* "nothing"

Instances == Callers \cup {Old}

ASSUME ConstantsOK ==
  /\ Old \notin Callers /\ None \notin Instances
  /\ Version \in [Instances -> Nat]
  /\ Jobs \subseteq {"register", "version", "discover", "unregister", "safe", "reload", "watch"}
  /\ MayOverlap \in [Jobs \X Jobs -> BOOLEAN]

ASSUME FiniteUsers == IsFiniteSet(Users)

VARIABLES
  module,    \* core.modules (and descriptors, schema_cache): the visible instance
  versions,  \* core.versions: the coexisting instances, {} without an entry
  refs,      \* core.ref_counts
  draining,  \* core.draining
  source,    \* core.sources has the file of the module
  waiter,    \* drain_events: the safe_unregister call whose Notify it holds
  inFlight,  \* in_flight
  slot,      \* the discoverer is in its slot
  job,       \* what each caller does
  pc,        \* where it is
  inst,      \* the instance it registers
  prev,      \* the instance a reload captured
  took,      \* the instance it removed from the registry
  outcome,   \* how its last registration ended
  woken,     \* safe_unregister calls whose Notify holds a permit
  holds,     \* the instance each user holds a reference to
  userPc,    \* a user between the decrement and the notification of release()
  up         \* instances whose on_load has run and whose on_unload has not

core  == <<module, versions, refs, draining, source>>
locks == <<waiter, inFlight, slot>>
call  == <<job, inst, prev, took, outcome, woken>>
user  == <<holds, userPc>>
vars  == <<core, locks, call, pc, user, up>>

Registering == {"check", "reserve", "load", "rollback", "publish", "clear"}
Adding      == {"has", "v_check", "v_load", "v_publish"}
Removing    == {"drain", "waiting", "undrain", "forget", "remove", "drop_event", "unload"}
Reloading   == {"capture", "take", "discovering", "apply", "verify", "restore"}
Pcs         == {"idle", "done"} \cup Registering \cup Adding \cup Removing \cup Reloading

TypeOK ==
  /\ module \in Instances \cup {None} /\ versions \subseteq Instances
  /\ refs \in Nat /\ draining \in BOOLEAN /\ source \in BOOLEAN
  /\ waiter \in Callers \cup {None} /\ inFlight \in BOOLEAN /\ slot \in BOOLEAN
  /\ job \in [Callers -> Jobs \cup {None}]
  /\ pc \in [Callers -> Pcs]
  /\ inst \in [Callers -> Instances \cup {None}]
  /\ prev \in [Callers -> Instances \cup {None}]
  /\ took \in [Callers -> Instances \cup {None}]
  /\ outcome \in [Callers -> {"none", "ok", "refused", "load_failed"}]
  /\ woken \subseteq Callers
  /\ holds \in [Users -> Instances \cup {None}]
  /\ userPc \in [Users -> {"idle", "notify"}]
  /\ up \subseteq Instances

(* An empty registry, or one with the module registered, by discovery when *)
(* its source is known, and with or without a discoverer configured.       *)
Init ==
  /\ \/ module = None /\ source = FALSE /\ up = {}
     \/ module = Old /\ source \in BOOLEAN /\ up = {Old}
  /\ versions = {} /\ refs = 0 /\ draining = FALSE
  /\ waiter = None /\ inFlight = FALSE /\ slot \in BOOLEAN /\ (source => slot)
  /\ job = [c \in Callers |-> None] /\ pc = [c \in Callers |-> "idle"]
  /\ inst = [c \in Callers |-> None] /\ prev = [c \in Callers |-> None]
  /\ took = [c \in Callers |-> None] /\ outcome = [c \in Callers |-> "none"]
  /\ woken = {}
  /\ holds = [u \in Users |-> None] /\ userPc = [u \in Users |-> "idle"]

Goto(c, p) == pc' = [pc EXCEPT ![c] = p]

First(j) == CASE j = "register" -> "check" [] j = "version" -> "has"
              [] j = "unregister" -> "remove" [] j = "safe" -> "drain"
              [] j = "reload" -> "capture" [] OTHER -> "take"

Start(c, j) ==
  /\ pc[c] = "idle"
  /\ \A d \in Callers : pc[d] \notin {"idle", "done"} => MayOverlap[<<j, job[d]>>]
  /\ job' = [job EXCEPT ![c] = j]
  /\ inst' = [inst EXCEPT ![c] = IF j \in {"register", "version"} THEN c ELSE None]
  /\ Goto(c, First(j))
  /\ UNCHANGED <<core, locks, prev, took, outcome, woken, user, up>>

-----------------------------------------------------------------------------
(* register_core and the per-entry path of register_discovered.            *)

(* The instance comes from a discoverer: register_discovered's path.       *)
Discovered(c) == inst[c] = c /\ job[c] \in {"discover", "reload", "watch"}

(* The registration of inst[c] ended: what the caller does next.           *)
Registered(c, how) ==
  /\ outcome' = [outcome EXCEPT ![c] = how]
  /\ Goto(c, IF job[c] = "reload" /\ inst[c] = c THEN "verify"
             ELSE IF job[c] = "watch" /\ inst[c] = c /\ how # "ok" THEN "restore"
             ELSE "done")
  /\ UNCHANGED <<job, inst, prev, took, woken>>

(* check_registration or the validator refuses a new instance, or the id   *)
(* is taken; one accepted before, put back or with its on_load already run,*)
(* is not asked the validator again.                                       *)
Check(c) ==
  /\ pc[c] = "check"
  /\ \/ (module # None \/ (inst[c] = c /\ c \notin up)) /\ Registered(c, "refused")
     \/ module = None /\ Goto(c, "reserve") /\ UNCHANGED call
  /\ UNCHANGED <<core, locks, user, up>>

(* Mutant: the reservation does not look for another one.                  *)
ReserveUnchecked(c) ==
  /\ pc[c] = "reserve"
  /\ inFlight' = TRUE /\ Goto(c, "load")
  /\ UNCHANGED <<core, waiter, slot, call, user, up>>

Reserve(c) ==
  /\ pc[c] = "reserve"
  /\ \/ inFlight /\ Registered(c, "refused") /\ UNCHANGED inFlight
     \/ ~inFlight /\ inFlight' = TRUE /\ Goto(c, "load") /\ UNCHANGED call
  /\ UNCHANGED <<core, waiter, slot, user, up>>

(* on_load, with no lock held and the module not visible.                  *)
Load(c) ==
  /\ pc[c] = "load"
  /\ \/ up' = up \cup {inst[c]} /\ Goto(c, "publish")
     \/ Goto(c, "rollback") /\ UNCHANGED up
  /\ UNCHANGED <<core, locks, call, user>>

Rollback(c) ==
  /\ pc[c] = "rollback"
  /\ inFlight' = FALSE /\ Registered(c, "load_failed")
  /\ UNCHANGED <<core, waiter, slot, user, up>>

(* Mutant: register_core publishes without looking again.                  *)
PublishUnchecked(c) ==
  /\ pc[c] = "publish"
  /\ module' = inst[c] /\ Goto(c, "clear")
  /\ outcome' = [outcome EXCEPT ![c] = "ok"]
  /\ source' = (source \/ Discovered(c))
  /\ UNCHANGED <<versions, refs, draining, job, inst, prev, took, woken, locks, user, up>>

(* Under core.write: register_core looks for the id again, the discovery   *)
(* path does not.                                                          *)
Publish(c) ==
  /\ pc[c] = "publish" /\ Goto(c, "clear")
  /\ IF module # None /\ ~Discovered(c)
     THEN outcome' = [outcome EXCEPT ![c] = "refused"] /\ UNCHANGED <<module, source>>
     ELSE /\ outcome' = [outcome EXCEPT ![c] = "ok"]
          /\ module' = inst[c] /\ source' = (source \/ Discovered(c))
  /\ UNCHANGED <<versions, refs, draining, job, inst, prev, took, woken, locks, user, up>>

Clear(c) ==
  /\ pc[c] = "clear"
  /\ inFlight' = FALSE /\ Registered(c, outcome[c])
  /\ UNCHANGED <<core, waiter, slot, user, up>>

-----------------------------------------------------------------------------
(* register_versioned with an explicit version: add_version when the id is *)
(* registered.  It makes no reservation.                                   *)

AddHas(c) ==
  /\ pc[c] = "has"
  /\ Goto(c, IF module = None THEN "check" ELSE "v_check")
  /\ UNCHANGED <<core, locks, call, user, up>>

(* version_registered.                                                     *)
Taken(c) == \E i \in (versions \cup {module}) \ {None} : Version[i] = Version[inst[c]]

AddCheck(c) ==
  /\ pc[c] = "v_check"
  /\ \/ Registered(c, "refused")
     \/ ~Taken(c) /\ Goto(c, "v_load") /\ UNCHANGED call
  /\ UNCHANGED <<core, locks, user, up>>

AddLoad(c) ==
  /\ pc[c] = "v_load"
  /\ \/ up' = up \cup {inst[c]} /\ Goto(c, "v_publish") /\ UNCHANGED call
     \/ Registered(c, "load_failed") /\ UNCHANGED up
  /\ UNCHANGED <<core, locks, user>>

Latest(S) == {i \in S : \A k \in S : Version[k] <= Version[i]}

(* Unregistered in the meantime: a first registration, on_load included.   *)
AddPublish(c) ==
  /\ pc[c] = "v_publish"
  /\ \/ module = None /\ Goto(c, "check") /\ UNCHANGED <<module, versions, call>>
     \/ module # None /\ Taken(c) /\ Registered(c, "refused") /\ UNCHANGED <<module, versions>>
     \/ /\ module # None /\ ~Taken(c)
        /\ versions' = (IF versions = {} THEN {module} ELSE versions) \cup {inst[c]}
        /\ module' \in Latest(versions')
        /\ Registered(c, "ok")
  /\ UNCHANGED <<refs, draining, source, locks, user, up>>

-----------------------------------------------------------------------------
(* unregister and safe_unregister.                                         *)

(* What follows the removal: a reload discovers, the watcher registers the *)
(* instance it has found for the file.                                     *)
Removed(c) ==
  Goto(c, IF job[c] = "reload" THEN "take"
          ELSE IF job[c] = "watch" /\ inst[c] # None THEN "check" ELSE "done")

Drain(c) ==
  /\ pc[c] = "drain"
  /\ \/ module = None /\ Removed(c) /\ UNCHANGED <<draining, waiter>>
     \/ /\ module # None /\ draining' = TRUE
        /\ IF refs = 0 THEN Goto(c, "remove") /\ UNCHANGED waiter
                       ELSE Goto(c, "waiting") /\ waiter' = c
  /\ UNCHANGED <<module, versions, refs, source, inFlight, slot,
                 job, inst, prev, took, outcome, woken, user, up>>

(* notified(), or the timeout of 5 s: the result is Ok(true) or Ok(false), *)
(* the removal is the same.                                                *)
DrainWait(c) ==
  /\ pc[c] = "waiting" /\ Goto(c, "undrain")
  /\ woken' = woken \ {c}
  /\ UNCHANGED <<core, locks, job, inst, prev, took, outcome, user, up>>

Undrain(c) ==
  /\ pc[c] = "undrain" /\ Goto(c, "forget")
  /\ draining' = FALSE
  /\ UNCHANGED <<module, versions, refs, source, locks, call, user, up>>

Forget(c) ==
  /\ pc[c] = "forget" /\ Goto(c, "remove")
  /\ waiter' = None
  /\ UNCHANGED <<core, inFlight, slot, call, user, up>>

(* Mutant: the ref count outlives the module.                              *)
RemoveKeepsRefs(c) ==
  /\ pc[c] = "remove"
  /\ \/ module = None /\ Removed(c) /\ UNCHANGED <<core, call>>
     \/ /\ module # None /\ Goto(c, "drop_event")
        /\ took' = [took EXCEPT ![c] = module]
        /\ module' = None /\ versions' = {} /\ draining' = FALSE /\ source' = FALSE
        /\ UNCHANGED <<refs, job, inst, prev, outcome, woken>>
  /\ UNCHANGED <<locks, user, up>>

(* unregister: every map, under core.write.                                *)
Remove(c) ==
  /\ pc[c] = "remove"
  /\ \/ module = None /\ Removed(c) /\ UNCHANGED <<core, call>>
     \/ /\ module # None /\ Goto(c, "drop_event")
        /\ took' = [took EXCEPT ![c] = module]
        /\ module' = None /\ versions' = {} /\ refs' = 0 /\ draining' = FALSE
        /\ source' = FALSE
        /\ UNCHANGED <<job, inst, prev, outcome, woken>>
  /\ UNCHANGED <<locks, user, up>>

DropEvent(c) ==
  /\ pc[c] = "drop_event" /\ Goto(c, "unload")
  /\ waiter' = None
  /\ UNCHANGED <<core, inFlight, slot, call, user, up>>

(* on_unload of the instance that was visible.                             *)
Unload(c) ==
  /\ pc[c] = "unload" /\ Removed(c)
  /\ up' = up \ {took[c]} /\ took' = [took EXCEPT ![c] = None]
  /\ UNCHANGED <<core, locks, job, inst, prev, outcome, woken, user>>

-----------------------------------------------------------------------------
(* Discovery, reload and the watcher's batch.                              *)

(* Reload: get() of the instance to put back; a missing module is an error.*)
Capture(c) ==
  /\ pc[c] = "capture"
  /\ Goto(c, IF module = None THEN "done" ELSE "drain")
  /\ prev' = [prev EXCEPT ![c] = module]
  /\ UNCHANGED <<core, locks, job, inst, took, outcome, woken, user, up>>

(* run_discoverer failed.                                                  *)
DiscoveryFailed(c) == Goto(c, IF job[c] = "reload" THEN "restore" ELSE "done")

(* run_discoverer takes the discoverer out of its slot for the time of the *)
(* call; another discovery finds no discoverer configured.                 *)
Take(c) ==
  /\ pc[c] = "take"
  /\ \/ slot /\ slot' = FALSE /\ Goto(c, "discovering")
     \/ ~slot /\ DiscoveryFailed(c) /\ UNCHANGED slot
  /\ UNCHANGED <<core, waiter, inFlight, call, user, up>>

(* The result does or does not include a new instance of the module.       *)
Discover(c) ==
  /\ pc[c] = "discovering" /\ slot' = TRUE
  /\ \/ DiscoveryFailed(c) /\ UNCHANGED inst
     \/ \E found \in BOOLEAN :
          /\ inst' = [inst EXCEPT ![c] = IF found THEN c ELSE None]
          /\ Goto(c, IF job[c] = "watch" THEN "apply"
                     ELSE IF found THEN "check"
                     ELSE IF job[c] = "reload" THEN "verify" ELSE "done")
  /\ UNCHANGED <<core, waiter, inFlight, job, prev, took, outcome, woken, user, up>>

(* apply_file_changes: the file is gone, new or changed.                   *)
Apply(c) ==
  /\ pc[c] = "apply"
  /\ Goto(c, IF inst[c] = None THEN (IF source THEN "drain" ELSE "done")
             ELSE IF module = None THEN "check" ELSE "drain")
  /\ prev' = [prev EXCEPT ![c] = IF inst[c] = None THEN None ELSE module]
  /\ UNCHANGED <<core, locks, job, inst, took, outcome, woken, user, up>>

Verify(c) ==
  /\ pc[c] = "verify"
  /\ Goto(c, IF module = None THEN "restore" ELSE "done")
  /\ UNCHANGED <<core, locks, call, user, up>>

(* Mutant: a failed reload leaves the module unregistered.                 *)
RestoreForgotten(c) ==
  /\ pc[c] = "restore" /\ Goto(c, "done")
  /\ UNCHANGED <<core, locks, call, user, up>>

(* Mutant: the previous instance is published without its on_load.         *)
RestorePublishes(c) ==
  /\ pc[c] = "restore" /\ Goto(c, "done")
  /\ module' = IF module = None THEN prev[c] ELSE module
  /\ UNCHANGED <<versions, refs, draining, source, locks, call, user, up>>

(* restore_after_failed_reload: reinstate_internal of the captured         *)
(* instance, by the full registration path.  The watcher does not ask      *)
(* whether the id is taken.                                                *)
Restore(c) ==
  /\ pc[c] = "restore"
  /\ IF prev[c] = None \/ (job[c] = "reload" /\ module # None)
     THEN Goto(c, "done") /\ UNCHANGED inst
     ELSE Goto(c, "check") /\ inst' = [inst EXCEPT ![c] = prev[c]]
  /\ UNCHANGED <<core, locks, job, prev, took, outcome, woken, user, up>>

-----------------------------------------------------------------------------
(* acquire() and release().                                                *)

Acquire(u) ==
  /\ holds[u] = None /\ userPc[u] = "idle"
  /\ ~draining /\ module # None
  /\ refs' = refs + 1
  /\ holds' = [holds EXCEPT ![u] = module]
  /\ UNCHANGED <<module, versions, draining, source, locks, call, pc, userPc, up>>

(* Mutant: the last release does not wake the drain.                       *)
ReleaseSilently(u) ==
  /\ holds[u] # None
  /\ holds' = [holds EXCEPT ![u] = None]
  /\ refs' = IF refs > 0 THEN refs - 1 ELSE 0
  /\ UNCHANGED <<module, versions, draining, source, locks, call, pc, userPc, up>>

(* Mutant: the count is decremented without looking whether it is positive.*)
ReleaseUnderflows(u) ==
  /\ holds[u] # None
  /\ holds' = [holds EXCEPT ![u] = None]
  /\ refs' = refs - 1
  /\ userPc' = IF refs = 1 THEN [userPc EXCEPT ![u] = "notify"] ELSE userPc
  /\ UNCHANGED <<module, versions, draining, source, locks, call, pc, up>>

(* The count belongs to the id, not to the instance the user holds.        *)
Release(u) ==
  /\ holds[u] # None
  /\ holds' = [holds EXCEPT ![u] = None]
  /\ refs' = IF refs > 0 THEN refs - 1 ELSE 0
  /\ userPc' = IF refs = 1 THEN [userPc EXCEPT ![u] = "notify"] ELSE userPc
  /\ UNCHANGED <<module, versions, draining, source, locks, call, pc, up>>

Notify(u) ==
  /\ userPc[u] = "notify"
  /\ userPc' = [userPc EXCEPT ![u] = "idle"]
  /\ woken' = IF waiter = None THEN woken ELSE woken \cup {waiter}
  /\ UNCHANGED <<core, locks, job, inst, prev, took, outcome, pc, holds, up>>

Step(c) ==
  \/ Check(c) \/ Reserve(c) \/ Load(c) \/ Rollback(c) \/ Publish(c) \/ Clear(c)
  \/ AddHas(c) \/ AddCheck(c) \/ AddLoad(c) \/ AddPublish(c)
  \/ Drain(c) \/ DrainWait(c) \/ Undrain(c) \/ Forget(c)
  \/ Remove(c) \/ DropEvent(c) \/ Unload(c)
  \/ Capture(c) \/ Take(c) \/ Discover(c) \/ Apply(c) \/ Verify(c) \/ Restore(c)

Next ==
  \/ \E c \in Callers : (\E j \in Jobs : Start(c, j)) \/ Step(c)
  \/ \E u \in Users : Acquire(u) \/ Release(u) \/ Notify(u)

Spec == Init /\ [][Next]_vars

-----------------------------------------------------------------------------
(* Properties.                                                             *)

(* A visible module is loaded: on_load has run, and no on_unload since,    *)
(* neither before it is published nor after a reload put it back.          *)
VisibleIsLoaded == module # None => module \in up

(* Exactly one registration wins: a visible module is only ever replaced   *)
(* by a later version of itself.                                           *)
OneWinner ==
  [][module # None /\ module' \notin {module, None} => {module, module'} \subseteq versions']_vars

(* in_flight: at most one registration of the id is between reservation    *)
(* and publication, so no two of them run on_load at the same time.        *)
OneInFlight ==
  /\ \A c, d \in Callers :
       pc[c] \in Registering \ {"check", "reserve"} /\ pc[d] \in Registering \ {"check", "reserve"} => c = d
  /\ inFlight <=> \E c \in Callers : pc[c] \in Registering \ {"check", "reserve"}

(* No reference is counted twice or outlives the registration it was taken *)
(* from: the count never exceeds the references that users hold to the     *)
(* registered instances, so a drain never waits for nobody.                *)
NoLeakedReference ==
  refs <= Cardinality({u \in Users : holds[u] \in (versions \cup {module}) \ {None}})

(* The drain is told: a waiting safe_unregister with no reference left has *)
(* its permit, or a release is on its way to give it.                      *)
DrainIsTold ==
  \A c \in Callers : pc[c] = "waiting" /\ refs = 0 /\ module # None =>
    c \in woken \/ \E u \in Users : userPc[u] = "notify"

(* A drain ends cleanly (Ok(true)) only when no execution holds the module:*)
(* safe_unregister is notified only while the reference count is zero.     *)
WokenMeansUnused ==
  \A c \in Callers : c \in woken /\ pc[c] = "waiting" => refs = 0

(* D-112: a reload that fails leaves the module registered, unless loading *)
(* the previous instance again failed too.                                 *)
ReloadKeepsModule ==
  [][\A c \in Callers :
       pc[c] # "done" /\ pc'[c] = "done" /\ prev[c] # None
         => module' # None \/ outcome'[c] = "load_failed"]_vars
=============================================================================
