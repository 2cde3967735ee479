--------------------------- MODULE RegistryProofs ---------------------------
(***************************************************************************)
(* Proofs about Registry, for any callers, users and versions, and for any *)
(* overlap of their calls.                                                 *)
(***************************************************************************)
EXTENDS Registry, FiniteSetTheorems, TLAPS

USE ConstantsOK DEF ConstantsOK, Instances, core, locks, call, user, Pcs, Registering, Adding,
    Removing, Reloading, Goto, Registered

(* A call that registers has an instance to register.                      *)
HasInstance == \A c \in Callers : pc[c] \in Registering \cup Adding => inst[c] # None

(* Between the reservation of the id and its end.                          *)
Reserved(p) == p \in {"load", "rollback", "publish", "clear"}

-----------------------------------------------------------------------------
(* Types.                                                                  *)

(* The end of a registration writes an outcome and a place.                *)
LEMMA RegisteredTypes ==
  ASSUME TypeOK, NEW c \in Callers, NEW how \in {"ok", "refused", "load_failed"}, Registered(c, how)
  PROVE  /\ outcome' \in [Callers -> {"none", "ok", "refused", "load_failed"}]
         /\ pc' \in [Callers -> Pcs] /\ UNCHANGED <<job, inst, prev, took, woken>>
  BY DEF TypeOK

(* Every step of a call preserves the types.                               *)
LEMMA StepTypeOK ==
  ASSUME TypeOK, HasInstance, NEW c \in Callers, Step(c)
  PROVE  TypeOK'
  <1>1. CASE Check(c)
    <2>1. CASE Registered(c, "refused")
      BY <1>1, <2>1, RegisteredTypes DEF TypeOK, Check
    <2>2. CASE Goto(c, "reserve") /\ UNCHANGED call
      BY <1>1, <2>2 DEF TypeOK, HasInstance, Check
    <2>3. QED
      BY <1>1, <2>1, <2>2 DEF Check
  <1>2. CASE Reserve(c)
    <2>1. CASE Registered(c, "refused") /\ UNCHANGED inFlight
      BY <1>2, <2>1, RegisteredTypes DEF TypeOK, Reserve
    <2>2. CASE inFlight' = TRUE /\ Goto(c, "load") /\ UNCHANGED call
      BY <1>2, <2>2 DEF TypeOK, Reserve
    <2>3. QED
      BY <1>2, <2>1, <2>2 DEF Reserve
  <1>3. CASE Load(c)
    <2>1. up' \subseteq Instances /\ pc' \in [Callers -> Pcs]
      <3>1. inst[c] \in Instances
        BY <1>3 DEF TypeOK, HasInstance, Load
      <3>2. QED
        BY <1>3, <3>1 DEF TypeOK, Load
    <2>2. QED
      BY <1>3, <2>1 DEF TypeOK, Load
  <1>4. CASE Rollback(c)
    BY <1>4 DEF TypeOK, HasInstance, Rollback
  <1>5. CASE Publish(c)
    <2>1. inst[c] \in Instances
      BY <1>5 DEF TypeOK, HasInstance, Publish
    <2>2. /\ pc' \in [Callers -> Pcs]
          /\ outcome' \in [Callers -> {"none", "ok", "refused", "load_failed"}]
      BY <1>5 DEF TypeOK, Publish
    <2>3. module' \in Instances \cup {None} /\ source' \in BOOLEAN
      BY <1>5, <2>1 DEF TypeOK, Publish
    <2>4. UNCHANGED <<versions, refs, draining, job, inst, prev, took, woken, locks, user, up>>
      BY <1>5 DEF Publish
    <2>5. QED
      BY <2>2, <2>3, <2>4 DEF TypeOK
  <1>6. CASE Clear(c)
    BY <1>6 DEF TypeOK, HasInstance, Clear
  <1>7. CASE AddHas(c)
    BY <1>7 DEF TypeOK, HasInstance, AddHas
  <1>8. CASE AddCheck(c)
    BY <1>8 DEF TypeOK, HasInstance, AddCheck
  <1>9. CASE AddLoad(c)
    BY <1>9 DEF TypeOK, HasInstance, AddLoad
  <1>10. CASE AddPublish(c)
    <2>1. CASE module = None
      BY <1>10, <2>1 DEF TypeOK, AddPublish
    <2>2. CASE module # None /\ Taken(c)
      BY <1>10, <2>2, RegisteredTypes DEF TypeOK, AddPublish
    <2>3. CASE module # None /\ ~Taken(c)
      <3>1. inst[c] \in Instances
        BY <1>10 DEF TypeOK, HasInstance, AddPublish
      <3>2. versions' \subseteq Instances /\ module' \in Instances
        BY <1>10, <2>3, <3>1 DEF TypeOK, AddPublish, Latest
      <3>3. QED
        BY <1>10, <2>3, <3>2, RegisteredTypes DEF TypeOK, AddPublish
    <2>4. QED
      BY <2>1, <2>2, <2>3
  <1>11. CASE Drain(c)
    BY <1>11 DEF TypeOK, HasInstance, Drain, Removed
  <1>12. CASE DrainWait(c)
    BY <1>12 DEF TypeOK, HasInstance, DrainWait
  <1>13. CASE Undrain(c)
    BY <1>13 DEF TypeOK, HasInstance, Undrain
  <1>14. CASE Forget(c)
    BY <1>14 DEF TypeOK, HasInstance, Forget
  <1>15. CASE Remove(c)
    <2>1. module = None => TypeOK'
      BY <1>15 DEF TypeOK, HasInstance, Remove, Removed
    <2>2. ASSUME module # None PROVE TypeOK'
      <3>1. /\ module' = None /\ versions' = {} /\ refs' = 0 /\ draining' = FALSE
            /\ source' = FALSE /\ pc' = [pc EXCEPT ![c] = "drop_event"]
            /\ took' = [took EXCEPT ![c] = module]
            /\ UNCHANGED <<locks, job, inst, prev, outcome, woken, user, up>>
        BY <1>15, <2>2 DEF Remove
      <3>2. QED
        BY <2>2, <3>1 DEF TypeOK
    <2>3. QED
      BY <2>1, <2>2
  <1>16. CASE DropEvent(c)
    BY <1>16 DEF TypeOK, HasInstance, DropEvent
  <1>17. CASE Unload(c)
    BY <1>17 DEF TypeOK, HasInstance, Unload, Removed
  <1>18. CASE Capture(c)
    BY <1>18 DEF TypeOK, HasInstance, Capture
  <1>19. CASE Take(c)
    BY <1>19 DEF TypeOK, HasInstance, Take, DiscoveryFailed
  <1>20. CASE Discover(c)
    BY <1>20 DEF TypeOK, HasInstance, Discover, DiscoveryFailed
  <1>21. CASE Apply(c)
    BY <1>21 DEF TypeOK, HasInstance, Apply
  <1>22. CASE Verify(c)
    BY <1>22 DEF TypeOK, HasInstance, Verify
  <1>23. CASE Restore(c)
    BY <1>23 DEF TypeOK, HasInstance, Restore
  <1>24. QED
    BY <1>1, <1>2, <1>3, <1>4, <1>5, <1>6, <1>7, <1>8, <1>9, <1>10, <1>11, <1>12,
       <1>13, <1>14, <1>15, <1>16, <1>17, <1>18, <1>19, <1>20, <1>21, <1>22, <1>23 DEF Step

(* Every step of a call that leads to a registration has found an instance.*)
LEMMA StepHasInstance ==
  ASSUME TypeOK, HasInstance, NEW c \in Callers, Step(c)
  PROVE  HasInstance'
  <1>1. CASE Check(c)
    BY <1>1 DEF TypeOK, HasInstance, Check
  <1>2. CASE Reserve(c)
    BY <1>2 DEF TypeOK, HasInstance, Reserve
  <1>3. CASE Load(c)
    BY <1>3 DEF TypeOK, HasInstance, Load
  <1>4. CASE Rollback(c)
    BY <1>4 DEF TypeOK, HasInstance, Rollback
  <1>5. CASE Publish(c)
    BY <1>5 DEF TypeOK, HasInstance, Publish
  <1>6. CASE Clear(c)
    BY <1>6 DEF TypeOK, HasInstance, Clear
  <1>7. CASE AddHas(c)
    BY <1>7 DEF TypeOK, HasInstance, AddHas
  <1>8. CASE AddCheck(c)
    BY <1>8 DEF TypeOK, HasInstance, AddCheck
  <1>9. CASE AddLoad(c)
    BY <1>9 DEF TypeOK, HasInstance, AddLoad
  <1>10. CASE AddPublish(c)
    BY <1>10 DEF TypeOK, HasInstance, AddPublish
  <1>11. CASE Drain(c)
    BY <1>11 DEF TypeOK, HasInstance, Drain, Removed
  <1>12. CASE DrainWait(c)
    BY <1>12 DEF TypeOK, HasInstance, DrainWait
  <1>13. CASE Undrain(c)
    BY <1>13 DEF TypeOK, HasInstance, Undrain
  <1>14. CASE Forget(c)
    BY <1>14 DEF TypeOK, HasInstance, Forget
  <1>15. CASE Remove(c)
    BY <1>15 DEF TypeOK, HasInstance, Remove, Removed
  <1>16. CASE DropEvent(c)
    BY <1>16 DEF TypeOK, HasInstance, DropEvent
  <1>17. CASE Unload(c)
    BY <1>17 DEF TypeOK, HasInstance, Unload, Removed
  <1>18. CASE Capture(c)
    BY <1>18 DEF TypeOK, HasInstance, Capture
  <1>19. CASE Take(c)
    BY <1>19 DEF TypeOK, HasInstance, Take, DiscoveryFailed
  <1>20. CASE Discover(c)
    BY <1>20 DEF TypeOK, HasInstance, Discover, DiscoveryFailed
  <1>21. CASE Apply(c)
    BY <1>21 DEF TypeOK, HasInstance, Apply
  <1>22. CASE Verify(c)
    BY <1>22 DEF TypeOK, HasInstance, Verify
  <1>23. CASE Restore(c)
    BY <1>23 DEF TypeOK, HasInstance, Restore
  <1>24. QED
    BY <1>1, <1>2, <1>3, <1>4, <1>5, <1>6, <1>7, <1>8, <1>9, <1>10, <1>11, <1>12,
       <1>13, <1>14, <1>15, <1>16, <1>17, <1>18, <1>19, <1>20, <1>21, <1>22, <1>23 DEF Step

(* The types hold at the start.                                            *)
LEMMA InitTypes == Init => TypeOK /\ HasInstance
  <1> SUFFICES ASSUME Init PROVE TypeOK /\ HasInstance
    OBVIOUS
  <1>1. /\ module \in Instances \cup {None} /\ source \in BOOLEAN /\ up \subseteq Instances
        /\ inFlight \in BOOLEAN /\ slot \in BOOLEAN /\ draining \in BOOLEAN
    BY DEF Init
  <1>2. HasInstance
    BY DEF Init, HasInstance
  <1>3. QED
    BY <1>1, <1>2 DEF Init, TypeOK

(* TypeOK holds in every reachable state: no instance is registered or     *)
(* unregistered that nobody brought, and the reference count is never      *)
(* negative.                                                               *)
THEOREM TypeCorrect == Spec => [](TypeOK /\ HasInstance)
  <1> DEFINE Inv == TypeOK /\ HasInstance
  <1>1. Init => Inv
    BY InitTypes
  <1>2. Inv /\ [Next]_vars => Inv'
    <2>1. ASSUME Inv, NEW c \in Callers, NEW j \in Jobs, Start(c, j) PROVE Inv'
      <3>1. First(j) \in Pcs
        BY DEF First
      <3>2. First(j) \in Registering \cup Adding => j \in {"register", "version"}
        BY DEF First
      <3>3. QED
        BY <2>1, <3>1, <3>2 DEF TypeOK, HasInstance, Start
    <2>2. ASSUME Inv, NEW u \in Users, Acquire(u) PROVE Inv'
      BY <2>2 DEF TypeOK, HasInstance, Acquire
    <2>3. ASSUME Inv, NEW u \in Users, Release(u) PROVE Inv'
      <3>1. refs' \in Nat
        BY <2>3 DEF TypeOK, Release
      <3>2. QED
        BY <2>3, <3>1 DEF TypeOK, HasInstance, Release
    <2>4. ASSUME Inv, NEW u \in Users, Notify(u) PROVE Inv'
      BY <2>4 DEF TypeOK, HasInstance, Notify
    <2>5. ASSUME Inv, UNCHANGED vars PROVE Inv'
      BY <2>5 DEF TypeOK, HasInstance, vars
    <2>6. QED
      BY <2>1, <2>2, <2>3, <2>4, <2>5, StepTypeOK, StepHasInstance DEF Next
  <1>3. QED
    BY <1>1, <1>2, PTL DEF Spec

-----------------------------------------------------------------------------
(* The reservation in in_flight.                                           *)

(* What a step of a call does to the reservation: it takes a free one,     *)
(* gives back its own, or leaves in_flight and its place alone.            *)
LEMMA StepReserved ==
  ASSUME TypeOK, NEW c \in Callers, Step(c)
  PROVE  /\ \A d \in Callers \ {c} : pc'[d] = pc[d]
         /\ \/ ~inFlight /\ inFlight' /\ ~Reserved(pc[c]) /\ Reserved(pc'[c])
            \/ ~inFlight' /\ Reserved(pc[c]) /\ ~Reserved(pc'[c])
            \/ inFlight' = inFlight /\ (Reserved(pc'[c]) <=> Reserved(pc[c]))
  <1>1. CASE Check(c)
    BY <1>1 DEF TypeOK, Reserved, Check
  <1>2. CASE Reserve(c)
    BY <1>2 DEF TypeOK, Reserved, Reserve
  <1>3. CASE Load(c)
    BY <1>3 DEF TypeOK, Reserved, Load
  <1>4. CASE Rollback(c)
    BY <1>4 DEF TypeOK, Reserved, Rollback
  <1>5. CASE Publish(c)
    BY <1>5 DEF TypeOK, Reserved, Publish
  <1>6. CASE Clear(c)
    BY <1>6 DEF TypeOK, Reserved, Clear
  <1>7. CASE AddHas(c)
    BY <1>7 DEF TypeOK, Reserved, AddHas
  <1>8. CASE AddCheck(c)
    BY <1>8 DEF TypeOK, Reserved, AddCheck
  <1>9. CASE AddLoad(c)
    BY <1>9 DEF TypeOK, Reserved, AddLoad
  <1>10. CASE AddPublish(c)
    BY <1>10 DEF TypeOK, Reserved, AddPublish
  <1>11. CASE Drain(c)
    BY <1>11 DEF TypeOK, Reserved, Drain, Removed
  <1>12. CASE DrainWait(c)
    BY <1>12 DEF TypeOK, Reserved, DrainWait
  <1>13. CASE Undrain(c)
    BY <1>13 DEF TypeOK, Reserved, Undrain
  <1>14. CASE Forget(c)
    BY <1>14 DEF TypeOK, Reserved, Forget
  <1>15. CASE Remove(c)
    BY <1>15 DEF TypeOK, Reserved, Remove, Removed
  <1>16. CASE DropEvent(c)
    BY <1>16 DEF TypeOK, Reserved, DropEvent
  <1>17. CASE Unload(c)
    BY <1>17 DEF TypeOK, Reserved, Unload, Removed
  <1>18. CASE Capture(c)
    BY <1>18 DEF TypeOK, Reserved, Capture
  <1>19. CASE Take(c)
    BY <1>19 DEF TypeOK, Reserved, Take, DiscoveryFailed
  <1>20. CASE Discover(c)
    BY <1>20 DEF TypeOK, Reserved, Discover, DiscoveryFailed
  <1>21. CASE Apply(c)
    BY <1>21 DEF TypeOK, Reserved, Apply
  <1>22. CASE Verify(c)
    BY <1>22 DEF TypeOK, Reserved, Verify
  <1>23. CASE Restore(c)
    BY <1>23 DEF TypeOK, Reserved, Restore
  <1>24. QED
    BY <1>1, <1>2, <1>3, <1>4, <1>5, <1>6, <1>7, <1>8, <1>9, <1>10, <1>11, <1>12,
       <1>13, <1>14, <1>15, <1>16, <1>17, <1>18, <1>19, <1>20, <1>21, <1>22, <1>23 DEF Step

(* in_flight is set exactly while one call holds the reservation, so two   *)
(* registrations of the id never run on_load at the same time, whatever    *)
(* else runs in between.                                                   *)
THEOREM RegistrationExclusive == Spec => []OneInFlight
  <1> DEFINE One == /\ \A c, d \in Callers : Reserved(pc[c]) /\ Reserved(pc[d]) => c = d
                    /\ inFlight <=> \E c \in Callers : Reserved(pc[c])
  <1>1. OneInFlight <=> One
    BY DEF OneInFlight, Reserved
  <1>2. Init => One
    BY DEF Init, Reserved
  <1>3. TypeOK /\ One /\ [Next]_vars => One'
    <2> SUFFICES ASSUME TypeOK, One, [Next]_vars PROVE One'
      OBVIOUS
    <2>1. ASSUME NEW c \in Callers, NEW j \in Jobs, Start(c, j) PROVE One'
      <3>1. inFlight' = inFlight /\ \A d \in Callers : Reserved(pc'[d]) <=> Reserved(pc[d])
        BY <2>1 DEF Start, First, TypeOK, Reserved
      <3>2. QED
        BY <3>1
    <2>2. ASSUME NEW c \in Callers, Step(c) PROVE One'
      BY <2>2, StepReserved
    <2>3. ASSUME NEW u \in Users, Acquire(u) \/ Release(u) \/ Notify(u) PROVE One'
      BY <2>3 DEF Acquire, Release, Notify
    <2>4. ASSUME UNCHANGED vars PROVE One'
      BY <2>4 DEF vars
    <2>5. QED
      BY <2>1, <2>2, <2>3, <2>4 DEF Next
  <1>4. Spec => []TypeOK
    BY TypeCorrect, PTL
  <1>5. QED
    BY <1>1, <1>2, <1>3, <1>4, PTL DEF Spec
-----------------------------------------------------------------------------
(* Safety, for any callers, users and versions, when calls are kept apart  *)
(* as Orderly says: registrations overlap with each other and with one     *)
(* removal, while discovery, reload and the watcher's batch run alone.     *)

Alone    == {"discover", "reload", "watch"}
Removals == {"unregister", "safe"}
(* Discovery, reload and the batch run alone, removals one at a time.      *)
Orderly ==
  \A j, k \in Jobs : MayOverlap[<<j, k>>] =>
    j \notin Alone /\ k \notin Alone /\ ~(j \in Removals /\ k \in Removals)

-----------------------------------------------------------------------------
(* The inductive invariant, in parts.                                      *)

(* A call under way.                                                       *)
Active(c) == pc[c] \notin {"idle", "done"}

(* What the place of a call says of its kind, its instances and its        *)
(* outcome.                                                                *)
Placed(c) ==
  /\ Active(c) => job[c] \in Jobs
  /\ pc[c] \in Adding => job[c] = "version"
  /\ pc[c] \in Registering => job[c] \notin Removals
  /\ pc[c] \in Removing => job[c] \in Removals \cup {"reload", "watch"}
  /\ pc[c] \in Reloading => job[c] \in Alone
  /\ pc[c] \in {"capture", "verify"} => job[c] = "reload"
  /\ pc[c] = "apply" => job[c] = "watch"
  /\ pc[c] \in {"idle", "capture", "take", "discovering", "apply"} \cup Removing \cup Adding
       => outcome[c] = "none"
  /\ pc[c] \in Registering \ {"clear"} /\ inst[c] = c => outcome[c] = "none"
  /\ pc[c] \in {"idle", "capture", "apply"} \cup Adding => prev[c] = None
  /\ pc[c] \in {"take", "discovering"} /\ job[c] # "reload" => prev[c] = None
  /\ pc[c] \in Removing /\ inst[c] = None /\ job[c] # "reload" => prev[c] = None
  /\ prev[c] # None => job[c] \in {"reload", "watch"}
  /\ prev[c] # c /\ inst[c] \in {None, c, prev[c]}
  /\ took[c] # None => pc[c] \in {"drop_event", "unload"}
Places == \A c \in Callers : Placed(c)

(* What Orderly makes of the calls under way.                              *)
Apart ==
  \A c, d \in Callers : c # d /\ Active(c) /\ Active(d) =>
    job[c] \notin Alone /\ ~(job[c] \in Removals /\ job[d] \in Removals)

(* The instance of a registration that has not ended is not visible, not   *)
(* on its way out, and nobody means to put it back.                        *)
Fresh ==
  \A c \in Callers : outcome[c] = "none" =>
    /\ c # module /\ c \notin versions
    /\ \A d \in Callers : took[d] # c /\ prev[d] # c

(* on_load has run on what is visible and on what is about to be, and what *)
(* awaits its on_unload is not visible.                                    *)
Loaded ==
  /\ module # None => module \in up
  /\ versions \subseteq up
  /\ \A c \in Callers :
       /\ pc[c] \in {"publish", "v_publish"} => inst[c] \in up
       /\ took[c] # None => took[c] # module /\ took[c] \notin versions

(* Without a module there are neither versions nor references; a call that *)
(* runs alone finds the id as it left it.                                  *)
Kept ==
  /\ module = None => versions = {} /\ refs = 0
  /\ versions # {} => module \in versions
  /\ \A c \in Callers : job[c] \in Alone =>
       /\ pc[c] \in {"reserve", "load", "rollback", "publish"} => module = None
       /\ pc[c] = "clear" => module # None

(* The count is covered by the holders.                                    *)
Counted == refs <= Cardinality({u \in Users : holds[u] \in (versions \cup {module}) \ {None}})

(* The waiting drain.                                                      *)
Told ==
  \A c \in Callers : pc[c] = "waiting" =>
    /\ waiter = c /\ draining /\ module # None
    /\ refs = 0 => c \in woken \/ \E u \in Users : userPc[u] = "notify"

Sound == TypeOK /\ HasInstance /\ Places /\ Apart /\ Fresh /\ Loaded /\ Kept /\ Counted /\ Told

-----------------------------------------------------------------------------
(* What a step of a call does.                                             *)

USE DEF Step, Check, Reserve, Load, Rollback, Publish, Discovered, Clear, AddHas, AddCheck, AddLoad,
    AddPublish, Latest, Drain, DrainWait, Undrain, Forget, Remove, Removed, DropEvent, Unload,
    Capture, Take, DiscoveryFailed, Discover, Apply, Verify, Restore

(* A step is that of a call under way, keeps to its own entries, and never *)
(* takes an outcome back.                                                  *)
LEMMA StepFrame ==
  ASSUME TypeOK, NEW c \in Callers, Step(c)
  PROVE  /\ Active(c) /\ job' = job /\ UNCHANGED user
         /\ \A d \in Callers \ {c} :
              /\ pc'[d] = pc[d] /\ inst'[d] = inst[d] /\ prev'[d] = prev[d]
              /\ took'[d] = took[d] /\ outcome'[d] = outcome[d]
         /\ outcome'[c] = "none" => outcome[c] = "none"
  BY DEF TypeOK, Active

(* The instances and the count change in three ways: a publication of a    *)
(* free id, an added version, or the removal.                              *)
LEMMA StepShared ==
  ASSUME TypeOK, HasInstance, Kept, Places, NEW c \in Callers, Step(c)
  PROVE  \/ UNCHANGED <<module, versions, refs>> /\ (took'[c] = took[c] \/ took'[c] = None)
         \/ /\ pc[c] = "publish" /\ module = None /\ module' = inst[c] /\ inst[c] \in Instances
            /\ outcome'[c] = "ok" /\ UNCHANGED <<versions, refs, up, took, prev, draining>>
         \/ /\ pc[c] = "v_publish" /\ module # None /\ versions' \subseteq versions \cup {module, inst[c]}
            /\ versions \cup {module} \subseteq versions' /\ module' \in versions' /\ inst[c] \in Instances
            /\ outcome'[c] = "ok" /\ UNCHANGED <<refs, up, took, prev, draining>>
         \/ /\ pc[c] = "remove" /\ module # None /\ module' = None /\ versions' = {} /\ refs' = 0
            /\ took'[c] = module /\ UNCHANGED <<up, prev, inst>>
  BY DEF TypeOK, HasInstance, Kept, Places, Placed, Alone

(* An instance is loaded before it is published and unloaded after it was  *)
(* removed.                                                                *)
LEMMA StepUp ==
  ASSUME TypeOK, NEW c \in Callers, Step(c)
  PROVE  /\ \/ up' = up
            \/ up' = up \cup {inst[c]}
            \/ /\ pc[c] = "unload" /\ up' = up \ {took[c]} /\ took'[c] = None
               /\ UNCHANGED <<module, versions>>
         /\ pc'[c] \in {"publish", "v_publish"} => up' = up \cup {inst[c]} /\ inst'[c] = inst[c]
  BY DEF TypeOK

(* A reload puts back nothing but what it found visible.                   *)
LEMMA StepCaptures ==
  ASSUME TypeOK, NEW c \in Callers, Step(c)
  PROVE  prev'[c] \in {prev[c], None, module}
  BY DEF TypeOK

(* The drain's own state changes only under a call that unregisters.       *)
LEMMA StepDrain ==
  ASSUME TypeOK, HasInstance, NEW c \in Callers, Step(c)
  PROVE  /\ pc[c] \notin Removing =>
              UNCHANGED <<waiter, draining, woken, refs>> /\ (module # None => module' # None)
         /\ pc'[c] = "waiting" => pc[c] = "drain" /\ waiter' = c /\ draining' /\ refs' # 0 /\ module' # None
  BY DEF TypeOK, HasInstance

HIDE DEF Step, Check, Reserve, Load, Rollback, Publish, Discovered, Clear, AddHas, AddCheck, AddLoad,
    AddPublish, Latest, Drain, DrainWait, Undrain, Forget, Remove, Removed, DropEvent, Unload,
    Capture, Take, DiscoveryFailed, Discover, Apply, Verify, Restore

-----------------------------------------------------------------------------
(* Each part of the invariant under a step of a call.                      *)

(* A call is where its kind of call may be.                                *)
LEMMA StepPlaces ==
  ASSUME TypeOK, HasInstance, Places, Fresh, NEW c \in Callers, Step(c)
  PROVE  Places'
  <1> USE DEF TypeOK, HasInstance, Active, Placed, Alone, Removals
  <1>1. \A d \in Callers \ {c} : Placed(d)'
    BY StepFrame DEF Places
  <1>2. Placed(c) /\ (outcome[c] = "none" => module # c)
    BY DEF Places, Fresh
  <1>3. Placed(c)'
    <2>1. CASE Check(c)
      BY <1>2, <2>1 DEF Check
    <2>2. CASE Reserve(c)
      BY <1>2, <2>2 DEF Reserve
    <2>3. CASE Load(c)
      BY <1>2, <2>3 DEF Load
    <2>4. CASE Rollback(c)
      BY <1>2, <2>4 DEF Rollback
    <2>5. CASE Publish(c)
      BY <1>2, <2>5 DEF Publish
    <2>6. CASE Clear(c)
      BY <1>2, <2>6 DEF Clear
    <2>7. CASE AddHas(c)
      BY <1>2, <2>7 DEF AddHas
    <2>8. CASE AddCheck(c)
      BY <1>2, <2>8 DEF AddCheck
    <2>9. CASE AddLoad(c)
      BY <1>2, <2>9 DEF AddLoad
    <2>10. CASE AddPublish(c)
      BY <1>2, <2>10 DEF AddPublish
    <2>11. CASE Drain(c)
      BY <1>2, <2>11 DEF Drain, Removed
    <2>12. CASE DrainWait(c)
      BY <1>2, <2>12 DEF DrainWait
    <2>13. CASE Undrain(c)
      BY <1>2, <2>13 DEF Undrain
    <2>14. CASE Forget(c)
      BY <1>2, <2>14 DEF Forget
    <2>15. CASE Remove(c)
      BY <1>2, <2>15 DEF Remove, Removed
    <2>16. CASE DropEvent(c)
      BY <1>2, <2>16 DEF DropEvent
    <2>17. CASE Unload(c)
      BY <1>2, <2>17 DEF Unload, Removed
    <2>18. CASE Capture(c)
      BY <1>2, <2>18 DEF Capture
    <2>19. CASE Take(c)
      BY <1>2, <2>19 DEF Take, DiscoveryFailed
    <2>20. CASE Discover(c)
      BY <1>2, <2>20 DEF Discover, DiscoveryFailed
    <2>21. CASE Apply(c)
      BY <1>2, <2>21 DEF Apply
    <2>22. CASE Verify(c)
      BY <1>2, <2>22 DEF Verify
    <2>23. CASE Restore(c)
      BY <1>2, <2>23 DEF Restore
    <2>24. QED
      BY <2>1, <2>2, <2>3, <2>4, <2>5, <2>6, <2>7, <2>8, <2>9, <2>10, <2>11, <2>12, <2>13,
         <2>14, <2>15, <2>16, <2>17, <2>18, <2>19, <2>20, <2>21, <2>22, <2>23 DEF Step
  <1>4. QED
    BY <1>1, <1>3 DEF Places

(* Calls that were kept apart stay apart.                                  *)
LEMMA StepApart ==
  ASSUME Apart, TypeOK, NEW c \in Callers, Step(c)
  PROVE  Apart'
  BY StepFrame DEF Apart, Active

(* An instance whose registration has not ended was never visible.         *)
LEMMA StepFresh ==
  ASSUME TypeOK, HasInstance, Kept, Places, Fresh, NEW c \in Callers, Step(c)
  PROVE  Fresh'
  <1> SUFFICES ASSUME NEW d \in Callers, outcome'[d] = "none"
               PROVE  d # module' /\ d \notin versions' /\ \A e \in Callers : took'[e] # d /\ prev'[e] # d
    BY DEF Fresh
  <1>1. outcome[d] = "none" /\ d # module /\ d \notin versions /\ \A e \in Callers : took[e] # d /\ prev[e] # d
    BY StepFrame DEF Fresh
  <1>2. inst[c] = d /\ pc[c] \in {"publish", "v_publish"} /\ outcome'[c] = "ok" => FALSE
    BY <1>1 DEF Places, Placed
  <1>3. d # None
    OBVIOUS
  <1>4. d # module' /\ d \notin versions'
    BY <1>1, <1>2, <1>3, StepShared
  <1>5. took'[c] # d /\ prev'[c] # d
    BY <1>1, <1>3, StepShared, StepCaptures
  <1>6. QED
    BY <1>1, <1>4, <1>5, StepFrame

(* What is visible is loaded, and what is on its way out is not visible.   *)
LEMMA StepLoaded ==
  ASSUME TypeOK, HasInstance, Kept, Places, Apart, Fresh, Loaded, NEW c \in Callers, Step(c)
  PROVE  Loaded'
  <1>1. (module' # None => module' \in up') /\ versions' \subseteq up'
    BY StepShared, StepUp DEF Loaded, TypeOK
  <1>2. ASSUME NEW d \in Callers, pc'[d] \in {"publish", "v_publish"} PROVE inst'[d] \in up'
    <2>1. CASE d = c
      BY <1>2, <2>1, StepUp DEF TypeOK
    <2>2. CASE d # c
      <3>1. inst'[d] = inst[d] /\ pc'[d] = pc[d] /\ inst[d] \in up
        BY <1>2, <2>2, StepFrame DEF Loaded
      <3>2. pc[c] = "unload" => took[c] # inst[d]
        BY <1>2, <2>2, <3>1 DEF Apart, Active, Places, Placed, Fresh, Alone, HasInstance
      <3>3. QED
        BY <3>1, <3>2, StepUp
    <2>3. QED
      BY <2>1, <2>2
  <1>3. ASSUME NEW d \in Callers, took'[d] # None PROVE took'[d] # module' /\ took'[d] \notin versions'
    <2>1. CASE d = c
      BY <1>3, <2>1, StepShared, StepUp DEF Loaded, Places, Placed
    <2>2. CASE d # c
      <3>1. took'[d] = took[d] /\ took[d] # module /\ took[d] \notin versions
        BY <1>3, <2>2, StepFrame DEF Loaded
      <3>2. pc[c] \in {"publish", "v_publish"} => took[d] # inst[c]
        BY <1>3, <2>2, <3>1 DEF Apart, Active, Places, Placed, Fresh, Alone, HasInstance
      <3>3. QED
        BY <1>3, <3>1, <3>2, StepShared
    <2>3. QED
      BY <2>1, <2>2
  <1>4. QED
    BY <1>1, <1>2, <1>3 DEF Loaded

(* Versions and references end with the registration they belong to.       *)
LEMMA StepKept ==
  ASSUME TypeOK, HasInstance, Kept, Places, Apart, NEW c \in Callers, Step(c)
  PROVE  Kept'
  <1>1. (module' = None => versions' = {} /\ refs' = 0) /\ (versions' # {} => module' \in versions')
    BY StepShared DEF Kept, TypeOK
  <1>2. ASSUME NEW d \in Callers \ {c}, job'[d] \in Alone
        PROVE  /\ pc'[d] \in {"reserve", "load", "rollback", "publish"} => module' = None
               /\ pc'[d] = "clear" => module' # None
    BY <1>2, StepFrame DEF Apart, Active
  <1>3. ASSUME job[c] \in Alone
        PROVE  /\ pc'[c] \in {"reserve", "load", "rollback", "publish"} => module' = None
               /\ pc'[c] = "clear" => module' # None
    BY <1>3 DEF Kept, TypeOK, HasInstance, Step, Check, Reserve, Load, Rollback, Publish,
       Discovered, Clear, AddHas, AddCheck, AddLoad, AddPublish, Latest, Drain, DrainWait,
       Undrain, Forget, Remove, Removed, DropEvent, Unload, Capture, Take, DiscoveryFailed,
       Discover, Apply, Verify, Restore
  <1>4. QED
    BY <1>1, <1>2, <1>3, StepFrame DEF Kept

(* The count is covered by the users who hold a registered instance.       *)
LEMMA StepCounted ==
  ASSUME TypeOK, HasInstance, Kept, Places, Counted, NEW c \in Callers, Step(c)
  PROVE  Counted'
  <1> DEFINE Holders == {u \in Users : holds[u] \in (versions \cup {module}) \ {None}}
  <1>1. IsFiniteSet(Holders) /\ IsFiniteSet(Holders')
    BY FiniteUsers, FS_Subset
  <1>2. Cardinality(Holders) \in Nat /\ Cardinality(Holders') \in Nat
    BY <1>1, FS_CardinalityType
  <1>3. CASE refs' = 0
    BY <1>2, <1>3 DEF Counted
  <1>4. CASE refs' = refs /\ Holders \subseteq Holders'
    BY <1>1, <1>2, <1>4, FS_Subset DEF Counted, TypeOK
  <1>5. CASE module = None /\ refs' = refs
    BY <1>2, <1>5 DEF Counted, Kept
  <1>6. holds' = holds
    BY StepFrame
  <1>7. versions \cup {module} \subseteq versions' \cup {module'} => Holders \subseteq Holders'
    BY <1>6
  <1>8. QED
    BY <1>3, <1>4, <1>5, <1>7, StepShared

(* The waiting drain is the one that is notified, and nobody acquires.     *)
LEMMA StepTold ==
  ASSUME TypeOK, HasInstance, Kept, Places, Apart, Told, NEW c \in Callers, Step(c)
  PROVE  Told'
  <1> SUFFICES ASSUME NEW d \in Callers, pc'[d] = "waiting"
               PROVE  /\ waiter' = d /\ draining' /\ module' # None
                      /\ refs' = 0 => d \in woken' \/ \E u \in Users : userPc'[u] = "notify"
    BY DEF Told
  <1>1. CASE d = c
    BY <1>1, StepDrain
  <1>2. CASE d # c
    <2>1. pc[d] = "waiting"
      BY <1>2, StepFrame
    <2>2. pc[c] \notin Removing
      BY <1>2, <2>1, StepFrame DEF Apart, Places, Placed, Active, Alone, Removals
    <2>3. UNCHANGED <<waiter, draining, woken, refs, userPc>> 
      BY <2>2, StepDrain, StepFrame
    <2>4. QED
      BY <2>1, <2>2, <2>3, StepDrain DEF Told
  <1>3. QED
    BY <1>1, <1>2

(* A reload that ends leaves a module behind, or its on_load failed.       *)
LEMMA StepReload ==
  ASSUME TypeOK, HasInstance, Places, Apart, Kept, OneInFlight, NEW c \in Callers, Step(c),
         pc'[c] = "done", prev[c] # None
  PROVE  module' # None \/ outcome'[c] = "load_failed"
  <1>1. Placed(c) /\ job[c] \in {"reload", "watch"}
    BY DEF Places, Placed
  <1>2. pc[c] = "reserve" => ~inFlight
    BY <1>1 DEF OneInFlight, Apart, Active, Alone
  <1>3. pc[c] = "clear" => module # None
    BY <1>1 DEF Kept, Alone
  <1>4. QED
    BY <1>1, <1>2, <1>3 DEF Placed, TypeOK, HasInstance, Step, Check, Reserve, Load, Rollback,
       Publish, Discovered, Clear, AddHas, AddCheck, AddLoad, AddPublish, Latest, Drain,
       DrainWait, Undrain, Forget, Remove, Removed, DropEvent, Unload, Capture, Take,
       DiscoveryFailed, Discover, Apply, Verify, Restore

-----------------------------------------------------------------------------
(* The invariant as a whole.                                               *)

(* It holds of a registry that starts.                                     *)
LEMMA InitSound == Init => Sound
  <1> SUFFICES ASSUME Init PROVE Sound
    OBVIOUS
  <1>1. TypeOK /\ HasInstance
    BY InitTypes
  <1>2. Places /\ Apart /\ Fresh /\ Loaded /\ Kept /\ Told
    BY DEF Init, Places, Placed, Apart, Active, Fresh, Loaded, Kept, Told
  <1>3. Counted
    <2> DEFINE Holders == {u \in Users : holds[u] \in (versions \cup {module}) \ {None}}
    <2>1. IsFiniteSet(Holders)
      BY FiniteUsers, FS_Subset
    <2>2. QED
      BY <2>1, FS_CardinalityType DEF Init, Counted
  <1>4. QED
    BY <1>1, <1>2, <1>3 DEF Sound

(* A call that starts finds the others as Orderly allows.                  *)
LEMMA StartSound ==
  ASSUME Orderly, Sound, NEW c \in Callers, NEW j \in Jobs, Start(c, j), TypeOK', HasInstance'
  PROVE  Sound'
  <1> USE DEF Sound
  <1>1. /\ pc[c] = "idle" /\ job' = [job EXCEPT ![c] = j] /\ pc' = [pc EXCEPT ![c] = First(j)]
        /\ inst' = [inst EXCEPT ![c] = IF j \in {"register", "version"} THEN c ELSE None]
        /\ UNCHANGED <<core, locks, prev, took, outcome, woken, user, up>>
    BY DEF Start
  <1>2. Places'
    <2>1. ASSUME NEW d \in Callers \ {c} PROVE Placed(d)'
      BY <1>1 DEF TypeOK, Places, Placed, Active
    <2>2. Placed(c)'
      BY <1>1 DEF TypeOK, Places, Placed, Active, First, Alone, Removals
    <2>3. QED
      BY <2>1, <2>2 DEF Places
  <1>3. Apart'
    <2>1. ASSUME NEW d \in Callers, Active(d)
          PROVE  j \notin Alone /\ job[d] \notin Alone /\ ~(j \in Removals /\ job[d] \in Removals)
      <3>1. job[d] \in Jobs /\ MayOverlap[<<j, job[d]>>]
        BY <2>1 DEF Start, Active, Places, Placed
      <3>2. QED
        BY <3>1 DEF Orderly
    <2>2. \A d \in Callers \ {c} : job'[d] = job[d] /\ (Active(d)' <=> Active(d))
      BY <1>1 DEF TypeOK, Active
    <2>3. job'[c] = j
      BY <1>1 DEF TypeOK
    <2>4. QED
      BY <2>1, <2>2, <2>3 DEF Apart
  <1>4. Fresh' /\ Counted' /\ Loaded'
    BY <1>1 DEF Fresh, Counted, Loaded, TypeOK, First
  <1>5. Kept' /\ Told'
    BY <1>1 DEF TypeOK, Kept, Told, First
  <1>6. QED
    BY <1>2, <1>3, <1>4, <1>5

(* Users acquire and release.                                              *)
LEMMA UserSound ==
  ASSUME Sound, NEW u \in Users, Acquire(u) \/ Release(u) \/ Notify(u), TypeOK', HasInstance'
  PROVE  Sound'
  <1> USE DEF Sound
  <1> DEFINE Holders == {w \in Users : holds[w] \in (versions \cup {module}) \ {None}}
  <1>1. UNCHANGED <<module, versions, draining, source, locks, job, inst, prev, took, outcome, pc, up>>
    BY DEF Acquire, Release, Notify
  <1>2. Places' /\ Apart' /\ Fresh' /\ Loaded'
    BY <1>1 DEF Places, Placed, Active, Apart, Fresh, Loaded
  <1>3. Kept'
    BY <1>1 DEF Kept, Acquire, Release, Notify, TypeOK
  <1>4. Told'
    BY <1>1 DEF Told, Acquire, Release, Notify, TypeOK
  <1>5. IsFiniteSet(Holders) /\ IsFiniteSet(Holders')
    BY FiniteUsers, FS_Subset
  <1>6. Cardinality(Holders) \in Nat /\ Cardinality(Holders') \in Nat
    BY <1>5, FS_CardinalityType
  <1>7. CASE Acquire(u)
    <2>1. Holders' = Holders \cup {u} /\ u \notin Holders
      BY <1>7 DEF Acquire, TypeOK
    <2>2. Cardinality(Holders') = Cardinality(Holders) + 1
      <3> HIDE DEF Holders
      <3> QED
        BY <1>5, <2>1, FS_AddElement
    <2>3. Counted'
      BY <1>6, <1>7, <2>2 DEF Acquire, Counted, TypeOK
    <2>4. QED
      BY <1>2, <1>3, <1>4, <2>3
  <1>8. CASE Release(u)
    <2>1. Holders' = Holders \ {u}
      BY <1>8 DEF Release, TypeOK
    <2>2. Cardinality(Holders) <= Cardinality(Holders') + 1
      <3> HIDE DEF Holders
      <3> QED
        BY <1>5, <1>6, <2>1, FS_RemoveElement
    <2>3. Counted'
      BY <1>3, <1>6, <1>8, <2>2 DEF Release, Counted, TypeOK
    <2>4. QED
      BY <1>2, <1>3, <1>4, <2>3
  <1>9. CASE Notify(u)
    BY <1>2, <1>3, <1>4, <1>9 DEF Notify, Counted
  <1>10. QED
    BY <1>7, <1>8, <1>9

(* With calls kept apart, every step keeps the registry sound.             *)
LEMMA NextSound == Orderly /\ OneInFlight /\ Sound /\ TypeOK' /\ HasInstance' /\ [Next]_vars => Sound'
  <1> SUFFICES ASSUME Orderly, Sound, TypeOK', HasInstance', [Next]_vars PROVE Sound'
    OBVIOUS
  <1>1. ASSUME NEW c \in Callers, Step(c) PROVE Sound'
    BY <1>1, StepPlaces, StepApart, StepFresh, StepLoaded, StepKept, StepCounted, StepTold DEF
       Sound
  <1>2. CASE UNCHANGED vars
    BY <1>2 DEF Sound, vars, Places, Placed, Active, Apart, Fresh, Loaded, Kept, Counted, Told
  <1>3. QED
    BY <1>1, <1>2, StartSound, UserSound DEF Next

(* The invariant holds throughout, whatever calls are made within the      *)
(* order.                                                                  *)
THEOREM Soundness == ASSUME Orderly PROVE Spec => []Sound
  <1>1. Init => Sound
    BY InitSound
  <1>2. Orderly /\ OneInFlight /\ Sound /\ TypeOK' /\ HasInstance' /\ [Next]_vars => Sound'
    BY NextSound
  <1>3. QED
    BY <1>1, <1>2, TypeCorrect, RegistrationExclusive, PTL DEF Spec

(* A visible module is loaded: neither is an instance published before its *)
(* on_load, nor does the on_unload of an earlier registration hit one that *)
(* a failed reload has put back.                                           *)
THEOREM LoadedWhileVisible == ASSUME Orderly PROVE Spec => []VisibleIsLoaded
  <1>1. Sound => VisibleIsLoaded
    BY DEF Sound, Loaded, VisibleIsLoaded
  <1>2. QED
    BY <1>1, Soundness, PTL

(* The reference count never exceeds the references users hold to the      *)
(* registered instances: none is counted twice or outlives its module.     *)
THEOREM ReferencesCounted == ASSUME Orderly PROVE Spec => []NoLeakedReference
  <1>1. Sound => NoLeakedReference
    BY DEF Sound, Counted, NoLeakedReference
  <1>2. QED
    BY <1>1, Soundness, PTL

(* A safe_unregister that waits with no reference left has its permit, or  *)
(* a release is about to give it: no drain sleeps through its last         *)
(* release.                                                                *)
THEOREM DrainTold == ASSUME Orderly PROVE Spec => []DrainIsTold
  <1>1. Sound => DrainIsTold
    BY DEF Sound, Told, DrainIsTold
  <1>2. QED
    BY <1>1, Soundness, PTL

(* A visible module is only replaced by a later version of itself: of      *)
(* competing registrations one wins.                                       *)
THEOREM WinnerStays == ASSUME Orderly PROVE Spec => OneWinner
  <1>1. Sound /\ [Next]_vars =>
          [module # None /\ module' \notin {module, None} => {module, module'} \subseteq versions']_vars
    <2> SUFFICES ASSUME Sound, Next, module # None, module' \notin {module, None}
                 PROVE  {module, module'} \subseteq versions'
      BY DEF vars, core
    <2>1. ASSUME NEW c \in Callers, Step(c) PROVE {module, module'} \subseteq versions'
      BY <2>1, StepShared DEF Sound
    <2>2. QED
      BY <2>1 DEF Next, Start, Acquire, Release, Notify
  <1>2. QED
    BY <1>1, Soundness, PTL DEF Spec, OneWinner

(* D-112: a reload or a batch of the watcher that fails leaves the module  *)
(* registered, unless loading the previous instance again failed.          *)
THEOREM FailedReloadKeeps == ASSUME Orderly PROVE Spec => ReloadKeepsModule
  <1> DEFINE Keeps == \A c \in Callers :
                pc[c] # "done" /\ pc'[c] = "done" /\ prev[c] # None =>
                  module' # None \/ outcome'[c] = "load_failed"
  <1>1. Sound /\ OneInFlight /\ [Next]_vars => [Keeps]_vars
    <2> SUFFICES ASSUME Sound, OneInFlight, Next, NEW c \in Callers,
                        pc[c] # "done", pc'[c] = "done", prev[c] # None
                 PROVE  module' # None \/ outcome'[c] = "load_failed"
      OBVIOUS
    <2>1. ASSUME NEW d \in Callers, Step(d) PROVE module' # None \/ outcome'[c] = "load_failed"
      <3>1. d = c
        BY <2>1, StepFrame DEF Sound
      <3>2. QED
        BY <2>1, <3>1, StepReload DEF Sound
    <2>2. ASSUME NEW d \in Callers, NEW j \in Jobs, Start(d, j) PROVE FALSE
      BY <2>2 DEF Start, First, Sound, TypeOK
    <2>3. ~\E u \in Users : Acquire(u) \/ Release(u) \/ Notify(u)
      BY DEF Acquire, Release, Notify
    <2>4. QED
      BY <2>1, <2>2, <2>3 DEF Next
  <1>2. QED
    BY <1>1, Soundness, RegistrationExclusive, PTL DEF Spec, ReloadKeepsModule
=============================================================================
