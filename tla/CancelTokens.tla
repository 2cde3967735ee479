---------------------------- MODULE CancelTokens ----------------------------
(***************************************************************************)
(* CancelToken (src/src/cancel.rs): linked scopes and the module           *)
(* executions each of them owns.  spawn_tracked registers an execution     *)
(* with its token and every ancestor of it; abort_owned_executions and     *)
(* drain work on one scope.  A step is what happens under one acquisition  *)
(* of a scope's `active` lock, one atomic operation or one notification.   *)
(* The flag that cancel() sets and modules poll is part of Calls.          *)
(***************************************************************************)
EXTENDS Naturals

CONSTANTS
  Scopes,      \* the tokens
  Parent,      \* the token each was derived from with child(), or None
  Executions,  \* the calls of spawn_tracked
  Home,        \* the token each is spawned on
  Callers,     \* of drain() and abort_owned_executions()
  Aborters,    \* the latter
  None

ASSUME TokensOK ==
  /\ None \notin Scopes
  /\ Parent \in [Scopes -> Scopes \cup {None}]
  /\ Home \in [Executions -> Scopes]
  /\ Aborters \subseteq Callers

VARIABLES
  abortFlag,   \* scopes with abort_requested
  records,     \* <<s, e>>: scope s has a record of e in `active`
  asked,       \* records with abort_requested
  attached,    \* records with an AbortHandle
  spawner,     \* where spawn_tracked is
  at,          \* the scope it is at on its way up, None at the end
  task,        \* the TrackedExecution
  leaving,     \* the scope its registration leaves next
  aborted,     \* executions whose AbortHandle was used
  scope,       \* the scope a caller works on
  pc,          \* where the caller is
  collected,   \* the executions whose handles it collected under the lock
  due,         \* executions that ran in its scope when its drain began
  notified     \* callers whose enabled Notified was notified

books  == <<records, asked, attached>>
spawns == <<spawner, at>>
tasks  == <<task, leaving>>
calls  == <<scope, pc, collected, due, notified>>
vars   == <<abortFlag, books, spawns, tasks, aborted, calls>>

CallerPcs == {"idle", "flag", "mark", "send", "enable", "check", "wait", "returned"}

TypeOK ==
  /\ abortFlag \subseteq Scopes
  /\ records \subseteq Scopes \X Executions /\ asked \subseteq records /\ attached \subseteq records
  /\ spawner \in [Executions -> {"idle", "insert", "attach"}]
  /\ at \in [Executions -> Scopes \cup {None}]
  /\ task \in [Executions -> {"none", "running", "removing", "notifying", "gone"}]
  /\ leaving \in [Executions -> Scopes \cup {None}]
  /\ aborted \subseteq Executions
  /\ scope \in [Callers -> Scopes \cup {None}]
  /\ pc \in [Callers -> CallerPcs]
  /\ collected \in [Callers -> SUBSET Executions]
  /\ due \in [Callers -> SUBSET Executions]
  /\ notified \subseteq Callers

Init ==
  /\ abortFlag = {} /\ records = {} /\ asked = {} /\ attached = {}
  /\ spawner = [e \in Executions |-> "idle"] /\ at = [e \in Executions |-> None]
  /\ task = [e \in Executions |-> "none"] /\ leaving = [e \in Executions |-> None]
  /\ aborted = {}
  /\ scope = [c \in Callers |-> None] /\ pc = [c \in Callers |-> "idle"]
  /\ collected = [c \in Callers |-> {}] /\ due = [c \in Callers |-> {}]
  /\ notified = {}

Goto(c, p) == pc' = [pc EXCEPT ![c] = p]

-----------------------------------------------------------------------------
(* spawn_tracked.                                                          *)

Spawn(e) ==
  /\ spawner[e] = "idle"
  /\ spawner' = [spawner EXCEPT ![e] = "insert"]
  /\ at' = [at EXCEPT ![e] = Home[e]]
  /\ UNCHANGED <<abortFlag, books, tasks, aborted, calls>>

(* Mutant: a record does not inherit the scope's abort_requested.          *)
InsertUnasked(e) ==
  LET s == at[e] IN
  /\ spawner[e] = "insert" /\ s # None
  /\ records' = records \cup {<<s, e>>}
  /\ at' = [at EXCEPT ![e] = Parent[s]]
  /\ UNCHANGED <<abortFlag, asked, attached, spawner, tasks, aborted, calls>>

(* The record of one scope, with the abort_requested it has by now.        *)
Insert(e) ==
  LET s == at[e] IN
  /\ spawner[e] = "insert" /\ s # None
  /\ records' = records \cup {<<s, e>>}
  /\ asked' = IF s \in abortFlag THEN asked \cup {<<s, e>>} ELSE asked
  /\ at' = [at EXCEPT ![e] = Parent[s]]
  /\ UNCHANGED <<abortFlag, attached, spawner, tasks, aborted, calls>>

(* tokio::spawn: the task runs from here on.                               *)
Launch(e) ==
  /\ spawner[e] = "insert" /\ at[e] = None
  /\ spawner' = [spawner EXCEPT ![e] = "attach"]
  /\ at' = [at EXCEPT ![e] = Home[e]]
  /\ task' = [task EXCEPT ![e] = "running"]
  /\ UNCHANGED <<abortFlag, books, leaving, aborted, calls>>

(* The handle goes into the record of one scope, if it is still there.     *)
Attach(e) ==
  LET s == at[e] IN
  /\ spawner[e] = "attach" /\ s # None
  /\ at' = [at EXCEPT ![e] = Parent[s]]
  /\ attached' = IF <<s, e>> \in records THEN attached \cup {<<s, e>>} ELSE attached
  /\ aborted' = IF <<s, e>> \in asked THEN aborted \cup {e} ELSE aborted
  /\ UNCHANGED <<abortFlag, records, asked, spawner, tasks, calls>>

-----------------------------------------------------------------------------
(* The tracked execution.  It ends by itself, or at its next poll when it  *)
(* is aborted; either way the module's future is dropped first and the     *)
(* registration after it, scope by scope.                                  *)

(* Mutant: the registration is dropped before the module's future.         *)
EndRegistrationFirst(e) ==
  /\ task[e] = "running" /\ leaving[e] = None
  /\ leaving' = [leaving EXCEPT ![e] = Home[e]]
  /\ records' = records \ {<<Home[e], e>>}
  /\ asked' = asked \ {<<Home[e], e>>} /\ attached' = attached \ {<<Home[e], e>>}
  /\ UNCHANGED <<abortFlag, spawns, task, aborted, calls>>

End(e) ==
  /\ task[e] = "running"
  /\ task' = [task EXCEPT ![e] = "removing"]
  /\ leaving' = [leaving EXCEPT ![e] = Home[e]]
  /\ UNCHANGED <<abortFlag, books, spawns, aborted, calls>>

Remove(e) ==
  LET r == <<leaving[e], e>> IN
  /\ task[e] = "removing"
  /\ task' = [task EXCEPT ![e] = "notifying"]
  /\ records' = records \ {r} /\ asked' = asked \ {r} /\ attached' = attached \ {r}
  /\ UNCHANGED <<abortFlag, spawns, leaving, aborted, calls>>

(* Mutant: notify_one in place of notify_waiters.                          *)
NotifyOne(e) ==
  LET s == leaving[e]
      sleeping == {c \in Callers : scope[c] = s /\ pc[c] \in {"check", "wait"}} IN
  /\ task[e] = "notifying"
  /\ \/ sleeping = {} /\ UNCHANGED notified
     \/ \E c \in sleeping : notified' = notified \cup {c}
  /\ leaving' = [leaving EXCEPT ![e] = Parent[s]]
  /\ task' = [task EXCEPT ![e] = IF Parent[s] = None THEN "gone" ELSE "removing"]
  /\ UNCHANGED <<abortFlag, books, spawns, aborted, scope, pc, collected, due>>

(* changed.notify_waiters(): every Notified enabled by now.                *)
NotifyWaiters(e) ==
  LET s == leaving[e] IN
  /\ task[e] = "notifying"
  /\ notified' = notified \cup {c \in Callers : scope[c] = s /\ pc[c] \in {"check", "wait"}}
  /\ leaving' = [leaving EXCEPT ![e] = Parent[s]]
  /\ task' = [task EXCEPT ![e] = IF Parent[s] = None THEN "gone" ELSE "removing"]
  /\ UNCHANGED <<abortFlag, books, spawns, aborted, scope, pc, collected, due>>

-----------------------------------------------------------------------------
(* abort_owned_executions, which ends with drain, and drain.               *)

Call(c, s) ==
  /\ pc[c] = "idle" /\ Goto(c, IF c \in Aborters THEN "flag" ELSE "enable")
  /\ scope' = [scope EXCEPT ![c] = s]
  /\ due' = [due EXCEPT ![c] = {e \in Executions : <<s, e>> \in records /\ task[e] = "running"}]
  /\ UNCHANGED <<abortFlag, books, spawns, tasks, aborted, collected, notified>>

SetFlag(c) ==
  /\ pc[c] = "flag" /\ Goto(c, "mark")
  /\ abortFlag' = abortFlag \cup {scope[c]}
  /\ UNCHANGED <<books, spawns, tasks, aborted, scope, collected, due, notified>>

(* Every record of the scope is asked; those with a handle are collected.  *)
Mark(c) ==
  LET mine == {r \in records : r[1] = scope[c]} IN
  /\ pc[c] = "mark" /\ Goto(c, "send")
  /\ asked' = asked \cup mine
  /\ collected' = [collected EXCEPT ![c] = {r[2] : r \in mine \cap attached}]
  /\ UNCHANGED <<abortFlag, records, attached, spawns, tasks, aborted, scope, due, notified>>

Send(c) ==
  /\ pc[c] = "send" /\ Goto(c, "enable")
  /\ aborted' = aborted \cup collected[c]
  /\ collected' = [collected EXCEPT ![c] = {}]
  /\ UNCHANGED <<abortFlag, books, spawns, tasks, scope, due, notified>>

(* notified() and enable().                                                *)
Enable(c) ==
  /\ pc[c] = "enable" /\ Goto(c, "check")
  /\ notified' = notified \ {c}
  /\ UNCHANGED <<abortFlag, books, spawns, tasks, aborted, scope, collected, due>>

(* has_active_executions.                                                  *)
Empty(s) == \A e \in Executions : <<s, e>> \notin records

Check(c) ==
  /\ pc[c] = "check" /\ ~Empty(scope[c]) /\ Goto(c, "wait")
  /\ UNCHANGED <<abortFlag, books, spawns, tasks, aborted, scope, collected, due, notified>>

Return(c) ==
  /\ pc[c] = "check" /\ Empty(scope[c]) /\ Goto(c, "returned")
  /\ scope' = [scope EXCEPT ![c] = None] /\ notified' = notified \ {c}
  /\ UNCHANGED <<abortFlag, books, spawns, tasks, aborted, collected, due>>

Wake(c) ==
  /\ pc[c] = "wait" /\ c \in notified /\ Goto(c, "enable")
  /\ UNCHANGED <<abortFlag, books, spawns, tasks, aborted, scope, collected, due, notified>>

(* The caller's future is dropped at its only await.                       *)
Dropped(c) ==
  /\ pc[c] = "wait" /\ Goto(c, "returned")
  /\ scope' = [scope EXCEPT ![c] = None] /\ notified' = notified \ {c}
  /\ due' = [due EXCEPT ![c] = {}]
  /\ UNCHANGED <<abortFlag, books, spawns, tasks, aborted, collected>>

-----------------------------------------------------------------------------
Spawning(e) == Spawn(e) \/ Insert(e) \/ Launch(e) \/ Attach(e)
Ending(e)   == End(e) \/ Remove(e) \/ NotifyWaiters(e)
Aborting(c) == SetFlag(c) \/ Mark(c) \/ Send(c)
Draining(c) == Enable(c) \/ Check(c) \/ Return(c) \/ Wake(c)

Next ==
  \/ \E e \in Executions : Spawning(e) \/ Ending(e)
  \/ \E c \in Callers : \/ \E s \in Scopes : Call(c, s)
                        \/ Aborting(c) \/ Draining(c) \/ Dropped(c)

Spec == Init /\ [][Next]_vars

(* The runtime polls what is ready.  An execution need not end by itself,  *)
(* but an aborted one is dropped at its next poll.                         *)
Fairness ==
  /\ \A e \in Executions : /\ WF_vars(Insert(e) \/ Launch(e) \/ Attach(e))
                           /\ WF_vars(e \in aborted /\ End(e))
                           /\ WF_vars(Remove(e) \/ NotifyWaiters(e))
  /\ \A c \in Callers : WF_vars(Aborting(c) \/ Draining(c))

FairSpec == Spec /\ Fairness

-----------------------------------------------------------------------------
(* Properties.                                                             *)

(* drain() returns only after the executions that ran in its scope have    *)
(* dropped all that their module owned.                                    *)
DrainIsPhysical ==
  \A c \in Callers : pc[c] = "returned" => \A e \in due[c] : task[e] # "running"

(* An execution that is fully registered in a scope under abort has been   *)
(* told, or an abort that has its handle is about to tell it: none slips   *)
(* between the flag, the records and the handles.                          *)
AbortReaches ==
  \A s \in abortFlag, e \in Executions : <<s, e>> \in attached =>
    \/ e \in aborted
    \/ \E c \in Callers : scope[c] = s /\ (pc[c] = "mark" \/ (pc[c] = "send" /\ e \in collected[c]))

(* An abort comes to its end: no wake-up is lost, and every execution in   *)
(* the scope, spawned before or during it, is told.                        *)
AbortReturns ==
  \A c \in Callers : pc[c] = "flag" ~> pc[c] = "returned"
=============================================================================
