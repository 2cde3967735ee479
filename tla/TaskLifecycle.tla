--------------------------- MODULE TaskLifecycle ---------------------------
(***************************************************************************)
(* What AsyncTaskManager promises of a task record, without workers, maps  *)
(* or locks: the life of a TaskStatus and the admission limit.             *)
(***************************************************************************)
EXTENDS Integers, FiniteSets

CONSTANTS Tasks, MaxTasks, MaxRetries

VARIABLES
  phase,     \* "new" before submit, "deleted" after a sweep
  attempts   \* retry_count

lifecycle == <<phase, attempts>>

ActivePhases   == {"pending", "running"}
TerminalPhases == {"completed", "failed", "cancelled"}

Init == /\ phase = [t \in Tasks |-> "new"]
        /\ attempts = [t \in Tasks |-> 0]

Move(t, from, to) ==
  phase[t] \in from /\ phase' = [phase EXCEPT ![t] = to]

(* A task enters only while fewer than max_tasks are active.               *)
Admit(t) ==
  /\ Cardinality({u \in Tasks : phase[u] \in ActivePhases}) < MaxTasks
  /\ Move(t, {"new"}, "pending")
  /\ UNCHANGED attempts

Start(t)  == Move(t, {"pending"}, "running") /\ UNCHANGED attempts

Retry(t)  == /\ attempts[t] < MaxRetries
             /\ Move(t, {"running"}, "pending")
             /\ attempts' = [attempts EXCEPT ![t] = @ + 1]

Finish(t) == /\ \E p \in {"completed", "failed"} : Move(t, {"running"}, p)
             /\ UNCHANGED attempts

Cancel(t) == Move(t, ActivePhases, "cancelled") /\ UNCHANGED attempts

Delete(t) == Move(t, TerminalPhases, "deleted") /\ UNCHANGED attempts

Next == \E t \in Tasks :
  Admit(t) \/ Start(t) \/ Retry(t) \/ Finish(t) \/ Cancel(t) \/ Delete(t)

Spec == Init /\ [][Next]_lifecycle
=============================================================================
