----------------------------- MODULE AsyncTasks -----------------------------
(***************************************************************************)
(* AsyncTaskManager (src/src/async_task.rs): background execution of       *)
(* modules.  Several managers may share one TaskStore; each manager has    *)
(* its own handle map, execution-token map, semaphore, admission lock and  *)
(* cancellation lock.                                                      *)
(*                                                                         *)
(* Every store operation is one atomic step and every await is a point     *)
(* where other threads may run.  The actors are, per task, the submitting  *)
(* caller (`submit`) and the spawned worker (`worker`), and, per manager,  *)
(* the holder of cancellation_lock (`opPc`), an optional shutdown() loop,  *)
(* a cleanup() sweep and the reaper's sweep.                               *)
(***************************************************************************)
EXTENDS Integers, FiniteSets

CONSTANTS
  Tasks,          \* task ids; Uuid::new_v4 never repeats, so each is used once
  Managers,       \* the AsyncTaskManagers that share the store
  Home,           \* Home[t]: the manager t is submitted to
  MaxTasks,       \* max_tasks
  MaxConcurrent,  \* max_concurrent: permits of each manager's semaphore
  MaxRetries,     \* RetryConfig.max_retries
  AnyId,          \* may a caller cancel an id that it read from the store
                  \* (list_tasks, shutdown, another manager), rather than one
                  \* that its own manager's submit() has returned?
  Uses,           \* which of the optional calls and failures happen:
                  \*   "faults"    a TaskStore operation may return Err
                  \*   "drop"      a caller may drop a cancel()/shutdown() future
                  \*   "shutdown", "cleanup", "reaper"   these are in use
  NoTask          \* "no task"

ASSUME ConstantsOK ==
  /\ Home \in [Tasks -> Managers]
  /\ MaxTasks \in Nat /\ MaxConcurrent \in Nat /\ MaxRetries \in Nat
  /\ AnyId \in BOOLEAN
  /\ Uses \subseteq {"faults", "drop", "shutdown", "cleanup", "reaper"}
  /\ NoTask \notin Tasks

ASSUME FiniteTasks == IsFiniteSet(Tasks)

VARIABLES
  status,       \* store: status of each record, "absent" when there is none
  retry,        \* store: retry_count of each record
  submit,       \* where the submit_with_retry call of t is
  admission,    \* admission_lock of each manager: its holder
  handles,      \* keys of `handles`
  tokens,       \* keys of `execution_tokens`
  cancelled,    \* tasks whose execution token is cancelled, while some
                \* holder of the token is left
  worker,       \* program counter of the spawned task
  abort,        \* tasks whose JoinHandle was aborted, until they end
  live,         \* live[t]: attempts of t whose tracked invocation still runs
  opPc,         \* program counter of the holder of cancellation_lock
  opTask,       \* the task it works on
  opMode,       \* which call holds it
  shutTodo,     \* ids that shutdown() has still to process
  shutStop,     \* id whose cancel() returned and whose teardown is due
  cleanupTodo,  \* ids that cleanup() has still to delete
  cleanupCur,   \* id deleted, bookkeeping not yet dropped
  reaperTodo    \* ids that the current reaper sweep has still to delete

store == <<status, retry>>
sub   == <<submit, admission>>
books == <<handles, tokens, cancelled>>
run   == <<worker, abort, live>>
op    == <<opPc, opTask, opMode>>
shut  == <<shutTodo, shutStop>>
sweep == <<cleanupTodo, cleanupCur, reaperTodo>>
vars  == <<store, sub, books, run, op, shut, sweep>>

(* A TaskStore operation may return Err.                                   *)
MayFail == "faults" \in Uses

Active   == {"pending", "running"}                 \* TaskStatus::is_active
Terminal == {"completed", "failed", "cancelled"}   \* TaskStatus::is_terminal
Status   == Active \cup Terminal \cup {"absent"}

ActiveTasks == {t \in Tasks : status[t] \in Active}

(* run_task is still going to read or write the record.                    *)
Working == {"acquire", "fetch", "marking", "call", "invoke", "calling",
            "got_ok", "got_err", "check_ok", "check_err", "save_ok",
            "save_err", "save_retry", "backoff"}
(* run_task has returned, or the task was aborted.                         *)
Quiet == {"drain", "deregister", "untoken", "exited", "dead"}
(* The `finished` flag is set, or the JoinHandle is.                       *)
Finished == {"deregister", "untoken", "exited", "dead"}

(* Mutant: an aborted worker never gives its permit back.                  *)
PermitHoldersLeaked(m) ==
  {t \in Tasks : Home[t] = m /\ worker[t] \in {"fetch", "marking", "call", "invoke", "calling", "dead"}}

(* Tasks of m that hold a semaphore permit: from acquire() to drop(permit),*)
(* which follows executor.call, or to an early return in between.          *)
PermitHolders(m) ==
  {t \in Tasks : Home[t] = m /\ worker[t] \in {"fetch", "marking", "call", "invoke", "calling"}}

OpPcs   == {"idle", "take", "join", "token", "drain", "reget", "save", "stopped"}
OpModes == {"cancel", "shutdown_cancel", "shutdown_stop"}

TypeOK ==
  /\ status \in [Tasks -> Status]
  /\ retry \in [Tasks -> 0..MaxRetries]
  /\ submit \in [Tasks -> {"idle", "checked", "saved", "spawned", "returned", "rejected"}]
  /\ admission \in [Managers -> Tasks \cup {NoTask}]
  /\ handles \subseteq Tasks /\ tokens \subseteq Tasks /\ cancelled \subseteq Tasks
  /\ worker \in [Tasks -> Working \cup Quiet \cup {"none"}]
  /\ abort \subseteq Tasks
  /\ live \in [Tasks -> SUBSET (0..MaxRetries)]
  /\ opPc \in [Managers -> OpPcs]
  /\ opTask \in [Managers -> Tasks \cup {NoTask}]
  /\ opMode \in [Managers -> OpModes]
  /\ shutTodo \in [Managers -> SUBSET Tasks]
  /\ shutStop \in [Managers -> Tasks \cup {NoTask}]
  /\ cleanupTodo \in [Managers -> SUBSET Tasks]
  /\ cleanupCur \in [Managers -> Tasks \cup {NoTask}]
  /\ reaperTodo \in [Managers -> SUBSET Tasks]

Init ==
  /\ status = [t \in Tasks |-> "absent"] /\ retry = [t \in Tasks |-> 0]
  /\ submit = [t \in Tasks |-> "idle"] /\ admission = [m \in Managers |-> NoTask]
  /\ handles = {} /\ tokens = {} /\ cancelled = {}
  /\ worker = [t \in Tasks |-> "none"] /\ abort = {} /\ live = [t \in Tasks |-> {}]
  /\ opPc = [m \in Managers |-> "idle"] /\ opTask = [m \in Managers |-> NoTask]
  /\ opMode = [m \in Managers |-> "cancel"]
  /\ shutTodo = [m \in Managers |-> {}] /\ shutStop = [m \in Managers |-> NoTask]
  /\ cleanupTodo = [m \in Managers |-> {}] /\ cleanupCur = [m \in Managers |-> NoTask]
  /\ reaperTodo = [m \in Managers |-> {}]

-----------------------------------------------------------------------------
(* submit_with_retry.  The capacity check lists the store under the        *)
(* admission lock; the record is saved in a later store operation, still   *)
(* under the lock.                                                         *)

(* Mutant: the admission lock is not kept between the check and the save.  *)
SubmitCheckUnlocked(t) ==
  /\ submit[t] = "idle" /\ admission[Home[t]] = NoTask
  /\ submit' = [submit EXCEPT ![t] = IF Cardinality(ActiveTasks) >= MaxTasks
                                      THEN "rejected" ELSE "checked"]
  /\ UNCHANGED <<store, admission, books, run, op, shut, sweep>>

(* store.list fails, the limit is reached, or the lock is kept.            *)
SubmitCheck(t) ==
  /\ submit[t] = "idle" /\ admission[Home[t]] = NoTask
  /\ \/ /\ MayFail \/ Cardinality(ActiveTasks) >= MaxTasks
        /\ submit' = [submit EXCEPT ![t] = "rejected"] /\ UNCHANGED admission
     \/ /\ Cardinality(ActiveTasks) < MaxTasks
        /\ submit' = [submit EXCEPT ![t] = "checked"]
        /\ admission' = [admission EXCEPT ![Home[t]] = t]
  /\ UNCHANGED <<store, books, run, op, shut, sweep>>

SubmitSave(t) ==
  /\ submit[t] = "checked"
  /\ admission' = [admission EXCEPT ![Home[t]] = NoTask]
  /\ \/ /\ status' = [status EXCEPT ![t] = "pending"]
        /\ submit' = [submit EXCEPT ![t] = "saved"]
     \/ /\ MayFail
        /\ submit' = [submit EXCEPT ![t] = "rejected"]
        /\ UNCHANGED status
  /\ UNCHANGED <<retry, books, run, op, shut, sweep>>

(* The token is registered and the worker spawned; nothing between the two *)
(* depends on another thread.                                              *)
SubmitSpawn(t) ==
  /\ submit[t] = "saved"
  /\ submit' = [submit EXCEPT ![t] = "spawned"]
  /\ tokens' = tokens \cup {t}
  /\ worker' = [worker EXCEPT ![t] = "acquire"]
  /\ UNCHANGED <<store, admission, handles, cancelled, abort, live, op, shut, sweep>>

(* Mutant: the handle is inserted without a look at `finished`.            *)
SubmitRegisterAlways(t) ==
  /\ submit[t] = "spawned"
  /\ submit' = [submit EXCEPT ![t] = "returned"]
  /\ handles' = handles \cup {t}
  /\ UNCHANGED <<store, admission, tokens, cancelled, run, op, shut, sweep>>

(* Under the `handles` lock: a task that has already finished is not       *)
(* registered.                                                             *)
SubmitRegister(t) ==
  /\ submit[t] = "spawned"
  /\ submit' = [submit EXCEPT ![t] = "returned"]
  /\ handles' = IF worker[t] \in Finished THEN handles ELSE handles \cup {t}
  /\ UNCHANGED <<store, admission, tokens, cancelled, run, op, shut, sweep>>

Submit(t) == SubmitCheck(t) \/ SubmitSave(t) \/ SubmitSpawn(t) \/ SubmitRegister(t)

-----------------------------------------------------------------------------
(* run_task, and the bookkeeping that follows it in the spawned task.      *)

Goto(t, pc) == worker' = [worker EXCEPT ![t] = pc]

WorkerAcquire(t) ==
  /\ worker[t] = "acquire"
  /\ Cardinality(PermitHolders(Home[t])) < MaxConcurrent
  /\ Goto(t, "fetch")
  /\ UNCHANGED <<store, sub, books, abort, live, op, shut, sweep>>

(* store.get: a failed read, a missing or a Cancelled record end the task. *)
WorkerFetch(t) ==
  /\ worker[t] = "fetch"
  /\ \/ status[t] \notin {"absent", "cancelled"} /\ Goto(t, "marking")
     \/ status[t] \in {"absent", "cancelled"} /\ Goto(t, "drain")
     \/ MayFail /\ Goto(t, "drain")
  /\ UNCHANGED <<store, sub, books, abort, live, op, shut, sweep>>

(* store.save of the copy read by WorkerFetch, with status Running.        *)
WorkerMarkRunning(t) ==
  /\ worker[t] = "marking"
  /\ \/ status' = [status EXCEPT ![t] = "running"] /\ Goto(t, "call")
     \/ MayFail /\ Goto(t, "drain") /\ UNCHANGED status
  /\ UNCHANGED <<retry, sub, books, abort, live, op, shut, sweep>>

(* executor.call up to BuiltinExecute's cancellation check.  Any earlier   *)
(* step may also fail.                                                     *)
WorkerCall(t) ==
  /\ worker[t] = "call"
  /\ \/ t \notin cancelled /\ Goto(t, "invoke")
     \/ Goto(t, "got_err")
  /\ UNCHANGED <<store, sub, books, abort, live, op, shut, sweep>>

(* The module runs as a tracked invocation when a timeout applies, inside  *)
(* the worker's own future otherwise.                                      *)
WorkerInvoke(t) ==
  /\ worker[t] = "invoke"
  /\ Goto(t, "calling")
  /\ \/ live' = [live EXCEPT ![t] = @ \cup {retry[t]}]
     \/ UNCHANGED live
  /\ UNCHANGED <<store, sub, books, abort, op, shut, sweep>>

(* The invocation ends and executor.call returns its outcome.              *)
WorkerReturn(t) ==
  /\ worker[t] = "calling"
  /\ live' = [live EXCEPT ![t] = @ \ {retry[t]}]
  /\ Goto(t, "got_ok") \/ Goto(t, "got_err")
  /\ UNCHANGED <<store, sub, books, abort, op, shut, sweep>>

(* ModuleTimeout: call returns Err while the tracked invocation lives on.  *)
WorkerTimeout(t) ==
  /\ worker[t] = "calling" /\ retry[t] \in live[t]
  /\ Goto(t, "got_err")
  /\ UNCHANGED <<store, sub, books, abort, live, op, shut, sweep>>

(* Mutant: one retry more than max_retries.                                *)
WorkerRefetchOneMore(t) ==
  /\ worker[t] \in {"got_ok", "got_err"}
  /\ \/ /\ status[t] \notin {"absent", "cancelled"}
        /\ Goto(t, IF worker[t] = "got_ok" THEN "check_ok"
                   ELSE IF retry[t] <= MaxRetries THEN "save_retry" ELSE "check_err")
     \/ status[t] \in {"absent", "cancelled"} /\ Goto(t, "drain")
     \/ MayFail /\ Goto(t, "drain")
  /\ UNCHANGED <<store, sub, books, abort, live, op, shut, sweep>>

(* The second store.get, after drop(permit).                               *)
WorkerRefetch(t) ==
  /\ worker[t] \in {"got_ok", "got_err"}
  /\ \/ /\ status[t] \notin {"absent", "cancelled"}
        /\ Goto(t, IF worker[t] = "got_ok" THEN "check_ok"
                   ELSE IF retry[t] < MaxRetries THEN "save_retry" ELSE "check_err")
     \/ status[t] \in {"absent", "cancelled"} /\ Goto(t, "drain")
     \/ MayFail /\ Goto(t, "drain")
  /\ UNCHANGED <<store, sub, books, abort, live, op, shut, sweep>>

(* Schedule a retry.  A failed save loses the incremented retry_count: the *)
(* loop re-reads the record.                                               *)
WorkerRetry(t) ==
  /\ worker[t] = "save_retry"
  /\ Goto(t, "backoff")
  /\ \/ /\ status' = [status EXCEPT ![t] = "pending"]
        /\ retry' = [retry EXCEPT ![t] = @ + 1]
     \/ MayFail /\ UNCHANGED store
  /\ UNCHANGED <<sub, books, abort, live, op, shut, sweep>>

WorkerWake(t) ==
  /\ worker[t] = "backoff"
  /\ Goto(t, "acquire")
  /\ UNCHANGED <<store, sub, books, abort, live, op, shut, sweep>>

(* save_terminal_if_not_cancelled: the read that only stops on Cancelled;  *)
(* a missing record, or a failed read, does not stop it ..                 *)
WorkerCheck(t) ==
  /\ worker[t] \in {"check_ok", "check_err"}
  /\ \/ status[t] = "cancelled" /\ Goto(t, "drain")
     \/ /\ status[t] # "cancelled" \/ MayFail
        /\ Goto(t, IF worker[t] = "check_ok" THEN "save_ok" ELSE "save_err")
  /\ UNCHANGED <<store, sub, books, abort, live, op, shut, sweep>>

(* .. and the write.                                                       *)
WorkerSaveTerminal(t) ==
  /\ worker[t] \in {"save_ok", "save_err"}
  /\ Goto(t, "drain")
  /\ \/ status' = [status EXCEPT ![t] = IF worker[t] = "save_ok" THEN "completed" ELSE "failed"]
     \/ MayFail /\ UNCHANGED status
  /\ UNCHANGED <<retry, sub, books, abort, live, op, shut, sweep>>

(* execution_token.drain().await, then finished = true.                    *)
WorkerDrain(t) ==
  /\ worker[t] = "drain" /\ live[t] = {}
  /\ Goto(t, "deregister")
  /\ UNCHANGED <<store, sub, books, abort, live, op, shut, sweep>>

WorkerDeregister(t) ==
  /\ worker[t] = "deregister"
  /\ handles' = handles \ {t}
  /\ Goto(t, "untoken")
  /\ UNCHANGED <<store, sub, tokens, cancelled, abort, live, op, shut, sweep>>

(* Mutant: a task that ends leaves its token in execution_tokens.          *)
WorkerUntokenForgotten(t) ==
  /\ worker[t] = "untoken"
  /\ abort' = abort \ {t}
  /\ Goto(t, "exited")
  /\ UNCHANGED <<store, sub, books, live, op, shut, sweep>>

WorkerUntoken(t) ==
  /\ worker[t] = "untoken"
  /\ tokens' = tokens \ {t} /\ cancelled' = cancelled \ {t}
  /\ abort' = abort \ {t}
  /\ Goto(t, "exited")
  /\ UNCHANGED <<store, sub, handles, live, op, shut, sweep>>

(* JoinHandle::abort takes effect at an await.  A tracked invocation is a  *)
(* tokio task of its own and survives its worker.                          *)
WorkerAborted(t) ==
  /\ t \in abort /\ worker[t] \in Working \cup {"drain"}
  /\ Goto(t, "dead") /\ abort' = abort \ {t}
  /\ UNCHANGED <<store, sub, books, live, op, shut, sweep>>

(* A tracked invocation that nobody awaits any more ends: by itself, or    *)
(* because it was aborted.                                                 *)
InvocationEnds(t) ==
  /\ \E a \in live[t] :
       /\ ~(worker[t] = "calling" /\ a = retry[t])
       /\ live' = [live EXCEPT ![t] = @ \ {a}]
  /\ UNCHANGED <<store, sub, books, worker, abort, op, shut, sweep>>

Worker(t) ==
  \/ WorkerFetch(t) \/ WorkerMarkRunning(t) \/ WorkerCall(t)
  \/ WorkerInvoke(t) \/ WorkerReturn(t) \/ WorkerTimeout(t) \/ WorkerRefetch(t)
  \/ WorkerRetry(t) \/ WorkerWake(t) \/ WorkerCheck(t) \/ WorkerSaveTerminal(t)
  \/ WorkerDrain(t) \/ WorkerDeregister(t) \/ WorkerUntoken(t) \/ WorkerAborted(t)

-----------------------------------------------------------------------------
(* cancel() and stop_local_task().  cancellation_lock admits one call per  *)
(* manager; calls that wait for it have no state.                          *)

(* Which task a caller of manager m can name.                              *)
CanName(m, t) == AnyId \/ (Home[t] = m /\ submit[t] = "returned")

OpIdle(m) == opPc[m] = "idle"

OpStart(m, t, pc, mode) ==
  /\ opPc' = [opPc EXCEPT ![m] = pc]
  /\ opTask' = [opTask EXCEPT ![m] = t]
  /\ opMode' = [opMode EXCEPT ![m] = mode]

OpGoto(m, pc) ==
  /\ opPc' = [opPc EXCEPT ![m] = pc]
  /\ UNCHANGED <<opTask, opMode>>

(* cancel() returns.  Inside shutdown(), the explicit teardown is next.    *)
CancelReturns(m) ==
  /\ OpStart(m, NoTask, "idle", "cancel")
  /\ IF opMode[m] = "shutdown_cancel"
     THEN shutStop' = [shutStop EXCEPT ![m] = opTask[m]]
     ELSE UNCHANGED shutStop
  /\ UNCHANGED shutTodo

(* The first store.get; an unknown or terminal task is Ok(false), which    *)
(* changes nothing.                                                        *)
Cancel(m, t) ==
  /\ OpIdle(m) /\ CanName(m, t) /\ status[t] \in Active
  /\ OpStart(m, t, "take", "cancel")
  /\ UNCHANGED <<store, sub, books, run, shut, sweep>>

(* stop_local_task: take the handle out of the map and abort it.           *)
StopTake(m) ==
  /\ opPc[m] = "take"
  /\ LET t == opTask[m] IN
       IF t \in handles /\ Home[t] = m
       THEN /\ handles' = handles \ {t}
            /\ abort' = IF worker[t] \in {"exited", "dead"} THEN abort ELSE abort \cup {t}
            /\ OpGoto(m, "join")
       ELSE /\ OpGoto(m, "token") /\ UNCHANGED <<handles, abort>>
  /\ UNCHANGED <<store, sub, tokens, cancelled, worker, live, shut, sweep>>

(* Mutant: the aborted worker is not awaited.                              *)
StopJoinSkipped(m) ==
  /\ opPc[m] = "join"
  /\ OpGoto(m, "token")
  /\ UNCHANGED <<store, sub, books, run, shut, sweep>>

(* (&mut handle.join).await                                                *)
StopJoin(m) ==
  /\ opPc[m] = "join" /\ worker[opTask[m]] \in {"exited", "dead"}
  /\ OpGoto(m, "token")
  /\ UNCHANGED <<store, sub, books, run, shut, sweep>>

(* After stop_local_task: cancel() reads the record again, shutdown()      *)
(* moves on.                                                               *)
AfterStop(m) == IF opMode[m] = "shutdown_stop" THEN "stopped" ELSE "reget"

(* token.cancel() and the abort request of abort_owned_executions.         *)
StopToken(m) ==
  /\ opPc[m] = "token"
  /\ LET t == opTask[m] IN
       IF t \in tokens /\ Home[t] = m
       THEN cancelled' = cancelled \cup {t} /\ OpGoto(m, "drain")
       ELSE OpGoto(m, AfterStop(m)) /\ UNCHANGED cancelled
  /\ UNCHANGED <<store, sub, handles, tokens, run, shut, sweep>>

(* Mutant: tracked invocations are told to stop and not waited for.        *)
StopDrainSkipped(m) ==
  /\ opPc[m] = "drain"
  /\ tokens' = tokens \ {opTask[m]}
  /\ OpGoto(m, AfterStop(m))
  /\ UNCHANGED <<store, sub, handles, cancelled, run, shut, sweep>>

StopDrain(m) ==
  /\ opPc[m] = "drain" /\ live[opTask[m]] = {}
  /\ tokens' = tokens \ {opTask[m]}
  /\ cancelled' = IF worker[opTask[m]] \in {"exited", "dead"}
                  THEN cancelled \ {opTask[m]} ELSE cancelled
  /\ OpGoto(m, AfterStop(m))
  /\ UNCHANGED <<store, sub, handles, run, shut, sweep>>

(* Mutant: the record is not read again after the worker was stopped.      *)
CancelRegetSkipped(m) ==
  /\ opPc[m] = "reget"
  /\ OpGoto(m, "save")
  /\ UNCHANGED <<store, sub, books, run, shut, sweep>>

CancelReget(m) ==
  /\ opPc[m] = "reget"
  /\ \/ status[opTask[m]] \in Active /\ OpGoto(m, "save") /\ UNCHANGED shut
     \/ status[opTask[m]] \notin Active /\ CancelReturns(m)
     \/ MayFail /\ CancelReturns(m)
  /\ UNCHANGED <<store, sub, books, run, sweep>>

CancelSave(m) ==
  /\ opPc[m] = "save"
  /\ \/ status' = [status EXCEPT ![opTask[m]] = "cancelled"]
     \/ MayFail /\ UNCHANGED status
  /\ CancelReturns(m)
  /\ UNCHANGED <<retry, sub, books, run, sweep>>

(* Mutant: a dropped cancel() takes the JoinHandle with it.                *)
OpDroppedLosesHandle(m) ==
  /\ "drop" \in Uses /\ opPc[m] \notin {"idle", "stopped"}
  /\ OpStart(m, NoTask, "idle", "cancel")
  /\ IF opMode[m] = "cancel" THEN UNCHANGED shut
     ELSE /\ shutTodo' = [shutTodo EXCEPT ![m] = {}]
          /\ shutStop' = [shutStop EXCEPT ![m] = NoTask]
  /\ UNCHANGED <<store, sub, books, run, sweep>>

(* The caller drops the future.  PendingJoin::drop puts an unfinished      *)
(* handle back; a dropped shutdown() does not process its other ids.       *)
OpDropped(m) ==
  /\ "drop" \in Uses /\ opPc[m] \notin {"idle", "stopped"}
  /\ OpStart(m, NoTask, "idle", "cancel")
  /\ handles' = IF opPc[m] = "join" /\ worker[opTask[m]] \notin Finished
                THEN handles \cup {opTask[m]} ELSE handles
  /\ IF opMode[m] = "cancel" THEN UNCHANGED shut
     ELSE /\ shutTodo' = [shutTodo EXCEPT ![m] = {}]
          /\ shutStop' = [shutStop EXCEPT ![m] = NoTask]
  /\ UNCHANGED <<store, sub, tokens, cancelled, run, sweep>>

-----------------------------------------------------------------------------
(* shutdown().  A failed list still leaves the ids of the two local maps.  *)

Shutdown(m) ==
  /\ "shutdown" \in Uses
  /\ shutTodo[m] = {} /\ shutStop[m] = NoTask
  /\ opMode[m] = "cancel"
  /\ AnyId \/ \A t \in Tasks : submit[t] \in {"idle", "rejected", "returned"}
  /\ LET local  == {t \in handles \cup tokens : Home[t] = m}
         listed == {t \in ActiveTasks : CanName(m, t)}
     IN \/ shutTodo' = [shutTodo EXCEPT ![m] = local \cup listed]
        \/ MayFail /\ shutTodo' = [shutTodo EXCEPT ![m] = local]
  /\ UNCHANGED <<store, sub, books, run, op, shutStop, sweep>>

(* shutdown's cancel(id): first store.get of the call.                     *)
ShutdownCancel(m, t) ==
  /\ OpIdle(m) /\ shutStop[m] = NoTask /\ t \in shutTodo[m]
  /\ \/ /\ status[t] \in Active
        /\ OpStart(m, t, "take", "shutdown_cancel")
        /\ UNCHANGED shutStop
     \/ /\ status[t] \notin Active \/ MayFail
        /\ shutStop' = [shutStop EXCEPT ![m] = t]
        /\ UNCHANGED op
  /\ UNCHANGED <<store, sub, books, run, shutTodo, sweep>>

(* stop_local_task under a fresh acquisition of cancellation_lock.         *)
ShutdownStop(m) ==
  /\ OpIdle(m) /\ shutStop[m] # NoTask
  /\ OpStart(m, shutStop[m], "take", "shutdown_stop")
  /\ UNCHANGED <<store, sub, books, run, shut, sweep>>

(* Mutant: the teardown of an id does not take it off the list.            *)
ShutdownNextStays(m) ==
  /\ opPc[m] = "stopped"
  /\ shutStop' = [shutStop EXCEPT ![m] = NoTask]
  /\ OpStart(m, NoTask, "idle", "cancel")
  /\ UNCHANGED <<store, sub, books, run, shutTodo, sweep>>

ShutdownNext(m) ==
  /\ opPc[m] = "stopped"
  /\ shutTodo' = [shutTodo EXCEPT ![m] = @ \ {opTask[m]}]
  /\ shutStop' = [shutStop EXCEPT ![m] = NoTask]
  /\ OpStart(m, NoTask, "idle", "cancel")
  /\ UNCHANGED <<store, sub, books, run, sweep>>

StopSteps(m) ==
  \/ StopTake(m) \/ StopJoin(m) \/ StopToken(m) \/ StopDrain(m)
  \/ CancelReget(m) \/ CancelSave(m)
ShutdownSteps(m) ==
  \/ \E t \in Tasks : ShutdownCancel(m, t)
  \/ ShutdownStop(m) \/ ShutdownNext(m)

-----------------------------------------------------------------------------
(* cleanup() and the reaper's sweep.  Both list terminal records that are  *)
(* old enough (any of them may be) and delete them one by one; cleanup     *)
(* also drops the manager's bookkeeping of each.                           *)

CleanupList(m) ==
  /\ "cleanup" \in Uses
  /\ cleanupTodo[m] = {} /\ cleanupCur[m] = NoTask
  /\ \E S \in SUBSET {t \in Tasks : status[t] \in Terminal} :
       cleanupTodo' = [cleanupTodo EXCEPT ![m] = S]
  /\ UNCHANGED <<store, sub, books, run, op, shut, cleanupCur, reaperTodo>>

CleanupDelete(m, t) ==
  /\ t \in cleanupTodo[m] /\ cleanupCur[m] = NoTask
  /\ \/ /\ status' = [status EXCEPT ![t] = "absent"]
        /\ cleanupTodo' = [cleanupTodo EXCEPT ![m] = @ \ {t}]
        /\ cleanupCur' = [cleanupCur EXCEPT ![m] = t]
     \/ /\ MayFail     \* a failed delete ends the whole sweep
        /\ cleanupTodo' = [cleanupTodo EXCEPT ![m] = {}]
        /\ UNCHANGED <<status, cleanupCur>>
  /\ UNCHANGED <<retry, sub, books, run, op, shut, reaperTodo>>

(* Mutant: the token goes with the record, live invocations or not.        *)
CleanupForgetAll(m) ==
  /\ cleanupCur[m] # NoTask
  /\ LET t == cleanupCur[m] IN
       IF Home[t] = m
       THEN handles' = handles \ {t} /\ tokens' = tokens \ {t}
       ELSE UNCHANGED <<handles, tokens>>
  /\ cleanupCur' = [cleanupCur EXCEPT ![m] = NoTask]
  /\ UNCHANGED <<store, sub, cancelled, run, op, shut, cleanupTodo, reaperTodo>>

CleanupForget(m) ==
  /\ cleanupCur[m] # NoTask
  /\ LET t == cleanupCur[m] IN
       IF Home[t] = m
       THEN /\ handles' = handles \ {t}
            /\ tokens' = IF live[t] = {} THEN tokens \ {t} ELSE tokens
       ELSE UNCHANGED <<handles, tokens>>
  /\ cleanupCur' = [cleanupCur EXCEPT ![m] = NoTask]
  /\ UNCHANGED <<store, sub, cancelled, run, op, shut, cleanupTodo, reaperTodo>>

ReaperList(m) ==
  /\ "reaper" \in Uses
  /\ reaperTodo[m] = {}
  /\ \E S \in SUBSET {t \in Tasks : status[t] \in Terminal} :
       reaperTodo' = [reaperTodo EXCEPT ![m] = S]
  /\ UNCHANGED <<store, sub, books, run, op, shut, cleanupTodo, cleanupCur>>

ReaperDelete(m, t) ==
  /\ t \in reaperTodo[m]
  /\ reaperTodo' = [reaperTodo EXCEPT ![m] = @ \ {t}]
  /\ \/ status' = [status EXCEPT ![t] = "absent"]
     \/ MayFail /\ UNCHANGED status
  /\ UNCHANGED <<retry, sub, books, run, op, shut, cleanupTodo, cleanupCur>>

Sweeps(m) ==
  \/ CleanupForget(m)
  \/ \E t \in Tasks : CleanupDelete(m, t) \/ ReaperDelete(m, t)

-----------------------------------------------------------------------------
Next ==
  \/ \E t \in Tasks : Submit(t) \/ WorkerAcquire(t) \/ Worker(t) \/ InvocationEnds(t)
  \/ \E m \in Managers :
       \/ \E t \in Tasks : Cancel(m, t)
       \/ StopSteps(m) \/ OpDropped(m)
       \/ Shutdown(m) \/ ShutdownSteps(m)
       \/ CleanupList(m) \/ ReaperList(m) \/ Sweeps(m)

Spec == Init /\ [][Next]_vars

(***************************************************************************)
(* Fairness.  Tokio polls every woken task, so each worker step, each step *)
(* of a call in progress and each sweep is weakly fair.  The semaphore and *)
(* the async mutex hand out permits in FIFO order: strong fairness for the *)
(* steps that wait for one.  A tracked invocation is assumed to end.  No   *)
(* fairness is given to callers: nobody has to cancel, shut down or clean. *)
(***************************************************************************)
Fairness ==
  /\ \A t \in Tasks :
       /\ WF_vars(submit[t] # "idle" /\ Submit(t))
       /\ SF_vars(WorkerAcquire(t)) /\ WF_vars(Worker(t)) /\ WF_vars(InvocationEnds(t))
  /\ \A m \in Managers :
       WF_vars(StopSteps(m)) /\ SF_vars(ShutdownSteps(m)) /\ WF_vars(Sweeps(m))

FairSpec == Spec /\ Fairness

-----------------------------------------------------------------------------
(* Properties.                                                             *)

(* A record that has reached Completed, Failed or Cancelled never changes  *)
(* again, except that a sweep may delete it: no late write of a worker     *)
(* (save(running), the retry save, save_terminal_if_not_cancelled) lands   *)
(* on it.                                                                  *)
TerminalIsFinal ==
  [][\A t \in Tasks : status[t] \in Terminal => status'[t] \in {status[t], "absent"}]_vars

(* At most max_tasks records are pending or running: check_capacity_and_save *)
(* is atomic towards other submits and nothing turns a terminal record      *)
(* active again after the check.                                            *)
ActiveWithinLimit == Cardinality(ActiveTasks) <= MaxTasks

(* What stop_local_task promises to cancel() and shutdown(): once it has   *)
(* returned, the worker will not touch the record again and no invocation  *)
(* of the task, from any attempt, is running.                              *)
StopIsPhysical ==
  \A m \in Managers : opPc[m] \in {"reget", "save", "stopped"} =>
    worker[opTask[m]] \in Quiet /\ live[opTask[m]] = {}

(* A record saved as Cancelled belongs to a task that is physically over:  *)
(* cancel() drains the invocations before it writes the status.            *)
CancelledIsStopped ==
  \A t \in Tasks : status[t] = "cancelled" => worker[t] \in Quiet /\ live[t] = {}

(* As long as an invocation of a task runs, also after the record was      *)
(* deleted, its token is in execution_tokens, where shutdown() finds it.   *)
TokenCoversInvocations == \A t \in Tasks : live[t] # {} => t \in tokens

(* "Neither interleaving leaves a stale entry": no handle of a task that   *)
(* has run to its end stays in `handles`, whichever of registration,       *)
(* completion, cancellation and cleanup comes first.                       *)
NoStaleHandle == \A t \in handles : worker[t] # "exited"

(* Every record that submit() saved reaches a terminal status or is gone.  *)
EveryTaskSettles ==
  \A t \in Tasks : submit[t] = "saved" ~> status[t] \in Terminal \cup {"absent"}

(* Once a task is over, both maps forget it: neither grows with the number *)
(* of tasks ever run.                                                      *)
BookkeepingIsReleased ==
  \A t \in Tasks : status[t] \in Terminal ~> (t \notin handles /\ t \notin tokens)

(* cancel() and shutdown() return: neither the join nor the drain waits    *)
(* for ever.                                                               *)
ShutdownReturns == \A m \in Managers : shutTodo[m] # {} ~> shutTodo[m] = {}

(* The record of each task, seen as a TaskLifecycle: a missing record is   *)
(* one not yet saved or one that was deleted.                              *)
Phase(t) ==
  IF status[t] # "absent" THEN status[t]
  ELSE IF submit[t] \in {"idle", "checked", "rejected"} THEN "new" ELSE "deleted"

Lifecycle == INSTANCE TaskLifecycle
               WITH phase <- [t \in Tasks |-> Phase(t)], attempts <- retry

(* The manager implements TaskLifecycle: whatever the interleaving, every  *)
(* change of a record is one of its transitions.                           *)
ImplementsLifecycle == Lifecycle!Spec
=============================================================================
