-------------------------- MODULE AsyncTasksProofs --------------------------
(***************************************************************************)
(* Proofs about AsyncTasks, for any number of tasks and managers, any      *)
(* limits and any choice of `Uses`, under the assumption that a caller     *)
(* cancels only ids that its own manager's submit() has returned (~AnyId). *)
(***************************************************************************)
EXTENDS AsyncTasks, FiniteSetTheorems, TLAPS

(* How far submit_with_retry is decides what can exist for the task.       *)
SubmitInv(t) ==
  /\ submit[t] \in {"idle", "checked", "rejected"} =>
       /\ status[t] = "absent" /\ worker[t] = "none"
       /\ t \notin handles /\ t \notin tokens /\ live[t] = {}
  /\ submit[t] = "saved" =>
       /\ status[t] = "pending" /\ worker[t] = "none"
       /\ t \notin handles /\ live[t] = {}
  /\ submit[t] \in {"spawned", "returned"} => worker[t] # "none"

(* A worker that may still write has an active record and a token.         *)
WorkerInv(t) ==
  /\ worker[t] \in Working => status[t] \in Active /\ t \in tokens
  /\ worker[t] \in {"call", "invoke", "calling", "got_ok", "got_err", "check_ok",
                    "check_err", "save_ok", "save_err", "save_retry"} => status[t] = "running"
  /\ worker[t] = "save_retry" => retry[t] < MaxRetries
  /\ worker[t] \in {"deregister", "untoken", "exited"} => live[t] = {}
  /\ worker[t] \in {"untoken", "exited"} => t \notin handles
  /\ live[t] # {} => t \in tokens
  /\ status[t] = "cancelled" => worker[t] \in Quiet /\ live[t] = {}

(* A registered worker can be reached: its handle is in the map, or the    *)
(* holder of cancellation_lock is joining it.                              *)
HandleInv(t) ==
  submit[t] = "returned" /\ worker[t] \in Working /\ t \notin handles =>
    opPc[Home[t]] = "join" /\ opTask[Home[t]] = t

Known(m, t) == t \in Tasks /\ Home[t] = m /\ submit[t] = "returned"

(* The holder of cancellation_lock.                                        *)
OpInv(m) ==
  /\ opPc[m] # "idle" => Known(m, opTask[m])
  /\ \A t \in shutTodo[m] : Known(m, t)
  /\ shutStop[m] # NoTask => Known(m, shutStop[m])
  /\ opPc[m] \in {"token", "drain", "reget", "save", "stopped"} => worker[opTask[m]] \in Quiet
  /\ opPc[m] \in {"reget", "save", "stopped"} => live[opTask[m]] = {}
  /\ opPc[m] = "save" => status[opTask[m]] \in Active

(* What a sweep has listed or deleted is over.                             *)
Swept(t) == status[t] \notin Active /\ submit[t] \in {"spawned", "returned"}

SweepInv(m) ==
  /\ \A t \in cleanupTodo[m] \cup reaperTodo[m] : Swept(t)
  /\ cleanupCur[m] # NoTask => Swept(cleanupCur[m])

IInv ==
  /\ TypeOK
  /\ \A t \in Tasks : SubmitInv(t)
  /\ \A t \in Tasks : WorkerInv(t)
  /\ \A t \in Tasks : HandleInv(t)
  /\ \A m \in Managers : OpInv(m)
  /\ \A m \in Managers : SweepInv(m)

USE ConstantsOK DEF Status, Active, Terminal, Working, Quiet, Finished, OpPcs, OpModes,
    store, sub, books, run, op, shut, sweep, Goto, OpGoto, OpStart, CancelReturns, AfterStop,
    Known, Swept, OpIdle

(* The initial state satisfies the invariant.                              *)
LEMMA InitIInv == Init => IInv
  BY DEF Init, IInv, TypeOK, SubmitInv, WorkerInv, HandleInv, OpInv, SweepInv

(* The steps of submit_with_retry preserve the invariant. *)
LEMMA SubmitPreserves ==
  ASSUME IInv, NEW t \in Tasks, Submit(t)
  PROVE  IInv'
  <1>1. ASSUME SubmitCheck(t) PROVE IInv'
    <2>0. /\ submit[t] = "idle" /\ UNCHANGED <<store, books, run, op, shut, sweep>>
          /\ \E s \in {"rejected", "checked"} : submit' = [submit EXCEPT ![t] = s]
      BY <1>1 DEF SubmitCheck
    <2>1. TypeOK'
      BY <1>1, SMTT(40) DEF IInv, TypeOK, SubmitCheck
    <2>2. (\A u \in Tasks : SubmitInv(u))'
      BY <1>1 DEF IInv, TypeOK, SubmitInv, SubmitCheck
    <2>3. (\A u \in Tasks : WorkerInv(u))'
      BY <2>0 DEF IInv, TypeOK, SubmitInv, WorkerInv, OpInv, SweepInv
    <2>4. (\A u \in Tasks : HandleInv(u))'
      BY <2>0 DEF IInv, TypeOK, SubmitInv, WorkerInv, HandleInv, OpInv, SweepInv
    <2>5. (\A n \in Managers : OpInv(n))'
      BY <2>0 DEF IInv, TypeOK, SubmitInv, WorkerInv, HandleInv, OpInv
    <2>6. (\A n \in Managers : SweepInv(n))'
      BY <2>0 DEF IInv, TypeOK, SubmitInv, WorkerInv, OpInv, SweepInv
    <2>7. QED BY <2>1, <2>2, <2>3, <2>4, <2>5, <2>6 DEF IInv
  <1>2. ASSUME SubmitSave(t) PROVE IInv'
    <2>1. TypeOK'
      <3>1. TypeOK
        BY DEF IInv
      <3>2. UNCHANGED <<retry, books, run, op, shut, sweep>>
        BY <1>2 DEF SubmitSave
      <3>3. status' \in [Tasks -> Status]
        BY <1>2, <3>1 DEF TypeOK, SubmitSave
      <3>4. submit' \in [Tasks -> {"idle", "checked", "rejected", "saved", "spawned", "returned"}]
        BY <1>2, <3>1 DEF TypeOK, SubmitSave
      <3>5. admission' \in [Managers -> Tasks \cup {NoTask}]
        BY <1>2, <3>1 DEF TypeOK, SubmitSave
      <3>6. QED
        BY <3>1, <3>2, <3>3, <3>4, <3>5 DEF TypeOK
    <2>2. (\A u \in Tasks : SubmitInv(u))'
      BY <1>2 DEF IInv, TypeOK, SubmitInv, SubmitSave
    <2>3. (\A u \in Tasks : WorkerInv(u))'
      BY <1>2 DEF IInv, TypeOK, SubmitInv, WorkerInv, OpInv, SweepInv, SubmitSave
    <2>4. (\A u \in Tasks : HandleInv(u))'
      BY <1>2 DEF IInv, TypeOK, SubmitInv, WorkerInv, HandleInv, OpInv, SweepInv, SubmitSave
    <2>5. (\A n \in Managers : OpInv(n))'
      BY <1>2 DEF IInv, TypeOK, SubmitInv, WorkerInv, HandleInv, OpInv, SubmitSave
    <2>6. (\A n \in Managers : SweepInv(n))'
      <3>1. UNCHANGED sweep /\ \A u \in Tasks \ {t} : status'[u] = status[u] /\ submit'[u] = submit[u]
        BY <1>2 DEF SubmitSave, IInv, TypeOK
      <3>2. ~Swept(t)
        BY <1>2 DEF SubmitSave
      <3>3. QED
        BY <3>1, <3>2 DEF IInv, TypeOK, SweepInv
    <2>7. QED BY <2>1, <2>2, <2>3, <2>4, <2>5, <2>6 DEF IInv
  <1>3. ASSUME SubmitSpawn(t) PROVE IInv'
    <2>1. TypeOK'
      BY <1>3 DEF IInv, TypeOK, SubmitSpawn
    <2>2. (\A u \in Tasks : SubmitInv(u))'
      BY <1>3 DEF IInv, TypeOK, SubmitInv, SubmitSpawn
    <2>3. (\A u \in Tasks : WorkerInv(u))'
      BY <1>3 DEF IInv, TypeOK, SubmitInv, WorkerInv, OpInv, SweepInv, SubmitSpawn
    <2>4. (\A u \in Tasks : HandleInv(u))'
      BY <1>3 DEF IInv, TypeOK, SubmitInv, WorkerInv, HandleInv, OpInv, SweepInv, SubmitSpawn
    <2>5. (\A n \in Managers : OpInv(n))'
      BY <1>3 DEF IInv, TypeOK, SubmitInv, WorkerInv, HandleInv, OpInv, SubmitSpawn
    <2>6. (\A n \in Managers : SweepInv(n))'
      BY <1>3 DEF IInv, TypeOK, SubmitInv, WorkerInv, OpInv, SweepInv, SubmitSpawn
    <2>7. QED BY <2>1, <2>2, <2>3, <2>4, <2>5, <2>6 DEF IInv
  <1>4. ASSUME SubmitRegister(t) PROVE IInv'
    <2>1. TypeOK'
      BY <1>4 DEF IInv, TypeOK, SubmitRegister
    <2>2. (\A u \in Tasks : SubmitInv(u))'
      BY <1>4 DEF IInv, TypeOK, SubmitInv, SubmitRegister
    <2>3. (\A u \in Tasks : WorkerInv(u))'
      BY <1>4 DEF IInv, TypeOK, SubmitInv, WorkerInv, OpInv, SweepInv, SubmitRegister
    <2>4. (\A u \in Tasks : HandleInv(u))'
      BY <1>4 DEF IInv, TypeOK, SubmitInv, WorkerInv, HandleInv, OpInv, SweepInv, SubmitRegister
    <2>5. (\A n \in Managers : OpInv(n))'
      BY <1>4 DEF IInv, TypeOK, SubmitInv, WorkerInv, HandleInv, OpInv, SubmitRegister
    <2>6. (\A n \in Managers : SweepInv(n))'
      BY <1>4 DEF IInv, TypeOK, SubmitInv, WorkerInv, OpInv, SweepInv, SubmitRegister
    <2>7. QED BY <2>1, <2>2, <2>3, <2>4, <2>5, <2>6 DEF IInv
  <1>5. QED
    BY <1>1, <1>2, <1>3, <1>4 DEF Submit

(* The steps of the spawned task preserve it. *)
LEMMA WorkerPreserves ==
  ASSUME IInv, NEW t \in Tasks, WorkerAcquire(t) \/ Worker(t) \/ InvocationEnds(t)
  PROVE  IInv'
  <1>1. ASSUME WorkerAcquire(t) PROVE IInv'
    <2>1. TypeOK'
      BY <1>1 DEF IInv, TypeOK, WorkerAcquire
    <2>2. (\A u \in Tasks : SubmitInv(u))'
      BY <1>1 DEF IInv, TypeOK, SubmitInv, WorkerAcquire
    <2>3. (\A u \in Tasks : WorkerInv(u))'
      BY <1>1 DEF IInv, TypeOK, SubmitInv, WorkerInv, OpInv, SweepInv, WorkerAcquire
    <2>4. (\A u \in Tasks : HandleInv(u))'
      BY <1>1 DEF IInv, TypeOK, SubmitInv, WorkerInv, HandleInv, OpInv, SweepInv, WorkerAcquire
    <2>5. (\A n \in Managers : OpInv(n))'
      BY <1>1 DEF IInv, TypeOK, SubmitInv, WorkerInv, HandleInv, OpInv, WorkerAcquire
    <2>6. (\A n \in Managers : SweepInv(n))'
      BY <1>1 DEF IInv, TypeOK, SubmitInv, WorkerInv, OpInv, SweepInv, WorkerAcquire
    <2>7. QED BY <2>1, <2>2, <2>3, <2>4, <2>5, <2>6 DEF IInv
  <1>2. ASSUME WorkerFetch(t) PROVE IInv'
    <2>1. TypeOK'
      BY <1>2 DEF IInv, TypeOK, WorkerFetch
    <2>2. (\A u \in Tasks : SubmitInv(u))'
      BY <1>2 DEF IInv, TypeOK, SubmitInv, WorkerFetch
    <2>3. (\A u \in Tasks : WorkerInv(u))'
      BY <1>2 DEF IInv, TypeOK, SubmitInv, WorkerInv, OpInv, SweepInv, WorkerFetch
    <2>4. (\A u \in Tasks : HandleInv(u))'
      BY <1>2 DEF IInv, TypeOK, SubmitInv, WorkerInv, HandleInv, OpInv, SweepInv, WorkerFetch
    <2>5. (\A n \in Managers : OpInv(n))'
      <3>1. /\ UNCHANGED <<store, sub, books, live, op, shut>>
            /\ \A u \in Tasks \ {t} : worker'[u] = worker[u]
            /\ worker[t] \notin Quiet
        BY <1>2 DEF WorkerFetch, IInv, TypeOK
      <3>2. QED
        BY <3>1 DEF IInv, TypeOK, OpInv
    <2>6. (\A n \in Managers : SweepInv(n))'
      BY <1>2 DEF IInv, TypeOK, SubmitInv, WorkerInv, OpInv, SweepInv, WorkerFetch
    <2>7. QED BY <2>1, <2>2, <2>3, <2>4, <2>5, <2>6 DEF IInv
  <1>3. ASSUME WorkerMarkRunning(t) PROVE IInv'
    <2>1. TypeOK'
      <3>1. TypeOK
        BY DEF IInv
      <3>2. UNCHANGED <<retry, sub, books, abort, live, op, shut, sweep>>
        BY <1>3 DEF WorkerMarkRunning
      <3>3. status' \in [Tasks -> Status]
        BY <1>3, <3>1 DEF TypeOK, WorkerMarkRunning
      <3>4. \E pc \in {"call", "drain"} : worker' = [worker EXCEPT ![t] = pc]
        BY <1>3 DEF WorkerMarkRunning
      <3>5. QED
        BY <3>1, <3>2, <3>3, <3>4 DEF TypeOK
    <2>2. (\A u \in Tasks : SubmitInv(u))'
      BY <1>3 DEF IInv, TypeOK, SubmitInv, WorkerMarkRunning
    <2>3. (\A u \in Tasks : WorkerInv(u))'
      BY <1>3 DEF IInv, TypeOK, SubmitInv, WorkerInv, OpInv, SweepInv, WorkerMarkRunning
    <2>4. (\A u \in Tasks : HandleInv(u))'
      BY <1>3 DEF IInv, TypeOK, SubmitInv, WorkerInv, HandleInv, OpInv, SweepInv, WorkerMarkRunning
    <2>5. (\A n \in Managers : OpInv(n))'
      BY <1>3, SMTT(40) DEF IInv, TypeOK, SubmitInv, WorkerInv, HandleInv, OpInv, WorkerMarkRunning
    <2>6. (\A n \in Managers : SweepInv(n))'
      BY <1>3 DEF IInv, TypeOK, SubmitInv, WorkerInv, OpInv, SweepInv, WorkerMarkRunning
    <2>7. QED BY <2>1, <2>2, <2>3, <2>4, <2>5, <2>6 DEF IInv
  <1>4. ASSUME WorkerCall(t) PROVE IInv'
    <2>1. TypeOK'
      <3>1. TypeOK
        BY DEF IInv
      <3>2. UNCHANGED <<store, sub, books, abort, live, op, shut, sweep>>
        BY <1>4 DEF WorkerCall
      <3>3. worker' \in [Tasks -> Working \cup Quiet \cup {"none"}]
        BY <1>4, <3>1 DEF TypeOK, WorkerCall
      <3>4. QED
        BY <3>1, <3>2, <3>3 DEF TypeOK
    <2>2. (\A u \in Tasks : SubmitInv(u))'
      BY <1>4 DEF IInv, TypeOK, SubmitInv, WorkerCall
    <2>3. (\A u \in Tasks : WorkerInv(u))'
      BY <1>4 DEF IInv, TypeOK, SubmitInv, WorkerInv, OpInv, SweepInv, WorkerCall
    <2>4. (\A u \in Tasks : HandleInv(u))'
      BY <1>4 DEF IInv, TypeOK, SubmitInv, WorkerInv, HandleInv, OpInv, SweepInv, WorkerCall
    <2>5. (\A n \in Managers : OpInv(n))'
      BY <1>4, SMTT(40) DEF IInv, TypeOK, SubmitInv, WorkerInv, HandleInv, OpInv, WorkerCall
    <2>6. (\A n \in Managers : SweepInv(n))'
      BY <1>4 DEF IInv, TypeOK, SubmitInv, WorkerInv, OpInv, SweepInv, WorkerCall
    <2>7. QED BY <2>1, <2>2, <2>3, <2>4, <2>5, <2>6 DEF IInv
  <1>5. ASSUME WorkerInvoke(t) PROVE IInv'
    <2>1. TypeOK'
      BY <1>5 DEF IInv, TypeOK, WorkerInvoke
    <2>2. (\A u \in Tasks : SubmitInv(u))'
      BY <1>5 DEF IInv, TypeOK, SubmitInv, WorkerInvoke
    <2>3. (\A u \in Tasks : WorkerInv(u))'
      BY <1>5 DEF IInv, TypeOK, SubmitInv, WorkerInv, OpInv, SweepInv, WorkerInvoke
    <2>4. (\A u \in Tasks : HandleInv(u))'
      BY <1>5 DEF IInv, TypeOK, SubmitInv, WorkerInv, HandleInv, OpInv, SweepInv, WorkerInvoke
    <2>5. (\A n \in Managers : OpInv(n))'
      BY <1>5 DEF IInv, TypeOK, SubmitInv, WorkerInv, HandleInv, OpInv, WorkerInvoke
    <2>6. (\A n \in Managers : SweepInv(n))'
      BY <1>5 DEF IInv, TypeOK, SubmitInv, WorkerInv, OpInv, SweepInv, WorkerInvoke
    <2>7. QED BY <2>1, <2>2, <2>3, <2>4, <2>5, <2>6 DEF IInv
  <1>6. ASSUME WorkerReturn(t) PROVE IInv'
    <2>1. TypeOK'
      BY <1>6 DEF IInv, TypeOK, WorkerReturn
    <2>2. (\A u \in Tasks : SubmitInv(u))'
      BY <1>6 DEF IInv, TypeOK, SubmitInv, WorkerReturn
    <2>3. (\A u \in Tasks : WorkerInv(u))'
      BY <1>6 DEF IInv, TypeOK, SubmitInv, WorkerInv, OpInv, SweepInv, WorkerReturn
    <2>4. (\A u \in Tasks : HandleInv(u))'
      BY <1>6 DEF IInv, TypeOK, SubmitInv, WorkerInv, HandleInv, OpInv, SweepInv, WorkerReturn
    <2>5. (\A n \in Managers : OpInv(n))'
      BY <1>6 DEF IInv, TypeOK, SubmitInv, WorkerInv, HandleInv, OpInv, WorkerReturn
    <2>6. (\A n \in Managers : SweepInv(n))'
      BY <1>6 DEF IInv, TypeOK, SubmitInv, WorkerInv, OpInv, SweepInv, WorkerReturn
    <2>7. QED BY <2>1, <2>2, <2>3, <2>4, <2>5, <2>6 DEF IInv
  <1>7. ASSUME WorkerTimeout(t) PROVE IInv'
    <2>1. TypeOK'
      BY <1>7 DEF IInv, TypeOK, WorkerTimeout
    <2>2. (\A u \in Tasks : SubmitInv(u))'
      BY <1>7 DEF IInv, TypeOK, SubmitInv, WorkerTimeout
    <2>3. (\A u \in Tasks : WorkerInv(u))'
      BY <1>7 DEF IInv, TypeOK, SubmitInv, WorkerInv, OpInv, SweepInv, WorkerTimeout
    <2>4. (\A u \in Tasks : HandleInv(u))'
      BY <1>7 DEF IInv, TypeOK, SubmitInv, WorkerInv, HandleInv, OpInv, SweepInv, WorkerTimeout
    <2>5. (\A n \in Managers : OpInv(n))'
      BY <1>7 DEF IInv, TypeOK, SubmitInv, WorkerInv, HandleInv, OpInv, WorkerTimeout
    <2>6. (\A n \in Managers : SweepInv(n))'
      BY <1>7 DEF IInv, TypeOK, SubmitInv, WorkerInv, OpInv, SweepInv, WorkerTimeout
    <2>7. QED BY <2>1, <2>2, <2>3, <2>4, <2>5, <2>6 DEF IInv
  <1>8. ASSUME WorkerRefetch(t) PROVE IInv'
    <2>1. TypeOK'
      BY <1>8 DEF IInv, TypeOK, WorkerRefetch
    <2>2. (\A u \in Tasks : SubmitInv(u))'
      BY <1>8 DEF IInv, TypeOK, SubmitInv, WorkerRefetch
    <2>3. (\A u \in Tasks : WorkerInv(u))'
      BY <1>8 DEF IInv, TypeOK, SubmitInv, WorkerInv, OpInv, SweepInv, WorkerRefetch
    <2>4. (\A u \in Tasks : HandleInv(u))'
      BY <1>8 DEF IInv, TypeOK, SubmitInv, WorkerInv, HandleInv, OpInv, SweepInv, WorkerRefetch
    <2>5. (\A n \in Managers : OpInv(n))'
      BY <1>8 DEF IInv, TypeOK, SubmitInv, WorkerInv, HandleInv, OpInv, WorkerRefetch
    <2>6. (\A n \in Managers : SweepInv(n))'
      BY <1>8 DEF IInv, TypeOK, SubmitInv, WorkerInv, OpInv, SweepInv, WorkerRefetch
    <2>7. QED BY <2>1, <2>2, <2>3, <2>4, <2>5, <2>6 DEF IInv
  <1>9. ASSUME WorkerRetry(t) PROVE IInv'
    <2>1. TypeOK'
      BY <1>9 DEF IInv, TypeOK, WorkerInv, WorkerRetry
    <2>2. (\A u \in Tasks : SubmitInv(u))'
      BY <1>9 DEF IInv, TypeOK, SubmitInv, WorkerRetry
    <2>3. (\A u \in Tasks : WorkerInv(u))'
      BY <1>9 DEF IInv, TypeOK, SubmitInv, WorkerInv, OpInv, SweepInv, WorkerRetry
    <2>4. (\A u \in Tasks : HandleInv(u))'
      BY <1>9 DEF IInv, TypeOK, SubmitInv, WorkerInv, HandleInv, OpInv, SweepInv, WorkerRetry
    <2>5. (\A n \in Managers : OpInv(n))'
      BY <1>9 DEF IInv, TypeOK, SubmitInv, WorkerInv, HandleInv, OpInv, WorkerRetry
    <2>6. (\A n \in Managers : SweepInv(n))'
      BY <1>9 DEF IInv, TypeOK, SubmitInv, WorkerInv, OpInv, SweepInv, WorkerRetry
    <2>7. QED BY <2>1, <2>2, <2>3, <2>4, <2>5, <2>6 DEF IInv
  <1>10. ASSUME WorkerWake(t) PROVE IInv'
    <2>1. TypeOK'
      BY <1>10 DEF IInv, TypeOK, WorkerWake
    <2>2. (\A u \in Tasks : SubmitInv(u))'
      BY <1>10 DEF IInv, TypeOK, SubmitInv, WorkerWake
    <2>3. (\A u \in Tasks : WorkerInv(u))'
      BY <1>10 DEF IInv, TypeOK, SubmitInv, WorkerInv, OpInv, SweepInv, WorkerWake
    <2>4. (\A u \in Tasks : HandleInv(u))'
      BY <1>10 DEF IInv, TypeOK, SubmitInv, WorkerInv, HandleInv, OpInv, SweepInv, WorkerWake
    <2>5. (\A n \in Managers : OpInv(n))'
      BY <1>10 DEF IInv, TypeOK, SubmitInv, WorkerInv, HandleInv, OpInv, WorkerWake
    <2>6. (\A n \in Managers : SweepInv(n))'
      BY <1>10 DEF IInv, TypeOK, SubmitInv, WorkerInv, OpInv, SweepInv, WorkerWake
    <2>7. QED BY <2>1, <2>2, <2>3, <2>4, <2>5, <2>6 DEF IInv
  <1>11. ASSUME WorkerCheck(t) PROVE IInv'
    <2>1. TypeOK'
      BY <1>11 DEF IInv, TypeOK, WorkerCheck
    <2>2. (\A u \in Tasks : SubmitInv(u))'
      BY <1>11 DEF IInv, TypeOK, SubmitInv, WorkerCheck
    <2>3. (\A u \in Tasks : WorkerInv(u))'
      BY <1>11 DEF IInv, TypeOK, SubmitInv, WorkerInv, OpInv, SweepInv, WorkerCheck
    <2>4. (\A u \in Tasks : HandleInv(u))'
      BY <1>11 DEF IInv, TypeOK, SubmitInv, WorkerInv, HandleInv, OpInv, SweepInv, WorkerCheck
    <2>5. (\A n \in Managers : OpInv(n))'
      <3>1. /\ worker[t] \notin Quiet
            /\ \A u \in Tasks : u # t => worker'[u] = worker[u]
            /\ UNCHANGED <<status, submit, live, op, shut>>
        BY <1>11 DEF IInv, TypeOK, WorkerCheck
      <3>2. QED BY <3>1 DEF IInv, TypeOK, OpInv
    <2>6. (\A n \in Managers : SweepInv(n))'
      BY <1>11 DEF IInv, TypeOK, SubmitInv, WorkerInv, OpInv, SweepInv, WorkerCheck
    <2>7. QED BY <2>1, <2>2, <2>3, <2>4, <2>5, <2>6 DEF IInv
  <1>12. ASSUME WorkerSaveTerminal(t) PROVE IInv'
    <2>1. TypeOK'
      <3>1. TypeOK
        BY DEF IInv
      <3>2. UNCHANGED <<retry, sub, books, abort, live, op, shut, sweep>>
        BY <1>12 DEF WorkerSaveTerminal
      <3>3. worker' \in [Tasks -> Working \cup Quiet \cup {"none"}]
        BY <1>12, <3>1 DEF TypeOK, WorkerSaveTerminal
      <3>4. status' \in [Tasks -> Status]
        BY <1>12, <3>1 DEF TypeOK, WorkerSaveTerminal
      <3>5. QED
        BY <3>1, <3>2, <3>3, <3>4 DEF TypeOK
    <2>2. (\A u \in Tasks : SubmitInv(u))'
      BY <1>12 DEF IInv, TypeOK, SubmitInv, WorkerSaveTerminal
    <2>3. (\A u \in Tasks : WorkerInv(u))'
      BY <1>12 DEF IInv, TypeOK, SubmitInv, WorkerInv, OpInv, SweepInv, WorkerSaveTerminal
    <2>4. (\A u \in Tasks : HandleInv(u))'
      BY <1>12 DEF IInv, TypeOK, SubmitInv, WorkerInv, HandleInv, OpInv, SweepInv, WorkerSaveTerminal
    <2>5. (\A n \in Managers : OpInv(n))'
      BY <1>12 DEF IInv, TypeOK, SubmitInv, WorkerInv, HandleInv, OpInv, WorkerSaveTerminal
    <2>6. (\A n \in Managers : SweepInv(n))'
      BY <1>12 DEF IInv, TypeOK, SubmitInv, WorkerInv, OpInv, SweepInv, WorkerSaveTerminal
    <2>7. QED BY <2>1, <2>2, <2>3, <2>4, <2>5, <2>6 DEF IInv
  <1>13. ASSUME WorkerDrain(t) PROVE IInv'
    <2>1. TypeOK'
      BY <1>13 DEF IInv, TypeOK, WorkerDrain
    <2>2. (\A u \in Tasks : SubmitInv(u))'
      BY <1>13 DEF IInv, TypeOK, SubmitInv, WorkerDrain
    <2>3. (\A u \in Tasks : WorkerInv(u))'
      BY <1>13 DEF IInv, TypeOK, SubmitInv, WorkerInv, OpInv, SweepInv, WorkerDrain
    <2>4. (\A u \in Tasks : HandleInv(u))'
      BY <1>13 DEF IInv, TypeOK, SubmitInv, WorkerInv, HandleInv, OpInv, SweepInv, WorkerDrain
    <2>5. (\A n \in Managers : OpInv(n))'
      BY <1>13 DEF IInv, TypeOK, SubmitInv, WorkerInv, HandleInv, OpInv, WorkerDrain
    <2>6. (\A n \in Managers : SweepInv(n))'
      BY <1>13 DEF IInv, TypeOK, SubmitInv, WorkerInv, OpInv, SweepInv, WorkerDrain
    <2>7. QED BY <2>1, <2>2, <2>3, <2>4, <2>5, <2>6 DEF IInv
  <1>14. ASSUME WorkerDeregister(t) PROVE IInv'
    <2>1. TypeOK'
      BY <1>14 DEF IInv, TypeOK, WorkerDeregister
    <2>2. (\A u \in Tasks : SubmitInv(u))'
      BY <1>14 DEF IInv, TypeOK, SubmitInv, WorkerDeregister
    <2>3. (\A u \in Tasks : WorkerInv(u))'
      BY <1>14 DEF IInv, TypeOK, SubmitInv, WorkerInv, OpInv, SweepInv, WorkerDeregister
    <2>4. (\A u \in Tasks : HandleInv(u))'
      BY <1>14 DEF IInv, TypeOK, SubmitInv, WorkerInv, HandleInv, OpInv, SweepInv, WorkerDeregister
    <2>5. (\A n \in Managers : OpInv(n))'
      BY <1>14 DEF IInv, TypeOK, SubmitInv, WorkerInv, HandleInv, OpInv, WorkerDeregister
    <2>6. (\A n \in Managers : SweepInv(n))'
      BY <1>14 DEF IInv, TypeOK, SubmitInv, WorkerInv, OpInv, SweepInv, WorkerDeregister
    <2>7. QED BY <2>1, <2>2, <2>3, <2>4, <2>5, <2>6 DEF IInv
  <1>15. ASSUME WorkerUntoken(t) PROVE IInv'
    <2>1. TypeOK'
      BY <1>15 DEF IInv, TypeOK, WorkerUntoken
    <2>2. (\A u \in Tasks : SubmitInv(u))'
      BY <1>15 DEF IInv, TypeOK, SubmitInv, WorkerUntoken
    <2>3. (\A u \in Tasks : WorkerInv(u))'
      BY <1>15 DEF IInv, TypeOK, SubmitInv, WorkerInv, OpInv, SweepInv, WorkerUntoken
    <2>4. (\A u \in Tasks : HandleInv(u))'
      BY <1>15 DEF IInv, TypeOK, SubmitInv, WorkerInv, HandleInv, OpInv, SweepInv, WorkerUntoken
    <2>5. (\A n \in Managers : OpInv(n))'
      BY <1>15 DEF IInv, TypeOK, SubmitInv, WorkerInv, HandleInv, OpInv, WorkerUntoken
    <2>6. (\A n \in Managers : SweepInv(n))'
      BY <1>15 DEF IInv, TypeOK, SubmitInv, WorkerInv, OpInv, SweepInv, WorkerUntoken
    <2>7. QED BY <2>1, <2>2, <2>3, <2>4, <2>5, <2>6 DEF IInv
  <1>16. ASSUME WorkerAborted(t) PROVE IInv'
    <2>1. TypeOK'
      BY <1>16 DEF IInv, TypeOK, WorkerAborted
    <2>2. (\A u \in Tasks : SubmitInv(u))'
      BY <1>16 DEF IInv, TypeOK, SubmitInv, WorkerAborted
    <2>3. (\A u \in Tasks : WorkerInv(u))'
      BY <1>16 DEF IInv, TypeOK, SubmitInv, WorkerInv, OpInv, SweepInv, WorkerAborted
    <2>4. (\A u \in Tasks : HandleInv(u))'
      BY <1>16 DEF IInv, TypeOK, SubmitInv, WorkerInv, HandleInv, OpInv, SweepInv, WorkerAborted
    <2>5. (\A n \in Managers : OpInv(n))'
      BY <1>16 DEF IInv, TypeOK, SubmitInv, WorkerInv, HandleInv, OpInv, WorkerAborted
    <2>6. (\A n \in Managers : SweepInv(n))'
      BY <1>16 DEF IInv, TypeOK, SubmitInv, WorkerInv, OpInv, SweepInv, WorkerAborted
    <2>7. QED BY <2>1, <2>2, <2>3, <2>4, <2>5, <2>6 DEF IInv
  <1>17. ASSUME InvocationEnds(t) PROVE IInv'
    <2>1. TypeOK'
      BY <1>17 DEF IInv, TypeOK, InvocationEnds
    <2>2. (\A u \in Tasks : SubmitInv(u))'
      BY <1>17 DEF IInv, TypeOK, SubmitInv, InvocationEnds
    <2>3. (\A u \in Tasks : WorkerInv(u))'
      BY <1>17 DEF IInv, TypeOK, SubmitInv, WorkerInv, OpInv, SweepInv, InvocationEnds
    <2>4. (\A u \in Tasks : HandleInv(u))'
      BY <1>17 DEF IInv, TypeOK, SubmitInv, WorkerInv, HandleInv, OpInv, SweepInv, InvocationEnds
    <2>5. (\A n \in Managers : OpInv(n))'
      BY <1>17 DEF IInv, TypeOK, SubmitInv, WorkerInv, HandleInv, OpInv, InvocationEnds
    <2>6. (\A n \in Managers : SweepInv(n))'
      BY <1>17 DEF IInv, TypeOK, SubmitInv, WorkerInv, OpInv, SweepInv, InvocationEnds
    <2>7. QED BY <2>1, <2>2, <2>3, <2>4, <2>5, <2>6 DEF IInv
  <1>18. QED
    BY <1>1, <1>2, <1>3, <1>4, <1>5, <1>6, <1>7, <1>8, <1>9, <1>10, <1>11, <1>12, <1>13, <1>14, <1>15, <1>16, <1>17 DEF Worker

(* So do the steps of cancel() and stop_local_task, and dropping them midway. *)
LEMMA StopPreserves ==
  ASSUME IInv, ~AnyId, NEW m \in Managers, (\E t \in Tasks : Cancel(m, t)) \/ StopSteps(m) \/ OpDropped(m)
  PROVE  IInv'
  <1>1. ASSUME NEW t \in Tasks, Cancel(m, t) PROVE IInv'
    <2>1. TypeOK'
      BY <1>1 DEF IInv, TypeOK, Cancel, CanName, ActiveTasks
    <2>2. (\A u \in Tasks : SubmitInv(u))'
      BY <1>1 DEF IInv, TypeOK, SubmitInv, Cancel, CanName, ActiveTasks
    <2>3. (\A u \in Tasks : WorkerInv(u))'
      BY <1>1 DEF IInv, TypeOK, SubmitInv, WorkerInv, OpInv, SweepInv, Cancel, CanName, ActiveTasks
    <2>4. (\A u \in Tasks : HandleInv(u))'
      BY <1>1 DEF IInv, TypeOK, SubmitInv, WorkerInv, HandleInv, OpInv, SweepInv, Cancel, CanName, ActiveTasks
    <2>5. (\A n \in Managers : OpInv(n))'
      BY <1>1 DEF IInv, TypeOK, SubmitInv, WorkerInv, HandleInv, OpInv, Cancel, CanName, ActiveTasks
    <2>6. (\A n \in Managers : SweepInv(n))'
      BY <1>1 DEF IInv, TypeOK, SubmitInv, WorkerInv, OpInv, SweepInv, Cancel, CanName, ActiveTasks
    <2>7. QED BY <2>1, <2>2, <2>3, <2>4, <2>5, <2>6 DEF IInv
  <1>2. ASSUME StopTake(m) PROVE IInv'
    <2>1. TypeOK'
      BY <1>2 DEF IInv, TypeOK, OpInv, StopTake
    <2>2. (\A u \in Tasks : SubmitInv(u))'
      BY <1>2 DEF IInv, TypeOK, SubmitInv, StopTake
    <2>3. (\A u \in Tasks : WorkerInv(u))'
      BY <1>2 DEF IInv, TypeOK, SubmitInv, WorkerInv, OpInv, SweepInv, StopTake
    <2>4. (\A u \in Tasks : HandleInv(u))'
      BY <1>2 DEF IInv, TypeOK, SubmitInv, WorkerInv, HandleInv, OpInv, SweepInv, StopTake
    <2>5. (\A n \in Managers : OpInv(n))'
      BY <1>2 DEF IInv, TypeOK, SubmitInv, WorkerInv, HandleInv, OpInv, StopTake
    <2>6. (\A n \in Managers : SweepInv(n))'
      BY <1>2 DEF IInv, TypeOK, SubmitInv, WorkerInv, OpInv, SweepInv, StopTake
    <2>7. QED BY <2>1, <2>2, <2>3, <2>4, <2>5, <2>6 DEF IInv
  <1>3. ASSUME StopJoin(m) PROVE IInv'
    <2>1. TypeOK'
      BY <1>3 DEF IInv, TypeOK, StopJoin
    <2>2. (\A u \in Tasks : SubmitInv(u))'
      BY <1>3 DEF IInv, TypeOK, SubmitInv, StopJoin
    <2>3. (\A u \in Tasks : WorkerInv(u))'
      BY <1>3 DEF IInv, TypeOK, SubmitInv, WorkerInv, OpInv, SweepInv, StopJoin
    <2>4. (\A u \in Tasks : HandleInv(u))'
      BY <1>3 DEF IInv, TypeOK, SubmitInv, WorkerInv, HandleInv, OpInv, SweepInv, StopJoin
    <2>5. (\A n \in Managers : OpInv(n))'
      BY <1>3 DEF IInv, TypeOK, SubmitInv, WorkerInv, HandleInv, OpInv, StopJoin
    <2>6. (\A n \in Managers : SweepInv(n))'
      BY <1>3 DEF IInv, TypeOK, SubmitInv, WorkerInv, OpInv, SweepInv, StopJoin
    <2>7. QED BY <2>1, <2>2, <2>3, <2>4, <2>5, <2>6 DEF IInv
  <1>4. ASSUME StopToken(m) PROVE IInv'
    <2>1. TypeOK'
      BY <1>4, SMTT(40) DEF IInv, TypeOK, StopToken
    <2>2. (\A u \in Tasks : SubmitInv(u))'
      BY <1>4 DEF IInv, TypeOK, SubmitInv, StopToken
    <2>3. (\A u \in Tasks : WorkerInv(u))'
      BY <1>4 DEF IInv, TypeOK, SubmitInv, WorkerInv, OpInv, SweepInv, StopToken
    <2>4. (\A u \in Tasks : HandleInv(u))'
      BY <1>4 DEF IInv, TypeOK, SubmitInv, WorkerInv, HandleInv, OpInv, SweepInv, StopToken
    <2>5. (\A n \in Managers : OpInv(n))'
      BY <1>4 DEF IInv, TypeOK, SubmitInv, WorkerInv, HandleInv, OpInv, StopToken
    <2>6. (\A n \in Managers : SweepInv(n))'
      BY <1>4 DEF IInv, TypeOK, SubmitInv, WorkerInv, OpInv, SweepInv, StopToken
    <2>7. QED BY <2>1, <2>2, <2>3, <2>4, <2>5, <2>6 DEF IInv
  <1>5. ASSUME StopDrain(m) PROVE IInv'
    <2>1. TypeOK'
      BY <1>5 DEF IInv, TypeOK, StopDrain
    <2>2. (\A u \in Tasks : SubmitInv(u))'
      BY <1>5 DEF IInv, TypeOK, SubmitInv, StopDrain
    <2>3. (\A u \in Tasks : WorkerInv(u))'
      BY <1>5 DEF IInv, TypeOK, SubmitInv, WorkerInv, OpInv, SweepInv, StopDrain
    <2>4. (\A u \in Tasks : HandleInv(u))'
      BY <1>5 DEF IInv, TypeOK, SubmitInv, WorkerInv, HandleInv, OpInv, SweepInv, StopDrain
    <2>5. (\A n \in Managers : OpInv(n))'
      BY <1>5 DEF IInv, TypeOK, SubmitInv, WorkerInv, HandleInv, OpInv, StopDrain
    <2>6. (\A n \in Managers : SweepInv(n))'
      BY <1>5 DEF IInv, TypeOK, SubmitInv, WorkerInv, OpInv, SweepInv, StopDrain
    <2>7. QED BY <2>1, <2>2, <2>3, <2>4, <2>5, <2>6 DEF IInv
  <1>6. ASSUME CancelReget(m) PROVE IInv'
    <2>1. TypeOK'
      <3>1. TypeOK
        BY DEF IInv
      <3>a. opTask[m] \in Tasks
        BY <1>6 DEF IInv, OpInv, CancelReget
      <3>2. UNCHANGED <<store, sub, books, run, shutTodo, sweep>>
        BY <1>6 DEF CancelReget
      <3>b. /\ opPc \in [Managers -> OpPcs] /\ opMode \in [Managers -> OpModes]
            /\ opTask \in [Managers -> Tasks \cup {NoTask}]
        BY <3>1 DEF TypeOK
      <3>0. OpStart(m, NoTask, "idle", "cancel") \/ OpGoto(m, "save")
        BY <1>6 DEF CancelReget
      <3>3. /\ opPc' \in [Managers -> OpPcs] /\ opMode' \in [Managers -> OpModes]
            /\ opTask' \in [Managers -> Tasks \cup {NoTask}]
        BY <3>0, <3>b
      <3>4. shutStop' \in [Managers -> Tasks \cup {NoTask}]
        BY <1>6, <3>1, <3>a DEF TypeOK, CancelReget
      <3>5. QED
        BY <3>1, <3>2, <3>3, <3>4 DEF TypeOK
    <2>2. (\A u \in Tasks : SubmitInv(u))'
      BY <1>6 DEF IInv, TypeOK, SubmitInv, CancelReget
    <2>3. (\A u \in Tasks : WorkerInv(u))'
      BY <1>6 DEF IInv, TypeOK, SubmitInv, WorkerInv, OpInv, SweepInv, CancelReget
    <2>4. (\A u \in Tasks : HandleInv(u))'
      BY <1>6 DEF IInv, TypeOK, SubmitInv, WorkerInv, HandleInv, OpInv, SweepInv, CancelReget
    <2>5. (\A n \in Managers : OpInv(n))'
      BY <1>6 DEF IInv, TypeOK, SubmitInv, WorkerInv, HandleInv, OpInv, CancelReget
    <2>6. (\A n \in Managers : SweepInv(n))'
      BY <1>6 DEF IInv, TypeOK, SubmitInv, WorkerInv, OpInv, SweepInv, CancelReget
    <2>7. QED BY <2>1, <2>2, <2>3, <2>4, <2>5, <2>6 DEF IInv
  <1>7. ASSUME CancelSave(m) PROVE IInv'
    <2>1. TypeOK'
      <3>1. opTask[m] \in Tasks
        BY <1>7 DEF IInv, OpInv, CancelSave
      <3>2. status' \in [Tasks -> Status]
        BY <1>7, <3>1 DEF IInv, TypeOK, CancelSave
      <3>3. /\ opPc' \in [Managers -> OpPcs] /\ opTask' \in [Managers -> Tasks \cup {NoTask}]
            /\ opMode' \in [Managers -> OpModes] /\ shutTodo' = shutTodo
            /\ shutStop' \in [Managers -> Tasks \cup {NoTask}]
        BY <1>7, <3>1 DEF IInv, TypeOK, CancelSave
      <3>4. QED
        BY <1>7, <3>2, <3>3 DEF IInv, TypeOK, CancelSave
    <2>2. (\A u \in Tasks : SubmitInv(u))'
      BY <1>7 DEF IInv, TypeOK, SubmitInv, OpInv, CancelSave
    <2>3. (\A u \in Tasks : WorkerInv(u))'
      BY <1>7 DEF IInv, TypeOK, SubmitInv, WorkerInv, OpInv, SweepInv, CancelSave
    <2>4. (\A u \in Tasks : HandleInv(u))'
      BY <1>7 DEF IInv, TypeOK, SubmitInv, WorkerInv, HandleInv, OpInv, SweepInv, CancelSave
    <2>5. (\A n \in Managers : OpInv(n))'
      BY <1>7 DEF IInv, TypeOK, SubmitInv, WorkerInv, HandleInv, OpInv, CancelSave
    <2>6. (\A n \in Managers : SweepInv(n))'
      BY <1>7 DEF IInv, TypeOK, SubmitInv, WorkerInv, OpInv, SweepInv, CancelSave
    <2>7. QED BY <2>1, <2>2, <2>3, <2>4, <2>5, <2>6 DEF IInv
  <1>8. ASSUME OpDropped(m) PROVE IInv'
    <2>1. TypeOK'
      <3>1. TypeOK
        BY DEF IInv
      <3>2. UNCHANGED <<store, sub, tokens, cancelled, run, sweep>>
        BY <1>8 DEF OpDropped
      <3>3. /\ opPc' \in [Managers -> OpPcs] /\ opMode' \in [Managers -> OpModes]
            /\ opTask' \in [Managers -> Tasks \cup {NoTask}]
        BY <1>8, <3>1 DEF TypeOK, OpDropped
      <3>4. shutTodo' \in [Managers -> SUBSET Tasks]
        BY <1>8, <3>1 DEF TypeOK, OpDropped
      <3>5. shutStop' \in [Managers -> Tasks \cup {NoTask}]
        BY <1>8, <3>1 DEF TypeOK, OpDropped
      <3>6. opPc[m] = "join" => opTask[m] \in Tasks
        BY DEF IInv, OpInv
      <3>7. handles' \subseteq Tasks
        BY <1>8, <3>1, <3>6 DEF TypeOK, OpDropped
      <3>8. QED
        BY <3>1, <3>2, <3>3, <3>4, <3>5, <3>7 DEF TypeOK
    <2>2. (\A u \in Tasks : SubmitInv(u))'
      BY <1>8 DEF IInv, TypeOK, SubmitInv, OpInv, OpDropped
    <2>3. (\A u \in Tasks : WorkerInv(u))'
      BY <1>8 DEF IInv, TypeOK, SubmitInv, WorkerInv, OpInv, SweepInv, OpDropped
    <2>4. (\A u \in Tasks : HandleInv(u))'
      BY <1>8 DEF IInv, TypeOK, SubmitInv, WorkerInv, HandleInv, OpInv, SweepInv, OpDropped
    <2>5. (\A n \in Managers : OpInv(n))'
      BY <1>8 DEF IInv, TypeOK, SubmitInv, WorkerInv, HandleInv, OpInv, OpDropped
    <2>6. (\A n \in Managers : SweepInv(n))'
      BY <1>8 DEF IInv, TypeOK, SubmitInv, WorkerInv, OpInv, SweepInv, OpDropped
    <2>7. QED BY <2>1, <2>2, <2>3, <2>4, <2>5, <2>6 DEF IInv
  <1>9. QED
    BY <1>1, <1>2, <1>3, <1>4, <1>5, <1>6, <1>7, <1>8 DEF StopSteps

(* So do the steps of shutdown(). *)
LEMMA ShutdownPreserves ==
  ASSUME IInv, ~AnyId, NEW m \in Managers, Shutdown(m) \/ ShutdownSteps(m)
  PROVE  IInv'
  <1>1. ASSUME Shutdown(m) PROVE IInv'
    <2>1. TypeOK'
      BY <1>1, SMTT(40) DEF IInv, TypeOK, Shutdown, CanName, ActiveTasks
    <2>2. (\A u \in Tasks : SubmitInv(u))'
      BY <1>1 DEF IInv, TypeOK, SubmitInv, Shutdown, CanName, ActiveTasks
    <2>3. (\A u \in Tasks : WorkerInv(u))'
      BY <1>1 DEF IInv, TypeOK, SubmitInv, WorkerInv, OpInv, SweepInv, Shutdown, CanName, ActiveTasks
    <2>4. (\A u \in Tasks : HandleInv(u))'
      BY <1>1 DEF IInv, TypeOK, SubmitInv, WorkerInv, HandleInv, OpInv, SweepInv, Shutdown, CanName, ActiveTasks
    <2>5. (\A n \in Managers : OpInv(n))'
      BY <1>1, SMTT(40) DEF IInv, TypeOK, SubmitInv, WorkerInv, HandleInv, OpInv, Shutdown, CanName, ActiveTasks
    <2>6. (\A n \in Managers : SweepInv(n))'
      BY <1>1 DEF IInv, TypeOK, SubmitInv, WorkerInv, OpInv, SweepInv, Shutdown, CanName, ActiveTasks
    <2>7. QED BY <2>1, <2>2, <2>3, <2>4, <2>5, <2>6 DEF IInv
  <1>2. ASSUME NEW t \in Tasks, ShutdownCancel(m, t) PROVE IInv'
    <2>1. TypeOK'
      <3>1. TypeOK
        BY DEF IInv
      <3>2. UNCHANGED <<store, sub, books, run, shutTodo, sweep>>
        BY <1>2 DEF ShutdownCancel
      <3>b. /\ opPc \in [Managers -> OpPcs] /\ opMode \in [Managers -> OpModes]
            /\ opTask \in [Managers -> Tasks \cup {NoTask}]
        BY <3>1 DEF TypeOK
      <3>0. OpStart(m, t, "take", "shutdown_cancel") \/ UNCHANGED op
        BY <1>2 DEF ShutdownCancel
      <3>3. /\ opPc' \in [Managers -> OpPcs] /\ opMode' \in [Managers -> OpModes]
            /\ opTask' \in [Managers -> Tasks \cup {NoTask}]
        BY <3>0, <3>b
      <3>4. shutStop' \in [Managers -> Tasks \cup {NoTask}]
        BY <1>2, <3>1 DEF TypeOK, ShutdownCancel
      <3>5. QED
        BY <3>1, <3>2, <3>3, <3>4 DEF TypeOK
    <2>2. (\A u \in Tasks : SubmitInv(u))'
      BY <1>2 DEF IInv, TypeOK, SubmitInv, ShutdownCancel
    <2>3. (\A u \in Tasks : WorkerInv(u))'
      BY <1>2 DEF IInv, TypeOK, SubmitInv, WorkerInv, OpInv, SweepInv, ShutdownCancel
    <2>4. (\A u \in Tasks : HandleInv(u))'
      BY <1>2 DEF IInv, TypeOK, SubmitInv, WorkerInv, HandleInv, OpInv, SweepInv, ShutdownCancel
    <2>5. (\A n \in Managers : OpInv(n))'
      BY <1>2 DEF IInv, TypeOK, SubmitInv, WorkerInv, HandleInv, OpInv, ShutdownCancel
    <2>6. (\A n \in Managers : SweepInv(n))'
      BY <1>2 DEF IInv, TypeOK, SubmitInv, WorkerInv, OpInv, SweepInv, ShutdownCancel
    <2>7. QED BY <2>1, <2>2, <2>3, <2>4, <2>5, <2>6 DEF IInv
  <1>3. ASSUME ShutdownStop(m) PROVE IInv'
    <2>1. TypeOK'
      BY <1>3 DEF IInv, TypeOK, OpInv, ShutdownStop
    <2>2. (\A u \in Tasks : SubmitInv(u))'
      BY <1>3 DEF IInv, TypeOK, SubmitInv, ShutdownStop
    <2>3. (\A u \in Tasks : WorkerInv(u))'
      BY <1>3 DEF IInv, TypeOK, SubmitInv, WorkerInv, OpInv, SweepInv, ShutdownStop
    <2>4. (\A u \in Tasks : HandleInv(u))'
      BY <1>3 DEF IInv, TypeOK, SubmitInv, WorkerInv, HandleInv, OpInv, SweepInv, ShutdownStop
    <2>5. (\A n \in Managers : OpInv(n))'
      BY <1>3 DEF IInv, TypeOK, SubmitInv, WorkerInv, HandleInv, OpInv, ShutdownStop
    <2>6. (\A n \in Managers : SweepInv(n))'
      BY <1>3 DEF IInv, TypeOK, SubmitInv, WorkerInv, OpInv, SweepInv, ShutdownStop
    <2>7. QED BY <2>1, <2>2, <2>3, <2>4, <2>5, <2>6 DEF IInv
  <1>4. ASSUME ShutdownNext(m) PROVE IInv'
    <2>1. TypeOK'
      BY <1>4 DEF IInv, TypeOK, ShutdownNext
    <2>2. (\A u \in Tasks : SubmitInv(u))'
      BY <1>4 DEF IInv, TypeOK, SubmitInv, ShutdownNext
    <2>3. (\A u \in Tasks : WorkerInv(u))'
      BY <1>4 DEF IInv, TypeOK, SubmitInv, WorkerInv, OpInv, SweepInv, ShutdownNext
    <2>4. (\A u \in Tasks : HandleInv(u))'
      BY <1>4 DEF IInv, TypeOK, SubmitInv, WorkerInv, HandleInv, OpInv, SweepInv, ShutdownNext
    <2>5. (\A n \in Managers : OpInv(n))'
      BY <1>4 DEF IInv, TypeOK, SubmitInv, WorkerInv, HandleInv, OpInv, ShutdownNext
    <2>6. (\A n \in Managers : SweepInv(n))'
      BY <1>4 DEF IInv, TypeOK, SubmitInv, WorkerInv, OpInv, SweepInv, ShutdownNext
    <2>7. QED BY <2>1, <2>2, <2>3, <2>4, <2>5, <2>6 DEF IInv
  <1>5. QED
    BY <1>1, <1>2, <1>3, <1>4 DEF ShutdownSteps

(* And so do cleanup() and the reaper. *)
LEMMA SweepPreserves ==
  ASSUME IInv, NEW m \in Managers, CleanupList(m) \/ ReaperList(m) \/ Sweeps(m)
  PROVE  IInv'
  <1>1. ASSUME CleanupList(m) PROVE IInv'
    <2>1. TypeOK'
      BY <1>1 DEF IInv, TypeOK, CleanupList
    <2>2. (\A u \in Tasks : SubmitInv(u))'
      BY <1>1 DEF IInv, TypeOK, SubmitInv, CleanupList
    <2>3. (\A u \in Tasks : WorkerInv(u))'
      BY <1>1 DEF IInv, TypeOK, SubmitInv, WorkerInv, OpInv, SweepInv, CleanupList
    <2>4. (\A u \in Tasks : HandleInv(u))'
      BY <1>1 DEF IInv, TypeOK, SubmitInv, WorkerInv, HandleInv, OpInv, SweepInv, CleanupList
    <2>5. (\A n \in Managers : OpInv(n))'
      BY <1>1 DEF IInv, TypeOK, SubmitInv, WorkerInv, HandleInv, OpInv, CleanupList
    <2>6. (\A n \in Managers : SweepInv(n))'
      <3>1. PICK S \in SUBSET {t \in Tasks : status[t] \in Terminal} :
               cleanupTodo' = [cleanupTodo EXCEPT ![m] = S]
        BY <1>1 DEF CleanupList
      <3>2. UNCHANGED <<status, submit, reaperTodo, cleanupCur>>
        BY <1>1 DEF CleanupList
      <3>3. \A t \in S : Swept(t)
        BY DEF IInv, TypeOK, SubmitInv
      <3>4. QED
        BY <3>1, <3>2, <3>3 DEF IInv, TypeOK, SweepInv
    <2>7. QED BY <2>1, <2>2, <2>3, <2>4, <2>5, <2>6 DEF IInv
  <1>2. ASSUME ReaperList(m) PROVE IInv'
    <2>1. TypeOK'
      BY <1>2 DEF IInv, TypeOK, ReaperList
    <2>2. (\A u \in Tasks : SubmitInv(u))'
      BY <1>2 DEF IInv, TypeOK, SubmitInv, ReaperList
    <2>3. (\A u \in Tasks : WorkerInv(u))'
      BY <1>2 DEF IInv, TypeOK, SubmitInv, WorkerInv, OpInv, SweepInv, ReaperList
    <2>4. (\A u \in Tasks : HandleInv(u))'
      BY <1>2 DEF IInv, TypeOK, SubmitInv, WorkerInv, HandleInv, OpInv, SweepInv, ReaperList
    <2>5. (\A n \in Managers : OpInv(n))'
      BY <1>2 DEF IInv, TypeOK, SubmitInv, WorkerInv, HandleInv, OpInv, ReaperList
    <2>6. (\A n \in Managers : SweepInv(n))'
      <3>1. PICK S \in SUBSET {t \in Tasks : status[t] \in Terminal} :
               reaperTodo' = [reaperTodo EXCEPT ![m] = S]
        BY <1>2 DEF ReaperList
      <3>2. UNCHANGED <<status, submit, cleanupTodo, cleanupCur>>
        BY <1>2 DEF ReaperList
      <3>3. \A t \in S : Swept(t)
        BY DEF IInv, TypeOK, SubmitInv
      <3>4. QED
        BY <3>1, <3>2, <3>3 DEF IInv, TypeOK, SweepInv
    <2>7. QED BY <2>1, <2>2, <2>3, <2>4, <2>5, <2>6 DEF IInv
  <1>3. ASSUME CleanupForget(m) PROVE IInv'
    <2>1. TypeOK'
      BY <1>3 DEF IInv, TypeOK, CleanupForget
    <2>2. (\A u \in Tasks : SubmitInv(u))'
      BY <1>3 DEF IInv, TypeOK, SubmitInv, CleanupForget
    <2>3. (\A u \in Tasks : WorkerInv(u))'
      BY <1>3 DEF IInv, TypeOK, SubmitInv, WorkerInv, OpInv, SweepInv, CleanupForget
    <2>4. (\A u \in Tasks : HandleInv(u))'
      BY <1>3 DEF IInv, TypeOK, SubmitInv, WorkerInv, HandleInv, OpInv, SweepInv, CleanupForget
    <2>5. (\A n \in Managers : OpInv(n))'
      BY <1>3 DEF IInv, TypeOK, SubmitInv, WorkerInv, HandleInv, OpInv, CleanupForget
    <2>6. (\A n \in Managers : SweepInv(n))'
      BY <1>3 DEF IInv, TypeOK, SubmitInv, WorkerInv, OpInv, SweepInv, CleanupForget
    <2>7. QED BY <2>1, <2>2, <2>3, <2>4, <2>5, <2>6 DEF IInv
  <1>4. ASSUME NEW t \in Tasks, CleanupDelete(m, t) PROVE IInv'
    <2>1. TypeOK'
      BY <1>4, SMTT(40) DEF IInv, TypeOK, CleanupDelete
    <2>2. (\A u \in Tasks : SubmitInv(u))'
      BY <1>4 DEF IInv, TypeOK, SubmitInv, SweepInv, CleanupDelete
    <2>3. (\A u \in Tasks : WorkerInv(u))'
      BY <1>4 DEF IInv, TypeOK, SubmitInv, WorkerInv, OpInv, SweepInv, CleanupDelete
    <2>4. (\A u \in Tasks : HandleInv(u))'
      BY <1>4 DEF IInv, TypeOK, SubmitInv, WorkerInv, HandleInv, OpInv, SweepInv, CleanupDelete
    <2>5. (\A n \in Managers : OpInv(n))'
      BY <1>4 DEF IInv, TypeOK, SubmitInv, WorkerInv, HandleInv, OpInv, SweepInv, CleanupDelete
    <2>6. (\A n \in Managers : SweepInv(n))'
      BY <1>4, SMTT(40) DEF IInv, TypeOK, SubmitInv, WorkerInv, OpInv, SweepInv, CleanupDelete
    <2>7. QED BY <2>1, <2>2, <2>3, <2>4, <2>5, <2>6 DEF IInv
  <1>5. ASSUME NEW t \in Tasks, ReaperDelete(m, t) PROVE IInv'
    <2>1. TypeOK'
      BY <1>5 DEF IInv, TypeOK, ReaperDelete
    <2>2. (\A u \in Tasks : SubmitInv(u))'
      BY <1>5 DEF IInv, TypeOK, SubmitInv, SweepInv, ReaperDelete
    <2>3. (\A u \in Tasks : WorkerInv(u))'
      BY <1>5 DEF IInv, TypeOK, SubmitInv, WorkerInv, OpInv, SweepInv, ReaperDelete
    <2>4. (\A u \in Tasks : HandleInv(u))'
      BY <1>5 DEF IInv, TypeOK, SubmitInv, WorkerInv, HandleInv, OpInv, SweepInv, ReaperDelete
    <2>5. (\A n \in Managers : OpInv(n))'
      BY <1>5 DEF IInv, TypeOK, SubmitInv, WorkerInv, HandleInv, OpInv, SweepInv, ReaperDelete
    <2>6. (\A n \in Managers : SweepInv(n))'
      BY <1>5 DEF IInv, TypeOK, SubmitInv, WorkerInv, OpInv, SweepInv, ReaperDelete
    <2>7. QED BY <2>1, <2>2, <2>3, <2>4, <2>5, <2>6 DEF IInv
  <1>6. QED
    BY <1>1, <1>2, <1>3, <1>4, <1>5 DEF Sweeps

(* A stuttering step changes nothing that the invariant mentions.          *)
LEMMA StutterPreserves == IInv /\ UNCHANGED vars => IInv'
  BY DEF vars, IInv, TypeOK, SubmitInv, WorkerInv, HandleInv, OpInv, SweepInv

(* Every step of any actor preserves the invariant.                        *)
LEMMA StepPreserves == ASSUME ~AnyId, IInv, [Next]_vars PROVE IInv'
  BY SubmitPreserves, WorkerPreserves, StopPreserves, ShutdownPreserves, SweepPreserves,
     StutterPreserves DEF Next

(* The inductive invariant holds in every reachable state, when callers    *)
(* cancel only ids that submit() has returned to them.                     *)
THEOREM InductiveInvariant == ASSUME ~AnyId PROVE Spec => []IInv
  <1>1. IInv /\ [Next]_vars => IInv'
    BY StepPreserves
  <1>2. QED
    BY InitIInv, <1>1, PTL DEF Spec

(* Every variable of the manager keeps its type.                           *)
THEOREM TypeCorrect == ASSUME ~AnyId PROVE Spec => []TypeOK
  <1>1. IInv => TypeOK
    BY DEF IInv
  <1>2. QED
    BY InductiveInvariant, <1>1, PTL

(* stop_local_task, as used by cancel() and shutdown(): when it returns,   *)
(* the worker writes nothing more and no invocation of the task runs.      *)
THEOREM StopStops == ASSUME ~AnyId PROVE Spec => []StopIsPhysical
  <1>1. IInv => StopIsPhysical
    BY DEF IInv, OpInv, StopIsPhysical
  <1>2. QED
    BY InductiveInvariant, <1>1, PTL

(* A record that says Cancelled belongs to a task that no longer runs.     *)
THEOREM CancelledStopped == ASSUME ~AnyId PROVE Spec => []CancelledIsStopped
  <1>1. IInv => CancelledIsStopped
    BY DEF IInv, WorkerInv, CancelledIsStopped
  <1>2. QED
    BY InductiveInvariant, <1>1, PTL

(* No invocation runs outside the reach of shutdown(): its token is kept.  *)
THEOREM InvocationsCovered == ASSUME ~AnyId PROVE Spec => []TokenCoversInvocations
  <1>1. IInv => TokenCoversInvocations
    BY DEF IInv, WorkerInv, TokenCoversInvocations
  <1>2. QED
    BY InductiveInvariant, <1>1, PTL

(* The `finished` handshake of submit_with_retry and PendingJoin leaves no *)
(* handle of an ended task behind.                                         *)
THEOREM HandlesNotStale == ASSUME ~AnyId PROVE Spec => []NoStaleHandle
  <1>1. IInv => NoStaleHandle
    BY DEF IInv, TypeOK, WorkerInv, NoStaleHandle
  <1>2. QED
    BY InductiveInvariant, <1>1, PTL

-----------------------------------------------------------------------------
(* Only seven steps write the store.                                       *)
LEMMA StoreWriters ==
  ASSUME [Next]_vars
  PROVE  \/ \E t \in Tasks : SubmitSave(t) \/ WorkerMarkRunning(t) \/ WorkerRetry(t)
                             \/ WorkerSaveTerminal(t)
         \/ \E m \in Managers : CancelSave(m)
         \/ \E m \in Managers, t \in Tasks : CleanupDelete(m, t) \/ ReaperDelete(m, t)
         \/ UNCHANGED store
  <1>1. ASSUME NEW t \in Tasks, Submit(t) PROVE SubmitSave(t) \/ UNCHANGED store
    BY <1>1 DEF Submit, SubmitCheck, SubmitSpawn, SubmitRegister
  <1>2. ASSUME NEW t \in Tasks, WorkerAcquire(t) \/ Worker(t) \/ InvocationEnds(t)
        PROVE  WorkerMarkRunning(t) \/ WorkerRetry(t) \/ WorkerSaveTerminal(t) \/ UNCHANGED store
    BY <1>2 DEF Worker, WorkerAcquire, WorkerFetch, WorkerCall, WorkerInvoke, WorkerReturn,
       WorkerTimeout, WorkerRefetch, WorkerWake, WorkerCheck, WorkerDrain, WorkerDeregister,
       WorkerUntoken, WorkerAborted, InvocationEnds
  <1>3. ASSUME NEW m \in Managers, (\E t \in Tasks : Cancel(m, t)) \/ StopSteps(m) \/ OpDropped(m)
        PROVE  CancelSave(m) \/ UNCHANGED store
    BY <1>3 DEF Cancel, StopSteps, StopTake, StopJoin, StopToken, StopDrain, CancelReget, OpDropped
  <1>4. ASSUME NEW m \in Managers, Shutdown(m) \/ ShutdownSteps(m)
        PROVE  UNCHANGED store
    BY <1>4 DEF Shutdown, ShutdownSteps, ShutdownCancel, ShutdownStop, ShutdownNext
  <1>5. ASSUME NEW m \in Managers, CleanupList(m) \/ ReaperList(m) \/ Sweeps(m)
        PROVE  (\E t \in Tasks : CleanupDelete(m, t) \/ ReaperDelete(m, t)) \/ UNCHANGED store
    BY <1>5 DEF CleanupList, ReaperList, Sweeps, CleanupForget
  <1>6. CASE UNCHANGED vars
    BY <1>6 DEF vars
  <1>7. QED
    BY <1>1, <1>2, <1>3, <1>4, <1>5, <1>6 DEF Next

(* Each of the seven is a transition of TaskLifecycle, or leaves the       *)
(* record as it is.                                                        *)
Moves(t) ==
  /\ \A u \in Tasks \ {t} : status'[u] = status[u] /\ retry'[u] = retry[u]
  /\ \/ status[t] = "pending" /\ status'[t] = "running" /\ retry'[t] = retry[t]
     \/ /\ status[t] = "running" /\ status'[t] = "pending"
        /\ retry[t] < MaxRetries /\ retry'[t] = retry[t] + 1
     \/ status[t] = "running" /\ status'[t] \in {"completed", "failed"} /\ retry'[t] = retry[t]
     \/ status[t] \in Active /\ status'[t] = "cancelled" /\ retry'[t] = retry[t]
     \/ status[t] \in Terminal /\ status'[t] = "absent" /\ retry'[t] = retry[t]

(* What one step may do to a record, given the invariant.                  *)
LEMMA RecordStep ==
  ASSUME ~AnyId, IInv, [Next]_vars
  PROVE  \/ UNCHANGED store
         \/ \E t \in Tasks : SubmitSave(t) \/ Moves(t)
  <1>1. ASSUME NEW t \in Tasks, WorkerMarkRunning(t) PROVE UNCHANGED store \/ Moves(t)
    BY <1>1 DEF IInv, TypeOK, WorkerInv, WorkerMarkRunning, Moves
  <1>2. ASSUME NEW t \in Tasks, WorkerRetry(t) PROVE UNCHANGED store \/ Moves(t)
    BY <1>2 DEF IInv, TypeOK, WorkerInv, WorkerRetry, Moves
  <1>3. ASSUME NEW t \in Tasks, WorkerSaveTerminal(t) PROVE UNCHANGED store \/ Moves(t)
    BY <1>3 DEF IInv, TypeOK, WorkerInv, WorkerSaveTerminal, Moves
  <1>4. ASSUME NEW m \in Managers, CancelSave(m)
        PROVE  UNCHANGED store \/ \E t \in Tasks : Moves(t)
    <2>1. opTask[m] \in Tasks /\ (UNCHANGED store \/ Moves(opTask[m]))
      BY <1>4 DEF IInv, TypeOK, OpInv, CancelSave, Moves
    <2>2. QED BY <2>1
  <1>5. ASSUME NEW m \in Managers, NEW t \in Tasks, CleanupDelete(m, t) \/ ReaperDelete(m, t)
        PROVE  UNCHANGED store \/ Moves(t)
    BY <1>5 DEF IInv, TypeOK, SweepInv, CleanupDelete, ReaperDelete, Moves
  <1>6. QED
    BY StoreWriters, <1>1, <1>2, <1>3, <1>4, <1>5

(* No step rewrites a terminal record, whatever the worker, cancel(),      *)
(* shutdown(), cleanup() and the reaper do at the same time.               *)
THEOREM TerminalFinal == ASSUME ~AnyId PROVE Spec => TerminalIsFinal
  <1>1. IInv /\ [Next]_vars =>
          [\A t \in Tasks : status[t] \in Terminal => status'[t] \in {status[t], "absent"}]_vars
    <2> SUFFICES ASSUME IInv, [Next]_vars, NEW t \in Tasks, status[t] \in Terminal
                 PROVE  status'[t] \in {status[t], "absent"}
      OBVIOUS
    <2>1. ASSUME NEW u \in Tasks, SubmitSave(u) PROVE status'[t] = status[t]
      BY <2>1 DEF IInv, TypeOK, SubmitInv, SubmitSave
    <2>2. ASSUME NEW u \in Tasks, Moves(u) PROVE status'[t] \in {status[t], "absent"}
      BY <2>2 DEF Moves
    <2>3. QED
      BY RecordStep, <2>1, <2>2
  <1>2. QED
    BY InductiveInvariant, <1>1, PTL DEF Spec, TerminalIsFinal

-----------------------------------------------------------------------------
(* The admission limit needs the store to belong to one manager: the       *)
(* admission lock is local to a manager.                                   *)
OneManager == \A m, n \in Managers : m = n

(* The submitter that passed the capacity check holds the admission lock,  *)
(* and there is still room for it.                                         *)
AdmissionInv ==
  /\ \A t \in Tasks : submit[t] = "checked" =>
       admission[Home[t]] = t /\ Cardinality(ActiveTasks) < MaxTasks
  /\ Cardinality(ActiveTasks) <= MaxTasks

(* The active tasks are a finite set, so their number is a natural number. *)
LEMMA ActiveIsFinite == IsFiniteSet(ActiveTasks) /\ Cardinality(ActiveTasks) \in Nat
  BY FiniteTasks, FS_Subset, FS_CardinalityType DEF ActiveTasks

(* Only the save of submit_with_retry makes a record active.               *)
LEMMA ActiveShrinks ==
  ASSUME ~AnyId, IInv, [Next]_vars, \A t \in Tasks : ~SubmitSave(t)
  PROVE  ActiveTasks' \subseteq ActiveTasks /\ Cardinality(ActiveTasks') <= Cardinality(ActiveTasks)
  <1>1. ActiveTasks' \subseteq ActiveTasks
    BY RecordStep DEF ActiveTasks, Moves
  <1>2. QED
    BY <1>1, ActiveIsFinite, FS_Subset

(* Only submit_with_retry moves a submit call on.                          *)
LEMMA SubmitWriters ==
  ASSUME [Next]_vars
  PROVE  (\E t \in Tasks : Submit(t)) \/ UNCHANGED sub
  <1>1. ASSUME NEW t \in Tasks, WorkerAcquire(t) \/ Worker(t) \/ InvocationEnds(t)
        PROVE  UNCHANGED sub
    BY <1>1 DEF Worker, WorkerAcquire, WorkerFetch, WorkerMarkRunning, WorkerCall,
       WorkerInvoke, WorkerReturn, WorkerTimeout, WorkerRefetch, WorkerRetry, WorkerWake,
       WorkerCheck, WorkerSaveTerminal, WorkerDrain, WorkerDeregister, WorkerUntoken,
       WorkerAborted, InvocationEnds
  <1>2. ASSUME NEW m \in Managers,
               \/ (\E t \in Tasks : Cancel(m, t)) \/ StopSteps(m) \/ OpDropped(m)
               \/ Shutdown(m) \/ ShutdownSteps(m)
        PROVE  UNCHANGED sub
    BY <1>2 DEF Cancel, StopSteps, StopTake, StopJoin, StopToken, StopDrain, CancelReget,
       CancelSave, OpDropped, Shutdown, ShutdownSteps, ShutdownCancel, ShutdownStop,
       ShutdownNext
  <1>3. ASSUME NEW m \in Managers, CleanupList(m) \/ ReaperList(m) \/ Sweeps(m)
        PROVE  UNCHANGED sub
    BY <1>3 DEF CleanupList, ReaperList, Sweeps, CleanupForget, CleanupDelete, ReaperDelete
  <1>4. CASE UNCHANGED vars
    BY <1>4 DEF vars
  <1>5. QED
    BY <1>1, <1>2, <1>3, <1>4 DEF Next

(* A step keeps the admission invariant: the check stays true until the save. *)
LEMMA AdmissionStep ==
  ASSUME ~AnyId, OneManager, IInv, AdmissionInv, [Next]_vars
  PROVE  AdmissionInv'
  <1>1. ASSUME NEW t \in Tasks, SubmitSave(t) PROVE AdmissionInv'
    <2>1. ActiveTasks' = ActiveTasks \/ ActiveTasks' = ActiveTasks \cup {t}
      BY <1>1 DEF SubmitSave, ActiveTasks, IInv, TypeOK
    <2>2. Cardinality(ActiveTasks \cup {t}) =
            IF t \in ActiveTasks THEN Cardinality(ActiveTasks) ELSE Cardinality(ActiveTasks) + 1
      BY ActiveIsFinite, FS_AddElement, Zenon
    <2>3. Cardinality(ActiveTasks') <= MaxTasks
      <3>1. /\ Cardinality(ActiveTasks) \in Nat
            /\ Cardinality(ActiveTasks) < MaxTasks
        BY <1>1, ActiveIsFinite DEF AdmissionInv, SubmitSave
      <3>2. CASE ActiveTasks' = ActiveTasks
        BY <3>1, <3>2
      <3>3. CASE ActiveTasks' = ActiveTasks \cup {t}
        BY <3>1, <3>3, <2>2
      <3>4. QED
        BY <2>1, <3>2, <3>3
    <2>4. \A u \in Tasks : submit'[u] # "checked"
      BY <1>1 DEF SubmitSave, AdmissionInv, OneManager, IInv, TypeOK
    <2>5. QED
      BY <2>3, <2>4 DEF AdmissionInv
  <1>2. ASSUME NEW t \in Tasks, SubmitCheck(t) PROVE AdmissionInv'
    <2>1. ActiveTasks' = ActiveTasks
      BY <1>2 DEF SubmitCheck, ActiveTasks
    <2>2. \A u \in Tasks : submit'[u] = "checked" =>
            admission'[Home[u]] = u /\ Cardinality(ActiveTasks) < MaxTasks
      BY <1>2, ActiveIsFinite DEF SubmitCheck, AdmissionInv, OneManager, IInv, TypeOK
    <2>3. QED
      BY <2>1, <2>2 DEF AdmissionInv
  <1>3. ASSUME \A t \in Tasks : ~SubmitSave(t) /\ ~SubmitCheck(t) PROVE AdmissionInv'
    <2>1. UNCHANGED admission /\ \A u \in Tasks : submit'[u] = "checked" => submit[u] = "checked"
      BY <1>3, SubmitWriters DEF Submit, SubmitSpawn, SubmitRegister, IInv, TypeOK
    <2>2. Cardinality(ActiveTasks') <= Cardinality(ActiveTasks) /\ Cardinality(ActiveTasks') \in Nat
      BY <1>3, ActiveShrinks, ActiveIsFinite, FS_Subset, FS_CardinalityType
    <2>3. QED
      BY <2>1, <2>2, ActiveIsFinite DEF AdmissionInv
  <1>4. QED
    BY <1>1, <1>2, <1>3

(* The admission invariant holds initially: no record is active.           *)
LEMMA AdmissionInit == Init => AdmissionInv
  <1>1. SUFFICES ASSUME Init PROVE AdmissionInv
    OBVIOUS
  <1>2. ActiveTasks = {}
    BY <1>1 DEF Init, ActiveTasks
  <1>3. QED
    BY <1>1, <1>2, FS_EmptySet DEF Init, AdmissionInv

(* With one manager on the store, never more than max_tasks records are    *)
(* pending or running.                                                     *)
THEOREM LimitHolds == ASSUME ~AnyId, OneManager PROVE Spec => []ActiveWithinLimit
  <1>1. IInv /\ AdmissionInv /\ [Next]_vars => AdmissionInv'
    BY AdmissionStep
  <1>2. AdmissionInv => ActiveWithinLimit
    BY DEF AdmissionInv, ActiveWithinLimit
  <1>3. QED
    BY InductiveInvariant, AdmissionInit, <1>1, <1>2, PTL DEF Spec

-----------------------------------------------------------------------------
(* The instance carries its own copy of Cardinality.                       *)
LEMMA SameCardinality == ASSUME NEW S PROVE Lifecycle!Cardinality(S) = Cardinality(S)
  BY Zenon DEF Cardinality, Lifecycle!Cardinality, IsFiniteSet, Lifecycle!IsFiniteSet

(* Under the refinement mapping, the save of submit_with_retry admits a    *)
(* new task and every other change of a record is a step of its life.      *)
LEMMA LifecycleStep ==
  ASSUME ~AnyId, IInv, AdmissionInv, [Next]_vars
  PROVE  [Lifecycle!Next]_(Lifecycle!lifecycle)
  <1>1. ASSUME \A t \in Tasks : Phase(t)' = Phase(t), retry' = retry
        PROVE  UNCHANGED Lifecycle!lifecycle
    BY <1>1 DEF Lifecycle!lifecycle
  <1>2. ASSUME NEW t \in Tasks, Submit(t), ~SubmitSave(t)
        PROVE  UNCHANGED Lifecycle!lifecycle
    <2>1. retry' = retry /\ \A u \in Tasks : Phase(u)' = Phase(u)
      BY <1>2 DEF Submit, SubmitCheck, SubmitSpawn, SubmitRegister, Phase, IInv, TypeOK, SubmitInv
    <2>2. QED BY <1>1, <2>1
  <1>3. ASSUME NEW t \in Tasks, SubmitSave(t)
        PROVE  Lifecycle!Admit(t) \/ UNCHANGED Lifecycle!lifecycle
    <2>1. CASE status' = [status EXCEPT ![t] = "pending"] /\ submit' = [submit EXCEPT ![t] = "saved"]
      <3>1. /\ Phase(t) = "new" /\ Phase(t)' = "pending" /\ retry' = retry
            /\ \A u \in Tasks \ {t} : Phase(u)' = Phase(u)
        BY <1>3, <2>1 DEF SubmitSave, Phase, IInv, TypeOK, SubmitInv
      <3>2. {u \in Tasks : [v \in Tasks |-> Phase(v)][u] \in Lifecycle!ActivePhases} = ActiveTasks
        BY DEF ActiveTasks, Phase, IInv, TypeOK, Lifecycle!ActivePhases
      <3>3. Cardinality(ActiveTasks) < MaxTasks
        BY <1>3 DEF SubmitSave, AdmissionInv
      <3>4. [v \in Tasks |-> Phase(v)]' = [[v \in Tasks |-> Phase(v)] EXCEPT ![t] = "pending"]
        BY <3>1
      <3>5. [v \in Tasks |-> Phase(v)][t] \in {"new"}
        BY <3>1
      <3>6. Lifecycle!Cardinality({u \in Tasks : [v \in Tasks |-> Phase(v)][u] \in Lifecycle!ActivePhases})
              < MaxTasks
        BY <3>2, <3>3, SameCardinality, Zenon
      <3>7. QED
        BY <3>1, <3>4, <3>5, <3>6 DEF Lifecycle!Admit, Lifecycle!Move
    <2>2. CASE status' = status /\ submit' = [submit EXCEPT ![t] = "rejected"]
      <3>1. retry' = retry /\ \A u \in Tasks : Phase(u)' = Phase(u)
        BY <1>3, <2>2 DEF SubmitSave, Phase, IInv, TypeOK
      <3>2. QED BY <1>1, <3>1
    <2>3. QED
      BY <1>3, <2>1, <2>2 DEF SubmitSave
  <1>4. ASSUME UNCHANGED sub, UNCHANGED store
        PROVE  UNCHANGED Lifecycle!lifecycle
    <2>1. retry' = retry /\ \A u \in Tasks : Phase(u)' = Phase(u)
      BY <1>4 DEF Phase
    <2>2. QED BY <1>1, <2>1
  <1>5. ASSUME UNCHANGED sub, NEW t \in Tasks, Moves(t)
        PROVE  Lifecycle!Next
    <2>1. /\ \A u \in Tasks \ {t} : Phase(u)' = Phase(u) /\ retry'[u] = retry[u]
          /\ Phase(t) = status[t]
          /\ Phase(t)' = IF status'[t] = "absent" THEN "deleted" ELSE status'[t]
      BY <1>5 DEF Moves, Phase, IInv, TypeOK, SubmitInv
    <2>2. retry \in [Tasks -> 0..MaxRetries] /\ retry' \in [Tasks -> 0..MaxRetries]
      BY StepPreserves DEF IInv, TypeOK
    <2>3. /\ [u \in Tasks |-> Phase(u)]' = [[u \in Tasks |-> Phase(u)] EXCEPT ![t] = Phase(t)']
          /\ retry' = [retry EXCEPT ![t] = retry'[t]]
          /\ [u \in Tasks |-> Phase(u)][t] = Phase(t)
      BY <2>1, <2>2
    <2>m. ASSUME NEW from, NEW to, Phase(t) \in from, Phase(t)' = to
          PROVE  Lifecycle!Move(t, from, to)
      BY <2>m, <2>3 DEF Lifecycle!Move
    <2> USE DEF Lifecycle!ActivePhases, Lifecycle!TerminalPhases
    <2>r. retry' = [retry EXCEPT ![t] = retry'[t]]
      BY <2>3
    <2>a. ASSUME status[t] = "pending" /\ status'[t] = "running" /\ retry'[t] = retry[t]
         PROVE  Lifecycle!Start(t)
      BY <2>a, <2>1, <2>m, <2>2, <2>r DEF Lifecycle!Start
    <2>b. ASSUME /\ status[t] = "running" /\ status'[t] = "pending"
                 /\ retry[t] < MaxRetries /\ retry'[t] = retry[t] + 1
         PROVE  Lifecycle!Retry(t)
      BY <2>b, <2>1, <2>m, <2>2, <2>r DEF Lifecycle!Retry
    <2>c. ASSUME status[t] = "running" /\ status'[t] \in {"completed", "failed"} /\ retry'[t] = retry[t]
         PROVE  Lifecycle!Finish(t)
      BY <2>c, <2>1, <2>m, <2>2, <2>r DEF Lifecycle!Finish
    <2>d. ASSUME status[t] \in Active /\ status'[t] = "cancelled" /\ retry'[t] = retry[t]
         PROVE  Lifecycle!Cancel(t)
      BY <2>d, <2>1, <2>m, <2>2, <2>r DEF Lifecycle!Cancel
    <2>e. ASSUME status[t] \in Terminal /\ status'[t] = "absent" /\ retry'[t] = retry[t]
         PROVE  Lifecycle!Delete(t)
      BY <2>e, <2>1, <2>m, <2>2, <2>r DEF Lifecycle!Delete
    <2>4. QED
      BY <1>5, <2>a, <2>b, <2>c, <2>d, <2>e DEF Moves, Lifecycle!Next
  <1>6. QED
    BY SubmitWriters, RecordStep, <1>2, <1>3, <1>4, <1>5 DEF Lifecycle!Next

(* Initially every task is new and has had no retry.                       *)
LEMMA LifecycleInit == Init => Lifecycle!Init
  BY DEF Init, Phase, Lifecycle!Init

(* The task manager implements the abstract life of a task, for any number *)
(* of tasks and any interleaving of its actors.                            *)
THEOREM LifecycleImplemented == ASSUME ~AnyId, OneManager PROVE Spec => ImplementsLifecycle
  <1>1. IInv /\ AdmissionInv /\ [Next]_vars => AdmissionInv'
    BY AdmissionStep
  <1>2. IInv /\ AdmissionInv /\ [Next]_vars => [Lifecycle!Next]_(Lifecycle!lifecycle)
    BY LifecycleStep
  <1>3. QED
    BY InductiveInvariant, AdmissionInit, LifecycleInit, <1>1, <1>2, PTL
       DEF Spec, ImplementsLifecycle, Lifecycle!Spec
=============================================================================
