------------------------------- MODULE Events -------------------------------
(***************************************************************************)
(* EventEmitter (src/src/events/emitter.rs): the parallel lists of         *)
(* subscribers and handles behind two locks, the four ways to emit, the    *)
(* delivery of one event with retries and dead letters, flush and          *)
(* shutdown.  A step is what happens under one lock, or one call of        *)
(* on_event; back-off sleeps are the scheduling of the next attempt.       *)
(***************************************************************************)
EXTENDS Naturals, Sequences, SequencesExt

CONSTANTS
  Subscribers, Subscribed,  \* all, and the list of those there at the start
  Wildcards,                \* those whose pattern is "*"
  DeadLetterReaders,        \* those that match apcore.event.delivery_failed
  Attempts,                 \* retry().max_attempts of each
  Messages, Audience, Modes, \* emitted events, who matches each, how it may be emitted
  Flushers, Shutters,       \* the calls of flush, those that come from shutdown
  Patient,                  \* the calls with a timeout of 0
  MixesRemovals,            \* handles are used when subscribers were removed by id
  Free                      \* nobody holds the lock

VARIABLES
  subscribers, subsLock,   \* the list, and who writes it
  handles, handlesLock,    \* the parallel list: the handle of s is s
  registrar,               \* where subscribe or unsubscribe_handle of s is
  position,                \* the index unsubscribe_handle works on
  isShutdown,
  emitter, mode, snapshot, \* where the emit of m is, which emit, its subscribers
  stage, tries, letters,   \* each delivery: where it is, attempts made, dead letters to send
  pending,                 \* the tracked deliveries
  flusher, held, unfinished, owed,  \* each flush: where it is, its deliveries
  detached                 \* deliveries whose JoinHandle a timeout dropped

lists      == <<subscribers, subsLock, handles, handlesLock, registrar, position>>
deliveries == <<stage, tries, letters>>
flushes    == <<flusher, held, unfinished, owed, detached>>
emits == <<emitter, mode, snapshot>>
vars == <<lists, isShutdown, emits, deliveries, pending, flushes>>

Deliveries == Messages \X Subscribers
Running(d) == stage[d] \in {"trying", "dlq", "failure"}
Tracked(m) == mode[m] = "emit"

Init ==
  /\ subscribers = Subscribed /\ handles = Subscribed
  /\ subsLock = Free /\ handlesLock = Free
  /\ registrar = [s \in Subscribers |->
                    IF \E i \in 1 .. Len(Subscribed) : Subscribed[i] = s THEN "in" ELSE "out"]
  /\ position = [s \in Subscribers |-> 0]
  /\ isShutdown = FALSE
  /\ emitter = [m \in Messages |-> "idle"] /\ mode = [m \in Messages |-> "none"]
  /\ snapshot = [m \in Messages |-> <<>>]
  /\ stage = [d \in Deliveries |-> "none"] /\ tries = [d \in Deliveries |-> 0]
  /\ letters = [d \in Deliveries |-> {}]
  /\ pending = {}
  /\ flusher = [f \in Flushers |-> "idle"]
  /\ held = [f \in Flushers |-> {}] /\ unfinished = [f \in Flushers |-> {}]
  /\ owed = [f \in Flushers |-> {}] /\ detached = {}

-----------------------------------------------------------------------------
(* subscribe: the subscriber under the one lock, the handle under both.    *)
Subscribe(s) ==
  /\ registrar[s] = "out" /\ subsLock = Free
  /\ subsLock' = s
  /\ subscribers' = Append(subscribers, s)
  /\ registrar' = [registrar EXCEPT ![s] = "subscribing"]
  /\ UNCHANGED <<handles, handlesLock, position, isShutdown, emits, deliveries, pending, flushes>>

IssueHandle(s) ==
  /\ registrar[s] = "subscribing" /\ handlesLock = Free
  /\ handles' = Append(handles, s)
  /\ subsLock' = Free
  /\ registrar' = [registrar EXCEPT ![s] = "in"]
  /\ UNCHANGED <<subscribers, handlesLock, position, isShutdown, emits, deliveries, pending, flushes>>

Index(list, s) == CHOOSE i \in 1 .. Len(list) : list[i] = s /\ \A j \in 1 .. i - 1 : list[j] # s

(* A subscriber was taken from the list by its id.                         *)
RemovedById(s) == registrar[s] = "in" /\ ~Contains(subscribers, s)

(* Mutant: the lock on the handles is released before the second list.     *)
UnsubscribeUnlocked(s) ==
  /\ registrar[s] = "in" /\ handlesLock = Free
  /\ MixesRemovals \/ \A q \in Subscribers : ~RemovedById(q)
  /\ Contains(handles, s)
  /\ position' = [position EXCEPT ![s] = Index(handles, s)]
  /\ handles' = RemoveAt(handles, Index(handles, s))
  /\ registrar' = [registrar EXCEPT ![s] = "leaving"]
  /\ UNCHANGED <<subscribers, subsLock, handlesLock, isShutdown, emits, deliveries, pending, flushes>>

(* unsubscribe_handle: the handle's index, then the subscriber at it.      *)
UnsubscribeHandle(s) ==
  /\ registrar[s] = "in" /\ handlesLock = Free
  /\ MixesRemovals \/ \A q \in Subscribers : ~RemovedById(q)
  /\ Contains(handles, s)
  /\ handlesLock' = s
  /\ position' = [position EXCEPT ![s] = Index(handles, s)]
  /\ handles' = RemoveAt(handles, Index(handles, s))
  /\ registrar' = [registrar EXCEPT ![s] = "leaving"]
  /\ UNCHANGED <<subscribers, subsLock, isShutdown, emits, deliveries, pending, flushes>>

DropSubscriber(s) ==
  /\ registrar[s] = "leaving" /\ subsLock = Free
  /\ subscribers' = RemoveAt(subscribers, position[s])
  /\ handlesLock' = Free
  /\ registrar' = [registrar EXCEPT ![s] = "gone"]
  /\ UNCHANGED <<subsLock, handles, position, isShutdown, emits, deliveries, pending, flushes>>

(* unsubscribe, unsubscribe_by_id and unsubscribe_by_event_type take the   *)
(* subscriber from the list and leave its handle.                          *)
UnsubscribeById(s) ==
  /\ subsLock = Free /\ Contains(subscribers, s)
  /\ MixesRemovals \/ \A q \in Subscribers : registrar[q] # "leaving"
  /\ subscribers' = RemoveAt(subscribers, Index(subscribers, s))
  /\ UNCHANGED <<subsLock, handles, handlesLock, registrar, position, isShutdown, emits, deliveries, pending, flushes>>

-----------------------------------------------------------------------------
(* The emits.  Each looks at the flag first, then takes a snapshot.        *)
Emit(m) ==
  /\ emitter[m] = "idle"
  /\ \E how \in Modes[m] : mode' = [mode EXCEPT ![m] = how]
  /\ emitter' = [emitter EXCEPT ![m] = IF isShutdown THEN "returned" ELSE "admitted"]
  /\ UNCHANGED <<lists, isShutdown, snapshot, deliveries, pending, flushes>>

(* Whom subscriber_matches lets through.                                   *)
Matching(m, list) == SelectSeq(list, LAMBDA s : s \in Audience[m])

(* emit, emit_delivery_semantics and emit_spawn start all deliveries, the  *)
(* first two to track them; emit_sequential and emit_filtered one by one.  *)
Dispatch(m) ==
  /\ emitter[m] = "admitted" /\ subsLock = Free
  /\ snapshot' = [snapshot EXCEPT ![m] = subscribers]
  /\ LET to == ToSet(Matching(m, subscribers))
         at == IF mode[m] \in {"emit", "spawn"} THEN "trying" ELSE "queued" IN
     stage' = [d \in Deliveries |-> IF d[1] = m /\ d[2] \in to THEN at ELSE stage[d]]
  /\ emitter' = [emitter EXCEPT ![m] =
                   CASE mode[m] = "emit" -> "track" [] mode[m] = "spawn" -> "returned"
                     [] OTHER -> "awaiting"]
  /\ UNCHANGED <<lists, isShutdown, mode, tries, letters, pending, flushes>>

(* Finished deliveries are pruned, the new ones tracked.                   *)
Track(m) ==
  /\ emitter[m] = "track"
  /\ pending' = {d \in pending : Running(d)} \cup {d \in Deliveries : d[1] = m /\ stage[d] # "none"}
  /\ emitter' = [emitter EXCEPT ![m] = "returned"]
  /\ UNCHANGED <<lists, isShutdown, mode, snapshot, deliveries, flushes>>

AwaitNext(m) ==
  LET left == SelectSeq(Matching(m, snapshot[m]), LAMBDA s : stage[<<m, s>>] = "queued") IN
  /\ emitter[m] = "awaiting" /\ \A s \in Subscribers : ~Running(<<m, s>>)
  /\ IF left = <<>>
     THEN emitter' = [emitter EXCEPT ![m] = "returned"] /\ UNCHANGED stage
     ELSE stage' = [stage EXCEPT ![<<m, left[1]>>] = "trying"] /\ UNCHANGED emitter
  /\ UNCHANGED <<lists, isShutdown, mode, snapshot, tries, letters, pending, flushes>>

-----------------------------------------------------------------------------
(* deliver_with_dlq, or the single on_event of emit_sequential and         *)
(* emit_spawn, whose failure is only logged.                               *)
WithRetry(d)  == mode[d[1]] \in {"emit", "filtered"}
MaxAttempts(d) == IF WithRetry(d) THEN Attempts[d[2]] ELSE 1

Deliver(d) ==
  /\ stage[d] = "trying" /\ tries[d] < MaxAttempts(d)
  /\ tries' = [tries EXCEPT ![d] = @ + 1]
  /\ stage' = [stage EXCEPT ![d] = "delivered"]
  /\ UNCHANGED <<lists, isShutdown, emits, letters, pending, flushes>>

AttemptFails(d) ==
  /\ stage[d] = "trying" /\ tries[d] < MaxAttempts(d)
  /\ tries' = [tries EXCEPT ![d] = @ + 1]
  /\ UNCHANGED <<lists, isShutdown, emits, stage, letters, pending, flushes>>

(* No attempt left: dead letters to the snapshot's readers, a subscriber   *)
(* whose pattern is "*" excepted.                                          *)
Exhausted(d) ==
  /\ stage[d] = "trying" /\ tries[d] = MaxAttempts(d)
  /\ stage' = [stage EXCEPT ![d] = IF WithRetry(d) THEN "dlq" ELSE "failed"]
  /\ letters' = [letters EXCEPT ![d] =
       IF WithRetry(d) THEN (ToSet(snapshot[d[1]]) \cap DeadLetterReaders) \ Wildcards ELSE {}]
  /\ UNCHANGED <<lists, isShutdown, emits, tries, pending, flushes>>

(* One on_event with the dead letter; whatever it answers.                 *)
SendLetter(d, s) ==
  /\ stage[d] = "dlq" /\ s \in letters[d]
  /\ letters' = [letters EXCEPT ![d] = @ \ {s}]
  /\ UNCHANGED <<lists, isShutdown, emits, stage, tries, pending, flushes>>

LettersSent(d) ==
  /\ stage[d] = "dlq" /\ letters[d] = {}
  /\ stage' = [stage EXCEPT ![d] = "failure"]
  /\ UNCHANGED <<lists, isShutdown, emits, tries, letters, pending, flushes>>

OnFailure(d) ==
  /\ stage[d] = "failure"
  /\ stage' = [stage EXCEPT ![d] = "failed"]
  /\ UNCHANGED <<lists, isShutdown, emits, tries, letters, pending, flushes>>

-----------------------------------------------------------------------------
(* flush, and shutdown which is a flush behind the swapped flag.           *)
Shutdown(f) ==
  /\ f \in Shutters /\ flusher[f] = "idle"
  /\ isShutdown' = TRUE
  /\ flusher' = [flusher EXCEPT ![f] = IF isShutdown THEN "returned" ELSE "flush"]
  /\ UNCHANGED <<lists, emits, deliveries, pending, held, unfinished, owed, detached>>

FlushTakes(f) ==
  /\ flusher[f] = (IF f \in Shutters THEN "flush" ELSE "idle")
  /\ held' = [held EXCEPT ![f] = pending]
  /\ owed' = [owed EXCEPT ![f] = {d \in Deliveries :
       /\ Running(d) /\ Tracked(d[1]) /\ emitter[d[1]] = "returned" /\ d \notin detached
       /\ \A g \in Flushers : d \notin held[g] \cup unfinished[g]}]
  /\ pending' = {}
  /\ flusher' = [flusher EXCEPT ![f] = "awaiting"]
  /\ UNCHANGED <<lists, isShutdown, emits, deliveries, unfinished, detached>>

FlushJoins(f, d) ==
  /\ flusher[f] = "awaiting" /\ d \in held[f] /\ ~Running(d)
  /\ held' = [held EXCEPT ![f] = @ \ {d}]
  /\ UNCHANGED <<lists, isShutdown, emits, deliveries, pending, flusher, unfinished, owed, detached>>

(* The deadline passes while d is awaited: its handle is consumed, those   *)
(* not yet awaited are kept.                                               *)
FlushTimesOut(f, d) ==
  /\ flusher[f] = "awaiting" /\ f \notin Patient /\ d \in held[f] /\ Running(d)
  /\ detached' = detached \cup {d}
  /\ unfinished' = [unfinished EXCEPT ![f] = held[f] \ {d}]
  /\ held' = [held EXCEPT ![f] = {}]
  /\ UNCHANGED <<lists, isShutdown, emits, deliveries, pending, flusher, owed>>

(* Mutant: the deliveries not awaited are dropped with the timeout.        *)
FlushForgets(f) ==
  /\ flusher[f] = "awaiting" /\ held[f] = {}
  /\ unfinished' = [unfinished EXCEPT ![f] = {}]
  /\ flusher' = [flusher EXCEPT ![f] = "returned"]
  /\ UNCHANGED <<lists, isShutdown, emits, deliveries, pending, held, owed, detached>>

FlushReturns(f) ==
  /\ flusher[f] = "awaiting" /\ held[f] = {}
  /\ pending' = pending \cup unfinished[f]
  /\ unfinished' = [unfinished EXCEPT ![f] = {}]
  /\ flusher' = [flusher EXCEPT ![f] = "returned"]
  /\ UNCHANGED <<lists, isShutdown, emits, deliveries, held, owed, detached>>

-----------------------------------------------------------------------------
Next ==
  \/ \E s \in Subscribers :
       \/ Subscribe(s) \/ IssueHandle(s) \/ UnsubscribeHandle(s) \/ DropSubscriber(s)
       \/ UnsubscribeById(s)
  \/ \E m \in Messages : Emit(m) \/ Dispatch(m) \/ Track(m) \/ AwaitNext(m)
  \/ \E d \in Deliveries :
       \/ Deliver(d) \/ AttemptFails(d) \/ Exhausted(d) \/ LettersSent(d) \/ OnFailure(d)
       \/ \E s \in Subscribers : SendLetter(d, s)
       \/ \E f \in Flushers : FlushJoins(f, d) \/ FlushTimesOut(f, d)
  \/ \E f \in Flushers : Shutdown(f) \/ FlushTakes(f) \/ FlushReturns(f)

Spec == Init /\ [][Next]_vars

-----------------------------------------------------------------------------
(* A subscriber and its handle keep their order, so that unsubscribe_handle *)
(* removes "exactly the subscriber that subscribe returned handle for".    *)
HandlesAligned ==
  /\ subsLock = Free /\ handlesLock = Free =>
       /\ \A k, l \in DOMAIN handles : handles[k] = handles[l] => k = l
       /\ \A i \in DOMAIN subscribers : Contains(handles, subscribers[i])
       /\ \A i, j \in DOMAIN subscribers :
            i < j => Index(handles, subscribers[i]) < Index(handles, subscribers[j])
  /\ \A s \in Subscribers : registrar[s] = "leaving" =>
       position[s] \in DOMAIN subscribers /\ subscribers[position[s]] = s

(* A delivery that emit started is known to the emitter until it is over:  *)
(* tracked, or with a flush; the one a flush was awaiting at its deadline  *)
(* is the only one that gets lost.                                         *)
DeliveriesTracked ==
  /\ \A d \in Deliveries : Running(d) /\ Tracked(d[1]) /\ emitter[d[1]] = "returned" =>
       \/ d \in pending \cup detached
       \/ \E f \in Flushers : d \in held[f] \cup unfinished[f]
  /\ \A f \in Flushers : f \in Patient /\ flusher[f] = "returned" =>
       \A d \in owed[f] : ~Running(d)
=============================================================================
