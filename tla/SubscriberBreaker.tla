-------------------------- MODULE SubscriberBreaker --------------------------
(***************************************************************************)
(* CircuitBreakerWrapper (src/src/events/circuit_breaker.rs) around one    *)
(* subscriber.  The emitter delivers events on tasks of their own, so the  *)
(* calls of on_event overlap; the state, the failure counter and the time  *)
(* of the last failure are three cells, and a step is one access.          *)
(***************************************************************************)
EXTENDS Integers

CONSTANTS
  BreakerEvents, OpenThreshold, RecoveryWindow, LastTick, Never

VARIABLES
  state, consecutiveFailures, lastFailureAt, time,
  delivery,   \* where the on_event of each event is
  newCount,   \* the count its failure made
  failedAt,   \* the time its failure read
  announced   \* the last lifecycle event the sink received

cells == <<state, consecutiveFailures, lastFailureAt>>
vars  == <<cells, time, delivery, newCount, failedAt, announced>>

Init ==
  /\ state = "closed" /\ consecutiveFailures = 0 /\ lastFailureAt = Never /\ time = 0
  /\ delivery = [e \in BreakerEvents |-> "idle"]
  /\ newCount = [e \in BreakerEvents |-> 0]
  /\ failedAt = [e \in BreakerEvents |-> Never]
  /\ announced = "none"

Goto(e, p) == delivery' = [delivery EXCEPT ![e] = p]

(* check_recovery, under both locks.                                       *)
Elapsed == lastFailureAt # Never /\ time - lastFailureAt >= RecoveryWindow

CheckRecovery(e) ==
  /\ delivery[e] = "idle" /\ Goto(e, "look")
  /\ state' = IF state = "open" /\ Elapsed THEN "half_open" ELSE state
  /\ UNCHANGED <<consecutiveFailures, lastFailureAt, time, newCount, failedAt, announced>>

(* While open the event is discarded.                                      *)
Look(e) ==
  /\ delivery[e] = "look" /\ Goto(e, IF state = "open" THEN "over" ELSE "calling")
  /\ UNCHANGED <<cells, time, newCount, failedAt, announced>>

(* on_success, under the state's lock: every success closes the circuit,   *)
(* and only one that finds it half-open is announced.                      *)
Succeeds(e) ==
  /\ delivery[e] = "calling"
  /\ Goto(e, IF state = "half_open" THEN "announce_closed" ELSE "over")
  /\ state' = "closed" /\ consecutiveFailures' = 0
  /\ UNCHANGED <<lastFailureAt, time, newCount, failedAt, announced>>

(* on_failure, of an error or a timeout: the counter, the time, the state. *)
Fails(e) ==
  /\ delivery[e] = "calling" /\ Goto(e, "stamp")
  /\ consecutiveFailures' = consecutiveFailures + 1
  /\ newCount' = [newCount EXCEPT ![e] = consecutiveFailures + 1]
  /\ failedAt' = [failedAt EXCEPT ![e] = time]
  /\ UNCHANGED <<state, lastFailureAt, time, announced>>

Stamp(e) ==
  /\ delivery[e] = "stamp" /\ Goto(e, "decide")
  /\ lastFailureAt' = failedAt[e]
  /\ UNCHANGED <<state, consecutiveFailures, time, newCount, failedAt, announced>>

Opens(e) == state = "half_open" \/ (state = "closed" /\ newCount[e] >= OpenThreshold)

Decide(e) ==
  /\ delivery[e] = "decide" /\ Goto(e, IF Opens(e) THEN "announce_opened" ELSE "over")
  /\ state' = IF Opens(e) THEN "open" ELSE state
  /\ UNCHANGED <<consecutiveFailures, lastFailureAt, time, newCount, failedAt, announced>>

Announce(e) ==
  /\ delivery[e] \in {"announce_opened", "announce_closed"} /\ Goto(e, "over")
  /\ announced' = IF delivery[e] = "announce_opened" THEN "opened" ELSE "closed"
  /\ UNCHANGED <<cells, time, newCount, failedAt>>

Tick == time < LastTick /\ time' = time + 1 /\ UNCHANGED <<cells, delivery, newCount, failedAt, announced>>

Next ==
  \/ \E e \in BreakerEvents :
       \/ CheckRecovery(e) \/ Look(e) \/ Succeeds(e) \/ Fails(e) \/ Stamp(e) \/ Decide(e)
       \/ Announce(e)
  \/ Tick

Spec == Init /\ [][Next]_vars

-----------------------------------------------------------------------------
(* An open circuit always knows when it failed, so the recovery window can *)
(* pass; and the failures that wait for the state's lock know it too.      *)
OpenRecovers ==
  /\ state = "open" => lastFailureAt # Never
  /\ \A e \in BreakerEvents : delivery[e] = "decide" => lastFailureAt # Never /\ newCount[e] > 0
=============================================================================
