---------------------------- MODULE ModuleBreaker ----------------------------
(***************************************************************************)
(* CircuitBreakerMiddleware (src/src/middleware/circuit_breaker.rs): the   *)
(* circuit of one (module, caller) pair.  before, after and on_error each  *)
(* work under the one lock; between them the calls overlap, and a call may *)
(* be dropped without either outcome.                                      *)
(***************************************************************************)
EXTENDS Integers, Sequences, SequencesExt

CONSTANTS
  BreakerCalls,
  WindowSize, MinSamples,
  ThresholdErrors, ThresholdOf,  \* open_threshold as a fraction
  Recovery,                      \* recovery_window_ms, in ticks
  MaxTime,                       \* bound on the clock
  NoTime

VARIABLES
  circuit,    \* the state
  window,     \* the recent outcomes, TRUE a success
  openedAt, probeInFlight, probeStartedAt,
  clock,
  call,       \* where each call is
  probedAt    \* when the call was admitted as a probe

record == <<circuit, window, openedAt, probeInFlight, probeStartedAt>>
vars == <<record, clock, call, probedAt>>

Init ==
  /\ circuit = "closed" /\ window = <<>>
  /\ openedAt = NoTime /\ probeInFlight = FALSE /\ probeStartedAt = NoTime
  /\ clock = 0
  /\ call = [c \in BreakerCalls |-> "idle"]
  /\ probedAt = [c \in BreakerCalls |-> NoTime]

Since(t) == t # NoTime /\ clock - t >= Recovery

Push(ok) ==
  LET cap == IF WindowSize = 0 THEN 1 ELSE WindowSize
      kept == IF Len(window) >= cap THEN Len(window) - cap + 2 ELSE 1 IN
  Append(SubSeq(window, kept, Len(window)), ok)

(* The error rate of a non-empty window reaches the threshold.             *)
RateReached(w) ==
  Len(SelectSeq(w, LAMBDA ok : ~ok)) * ThresholdOf >= ThresholdErrors * Len(w)

-----------------------------------------------------------------------------
(* before: the recovery of an open circuit and of a probe slot that was    *)
(* held for a whole recovery window come first.                            *)
Recovers == circuit = "open" /\ Since(openedAt)
Reclaims == circuit = "half_open" /\ probeInFlight /\ Since(probeStartedAt)

(* Mutant: a probe slot in use does not keep other calls out.              *)
ProbingUnlimited == Recovers \/ circuit = "half_open"

Probing ==
  /\ Recovers \/ circuit = "half_open"
  /\ probeInFlight => Recovers \/ Reclaims

Admit(c) ==
  /\ call[c] = "idle" /\ circuit = "closed"
  /\ call' = [call EXCEPT ![c] = "admitted"]
  /\ UNCHANGED <<record, clock, probedAt>>

AdmitProbe(c) ==
  /\ call[c] = "idle" /\ Probing
  /\ circuit' = "half_open" /\ probeInFlight' = TRUE /\ probeStartedAt' = clock
  /\ call' = [call EXCEPT ![c] = "admitted"]
  /\ probedAt' = [probedAt EXCEPT ![c] = clock]
  /\ UNCHANGED <<window, openedAt, clock>>

Reject(c) ==
  /\ call[c] = "idle" /\ circuit # "closed" /\ ~Probing
  /\ call' = [call EXCEPT ![c] = "over"]
  /\ UNCHANGED <<record, clock, probedAt>>

(* after: any success while half-open closes the circuit.                  *)
After(c) ==
  /\ call[c] = "admitted"
  /\ IF circuit = "half_open"
     THEN /\ circuit' = "closed" /\ window' = <<>>
          /\ openedAt' = NoTime /\ probeInFlight' = FALSE /\ probeStartedAt' = NoTime
     ELSE window' = Push(TRUE) /\ UNCHANGED <<circuit, openedAt, probeInFlight, probeStartedAt>>
  /\ call' = [call EXCEPT ![c] = "over"]
  /\ UNCHANGED <<clock, probedAt>>

(* on_error of an admitted call; that of a rejected one returns at once.   *)
Opens(w) ==
  \/ circuit = "half_open"
  \/ circuit = "closed" /\ Len(w) >= MinSamples /\ RateReached(w)

OnError(c) ==
  /\ call[c] = "admitted"
  /\ window' = Push(FALSE)
  /\ IF Opens(window')
     THEN circuit' = "open" /\ openedAt' = clock /\ probeInFlight' = FALSE /\ probeStartedAt' = NoTime
     ELSE UNCHANGED <<circuit, openedAt, probeInFlight, probeStartedAt>>
  /\ call' = [call EXCEPT ![c] = "over"]
  /\ UNCHANGED <<clock, probedAt>>

(* Cancelled between before and the outcome.                               *)
Dropped(c) ==
  /\ call[c] = "admitted"
  /\ call' = [call EXCEPT ![c] = "over"]
  /\ UNCHANGED <<record, clock, probedAt>>

Reset ==
  /\ circuit # "closed"
  /\ circuit' = "closed" /\ window' = <<>>
  /\ openedAt' = NoTime /\ probeInFlight' = FALSE /\ probeStartedAt' = NoTime
  /\ UNCHANGED <<clock, call, probedAt>>

Tick == clock < MaxTime /\ clock' = clock + 1 /\ UNCHANGED <<record, call, probedAt>>

Next ==
  \/ \E c \in BreakerCalls :
       Admit(c) \/ AdmitProbe(c) \/ Reject(c) \/ After(c) \/ OnError(c) \/ Dropped(c)
  \/ Reset \/ Tick

Spec == Init /\ [][Next]_vars

-----------------------------------------------------------------------------
(* However late the outcomes of earlier calls arrive, whatever probe was   *)
(* dropped: a failing module gets at most one probe per recovery window,   *)
(* and the circuit is never stuck open or behind a probe that is gone.     *)
ProbesSpaced ==
  /\ \A c, d \in BreakerCalls : c # d /\ NoTime \notin {probedAt[c], probedAt[d]} =>
       probedAt[c] - probedAt[d] >= Recovery \/ probedAt[d] - probedAt[c] >= Recovery
  /\ circuit = "open" => openedAt # NoTime
  /\ probeInFlight => circuit = "half_open" /\ probeStartedAt # NoTime
  /\ Len(window) <= (IF WindowSize = 0 THEN 1 ELSE WindowSize)
=============================================================================
