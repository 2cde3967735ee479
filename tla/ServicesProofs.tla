--------------------------- MODULE ServicesProofs ---------------------------
(***************************************************************************)
(* Proofs about Services, for every value of its constants: the reaper's   *)
(* control, the two circuit breakers, the registrations of middlewares,    *)
(* and the access control list, for every list of rules, tree of           *)
(* conditions, request and set of handlers.                                *)
(***************************************************************************)
EXTENDS Services, SequencesExt, SequenceTheorems, WellFoundedInduction, TLAPS

(* The service in focus moves by a step of its module, or not at all.      *)
LEMMA OneMoves ==
  ASSUME [Next]_vars
  PROVE  /\ focus' = focus
         /\ focus = "reaper" => [Reaping!Next]_reaperVars
         /\ focus = "events" => [Emitting!Next]_eventVars
         /\ focus = "module breaker" => [Breaking!Next]_moduleBreakerVars
         /\ focus = "subscriber breaker" => [Guarding!Next]_subscriberBreakerVars
         /\ focus = "middlewares" => [Registering!Next]_middlewareVars
         /\ focus = "control" => [Controlling!Next]_controlVars
         /\ focus = "acl" => [Ruling!Next]_accessVars
         /\ focus = "strategy" => [Piping!Next]_strategyVars
         /\ focus = "engine" => [Running!Next]_engineVars
  BY DEF Next, vars

-----------------------------------------------------------------------------
(* What RemoveAt and InsertAt of SequencesExt return.                      *)
LEMMA Removed ==
  ASSUME NEW S, NEW s \in Seq(S), NEW i \in 1 .. Len(s)
  PROVE  /\ RemoveAt(s, i) \in Seq(S) /\ Len(RemoveAt(s, i)) = Len(s) - 1
         /\ \A j \in 1 .. Len(s) - 1 : RemoveAt(s, i)[j] = IF j < i THEN s[j] ELSE s[j + 1]
  <1> DEFINE left == SubSeq(s, 1, i - 1)
             right == SubSeq(s, i + 1, Len(s))
  <1>1. \A j \in 1 .. Len(s) : s[j] \in S
    OBVIOUS
  <1>2. /\ left \in Seq(S) /\ Len(left) = i - 1
        /\ \A j \in 1 .. i - 1 : left[j] = s[j]
    <2>1. \A j \in 1 .. i - 1 : s[j] \in S
      BY <1>1
    <2>2. /\ left \in Seq(S) /\ Len(left) = IF 1 <= i - 1 THEN i - 1 - 1 + 1 ELSE 0
          /\ \A j \in 1 .. i - 1 - 1 + 1 : left[j] = s[1 + j - 1]
      BY <2>1, SubSeqProperties
    <2>3. QED
      BY <2>2
  <1>3. /\ right \in Seq(S) /\ Len(right) = Len(s) - i
        /\ \A j \in 1 .. Len(s) - i : right[j] = s[i + j]
    <2>1. \A j \in i + 1 .. Len(s) : s[j] \in S
      BY <1>1
    <2>2. /\ right \in Seq(S) /\ Len(right) = IF i + 1 <= Len(s) THEN Len(s) - (i + 1) + 1 ELSE 0
          /\ \A j \in 1 .. Len(s) - (i + 1) + 1 : right[j] = s[i + 1 + j - 1]
      BY <2>1, SubSeqProperties
    <2>3. QED
      BY <2>2
  <1>4. RemoveAt(s, i) = left \o right
    BY DEF RemoveAt
  <1> HIDE DEF left, right
  <1>5. /\ left \o right \in Seq(S) /\ Len(left \o right) = Len(left) + Len(right)
        /\ \A j \in 1 .. Len(left) + Len(right) :
             (left \o right)[j] = IF j <= Len(left) THEN left[j] ELSE right[j - Len(left)]
    BY <1>2, <1>3, ConcatProperties
  <1>6. RemoveAt(s, i) \in Seq(S) /\ Len(RemoveAt(s, i)) = Len(s) - 1
    BY <1>2, <1>3, <1>4, <1>5
  <1>7. ASSUME NEW j \in 1 .. Len(s) - 1
        PROVE  RemoveAt(s, i)[j] = IF j < i THEN s[j] ELSE s[j + 1]
    <2>1. RemoveAt(s, i)[j] = IF j <= i - 1 THEN left[j] ELSE right[j - (i - 1)]
      BY <1>2, <1>3, <1>4, <1>5
    <2>2. j < i => left[j] = s[j]
      BY <1>2
    <2>3. ~(j < i) => right[j - (i - 1)] = s[j + 1]
      <3>1. SUFFICES ASSUME ~(j < i) PROVE right[j - (i - 1)] = s[j + 1]
        OBVIOUS
      <3>2. j - (i - 1) \in 1 .. Len(s) - i /\ i + (j - (i - 1)) = j + 1
        BY <3>1
      <3>3. QED
        BY <1>3, <3>2
    <2>4. QED
      BY <2>1, <2>2, <2>3
  <1>8. QED
    BY <1>6, <1>7

LEMMA Inserted ==
  ASSUME NEW S, NEW s \in Seq(S), NEW i \in 1 .. Len(s) + 1, NEW e \in S
  PROVE  /\ InsertAt(s, i, e) \in Seq(S) /\ Len(InsertAt(s, i, e)) = Len(s) + 1
         /\ \A j \in 1 .. Len(s) + 1 :
              InsertAt(s, i, e)[j] = IF j < i THEN s[j] ELSE IF j = i THEN e ELSE s[j - 1]
  <1> DEFINE left == SubSeq(s, 1, i - 1)
             right == SubSeq(s, i, Len(s))
             start == left \o <<e>>
  <1>1. \A j \in 1 .. Len(s) : s[j] \in S
    OBVIOUS
  <1>2. /\ left \in Seq(S) /\ Len(left) = i - 1
        /\ \A j \in 1 .. i - 1 : left[j] = s[j]
    <2>1. \A j \in 1 .. i - 1 : s[j] \in S
      BY <1>1
    <2>2. /\ left \in Seq(S) /\ Len(left) = IF 1 <= i - 1 THEN i - 1 - 1 + 1 ELSE 0
          /\ \A j \in 1 .. i - 1 - 1 + 1 : left[j] = s[1 + j - 1]
      BY <2>1, SubSeqProperties
    <2>3. QED
      BY <2>2
  <1>3. /\ right \in Seq(S) /\ Len(right) = Len(s) - i + 1
        /\ \A j \in 1 .. Len(s) - i + 1 : right[j] = s[i + j - 1]
    <2>1. \A j \in i .. Len(s) : s[j] \in S
      BY <1>1
    <2>2. /\ right \in Seq(S) /\ Len(right) = IF i <= Len(s) THEN Len(s) - i + 1 ELSE 0
          /\ \A j \in 1 .. Len(s) - i + 1 : right[j] = s[i + j - 1]
      BY <2>1, SubSeqProperties
    <2>3. QED
      BY <2>2
  <1>4. InsertAt(s, i, e) = start \o right
    BY DEF InsertAt
  <1>5. <<e>> \in Seq(S) /\ Len(<<e>>) = 1 /\ <<e>>[1] = e
    OBVIOUS
  <1> HIDE DEF left, right
  <1>6. /\ start \in Seq(S) /\ Len(start) = i
        /\ \A j \in 1 .. i : start[j] = IF j < i THEN s[j] ELSE e
    <2>1. /\ start \in Seq(S) /\ Len(start) = Len(left) + Len(<<e>>)
          /\ \A j \in 1 .. Len(left) + Len(<<e>>) :
               start[j] = IF j <= Len(left) THEN left[j] ELSE <<e>>[j - Len(left)]
      BY <1>2, <1>5, ConcatProperties
    <2>2. start \in Seq(S) /\ Len(start) = i
      BY <1>2, <1>5, <2>1
    <2>3. ASSUME NEW j \in 1 .. i PROVE start[j] = IF j < i THEN s[j] ELSE e
      <3>1. start[j] = IF j <= i - 1 THEN left[j] ELSE <<e>>[j - (i - 1)]
        BY <1>2, <1>5, <2>1
      <3>2. CASE j < i
        <4>1. j \in 1 .. i - 1 /\ j <= i - 1
          BY <3>2
        <4>2. start[j] = left[j] /\ left[j] = s[j]
          BY <1>2, <3>1, <4>1
        <4>3. QED
          BY <3>2, <4>2
      <3>3. CASE ~(j < i)
        <4>1. ~(j <= i - 1) /\ j - (i - 1) = 1
          BY <3>3
        <4>2. start[j] = <<e>>[1]
          BY <3>1, <4>1
        <4>3. QED
          BY <1>5, <3>3, <4>2
      <3>4. QED
        BY <3>2, <3>3
    <2>4. QED
      BY <2>2, <2>3
  <1> HIDE DEF start
  <1>7. /\ start \o right \in Seq(S) /\ Len(start \o right) = Len(start) + Len(right)
        /\ \A j \in 1 .. Len(start) + Len(right) :
             (start \o right)[j] = IF j <= Len(start) THEN start[j] ELSE right[j - Len(start)]
    BY <1>3, <1>6, ConcatProperties
  <1>8. InsertAt(s, i, e) \in Seq(S) /\ Len(InsertAt(s, i, e)) = Len(s) + 1
    BY <1>3, <1>4, <1>6, <1>7
  <1>9. ASSUME NEW j \in 1 .. Len(s) + 1
        PROVE  InsertAt(s, i, e)[j] = IF j < i THEN s[j] ELSE IF j = i THEN e ELSE s[j - 1]
    <2>1. Len(start) = i /\ Len(start) + Len(right) = Len(s) + 1
      BY <1>3, <1>6
    <2>2. (start \o right)[j] = IF j <= i THEN start[j] ELSE right[j - i]
      BY <1>7, <2>1
    <2>3. InsertAt(s, i, e)[j] = IF j <= i THEN start[j] ELSE right[j - i]
      BY <1>4, <2>2
    <2>4. j <= i => start[j] = IF j < i THEN s[j] ELSE e
      BY <1>6
    <2>5. ASSUME ~(j <= i) PROVE right[j - i] = s[j - 1]
      <3>1. j - i \in 1 .. Len(s) - i + 1 /\ i + (j - i) - 1 = j - 1
        BY <2>5
      <3>2. QED
        BY <1>3, <3>1
    <2>6. QED
      BY <2>3, <2>4, <2>5
  <1>10. QED
    BY <1>8, <1>9

(* Lists without duplicates, and who is on them.                           *)
Once(list)     == \A i, j \in 1 .. Len(list) : list[i] = list[j] => i = j
Holds(list, r) == \E i \in 1 .. Len(list) : list[i] = r

LEMMA TakenAway ==
  ASSUME NEW S, NEW s \in Seq(S), NEW i \in 1 .. Len(s), Once(s)
  PROVE  /\ Once(RemoveAt(s, i))
         /\ \A r : Holds(RemoveAt(s, i), r) <=> Holds(s, r) /\ r # s[i]
  <1> DEFINE t == RemoveAt(s, i)
  <1>1. /\ t \in Seq(S) /\ Len(t) = Len(s) - 1
        /\ \A j \in 1 .. Len(s) - 1 : t[j] = IF j < i THEN s[j] ELSE s[j + 1]
    BY Removed
  <1>2. Len(s) \in Nat
    OBVIOUS
  <1> HIDE DEF t
  <1>3. Once(t)
    <2>1. SUFFICES ASSUME NEW j \in 1 .. Len(t), NEW k \in 1 .. Len(t), t[j] = t[k], j < k
                   PROVE  FALSE
      BY <1>1, <1>2 DEF Once
    <2>2. \A m, n \in 1 .. Len(s) : m < n => s[m] # s[n]
      BY DEF Once
    <2>3. CASE k < i
      <3>1. t[j] = s[j] /\ t[k] = s[k] /\ j \in 1 .. Len(s) /\ k \in 1 .. Len(s)
        BY <1>1, <1>2, <2>1, <2>3
      <3>2. QED
        BY <2>1, <2>2, <3>1
    <2>4. CASE ~ (k < i) /\ j < i
      <3>1. t[j] = s[j] /\ t[k] = s[k + 1] /\ j \in 1 .. Len(s) /\ k + 1 \in 1 .. Len(s) /\ j < k + 1
        BY <1>1, <1>2, <2>1, <2>4
      <3>2. QED
        BY <2>1, <2>2, <3>1
    <2>5. CASE ~ (k < i) /\ ~ (j < i)
      <3>1. /\ t[j] = s[j + 1] /\ t[k] = s[k + 1]
            /\ j + 1 \in 1 .. Len(s) /\ k + 1 \in 1 .. Len(s) /\ j + 1 < k + 1
        BY <1>1, <1>2, <2>1, <2>5
      <3>2. QED
        BY <2>1, <2>2, <3>1
    <2>6. QED
      BY <2>3, <2>4, <2>5
  <1>4. ASSUME NEW r, Holds(t, r) PROVE Holds(s, r) /\ r # s[i]
    <2>1. PICK j \in 1 .. Len(t) : t[j] = r
      BY <1>4 DEF Holds
    <2>2. CASE j < i
      BY <1>1, <1>2, <2>1, <2>2 DEF Holds, Once
    <2>3. CASE ~ (j < i)
      BY <1>1, <1>2, <2>1, <2>3 DEF Holds, Once
    <2>4. QED
      BY <2>2, <2>3
  <1>5. ASSUME NEW r, Holds(s, r), r # s[i] PROVE Holds(t, r)
    <2>1. PICK j \in 1 .. Len(s) : s[j] = r
      BY <1>5 DEF Holds
    <2>2. CASE j < i
      <3>1. j \in 1 .. Len(t) /\ t[j] = s[j]
        BY <1>1, <1>2, <2>2
      <3>2. QED
        BY <2>1, <3>1 DEF Holds
    <2>3. CASE j > i
      <3>1. j - 1 \in 1 .. Len(t) /\ ~ (j - 1 < i) /\ (j - 1) + 1 = j
        BY <1>1, <1>2, <2>3
      <3>2. t[j - 1] = s[j]
        BY <1>1, <3>1
      <3>3. QED
        BY <2>1, <3>1, <3>2 DEF Holds
    <2>4. QED
      BY <1>2, <1>5, <2>1, <2>2, <2>3
  <1>6. QED
    BY <1>3, <1>4, <1>5 DEF t

-----------------------------------------------------------------------------
(* The reaper's control.                                                   *)
ReaperTypes ==
  /\ running \in BOOLEAN /\ slot \in Reapers \cup {NoReaper} /\ told \subseteq Reapers
  /\ starting \in [Reapers -> {"idle", "won", "spawned", "returned"}]
  /\ handle \in [Reapers -> {"none", "held", "joining", "clearing", "flag", "gone"}]
  /\ loop \in [Reapers -> {"none", "waiting", "sweeping", "over"}]
  /\ stopper \in {"idle", "taken"}

Untold(r)  == Reaping!Live(r) /\ r \notin told
NoneUntold == \A r \in Reapers : ~Untold(r)
Starts(r)  == starting[r] \in {"won", "spawned"}
Stops(r)   == handle[r] \in {"joining", "clearing", "flag"}

(* The control calls exclude each other.                                   *)
OneControl ==
  /\ stopper = "taken" => \A r \in Reapers : ~Starts(r) /\ ~Stops(r)
  /\ \A r, q \in Reapers : (Starts(r) \/ Stops(r)) /\ (Starts(q) \/ Stops(q)) => r = q

(* How far a loop is, by the call that started it and by its handle.       *)
LoopsFollow ==
  \A r \in Reapers :
    /\ starting[r] \in {"idle", "won"} => loop[r] = "none"
    /\ starting[r] # "returned" => handle[r] = "none" /\ r \notin told /\ slot # r
    /\ starting[r] = "spawned" => loop[r] # "none"
    /\ handle[r] # "none" => loop[r] # "none"
    /\ loop[r] = "over" => r \in told

(* Where no loop may be untold: between the flag that is won and the loop, *)
(* and from a signal on until the flag is cleared.                         *)
Quiet ==
  /\ stopper = "taken" => NoneUntold
  /\ \A r \in Reapers : starting[r] = "won" => running /\ NoneUntold
  /\ \A r \in Reapers : Stops(r) => NoneUntold

TheOne ==
  \A r \in Reapers : Untold(r) =>
    /\ running
    /\ starting[r] = "returned" => slot = r
    /\ \A q \in Reapers : Untold(q) => q = r

ReaperInv == ReaperTypes /\ OneControl /\ LoopsFollow /\ Quiet /\ TheOne

LEMMA StartingKeeps ==
  ASSUME Disciplined, ReaperInv, NEW r \in Reapers,
         Reaping!StartReaper(r) \/ Reaping!SpawnLoop(r) \/ Reaping!StoreSender(r)
  PROVE  ReaperInv'
  <1> USE ReaperAssumption DEF ReaperInv, ReaperTypes, OneControl, LoopsFollow, Quiet, TheOne, NoneUntold, Untold, Reaping!Live, Starts, Stops
  <1>1. CASE Reaping!StartReaper(r)
    BY <1>1 DEF Reaping!StartReaper, Reaping!Calm
  <1>2. CASE Reaping!SpawnLoop(r)
    BY <1>2 DEF Reaping!SpawnLoop
  <1>3. CASE Reaping!StoreSender(r)
    BY <1>3 DEF Reaping!StoreSender
  <1>4. QED
    BY <1>1, <1>2, <1>3

LEMMA StoppingKeeps ==
  ASSUME Disciplined, ReaperInv, Reaping!StopReaper \/ Reaping!StopReaperClears
  PROVE  ReaperInv'
  <1> USE ReaperAssumption DEF ReaperInv, ReaperTypes, OneControl, LoopsFollow, Quiet, TheOne, NoneUntold, Untold, Reaping!Live, Starts, Stops
  <1>1. CASE Reaping!StopReaper
    BY <1>1 DEF Reaping!StopReaper, Reaping!Calm
  <1>2. CASE Reaping!StopReaperClears
    BY <1>2 DEF Reaping!StopReaperClears
  <1>3. QED
    BY <1>1, <1>2

LEMMA HandleKeeps ==
  ASSUME Disciplined, ReaperInv, NEW r \in Reapers,
         Reaping!HandleStop(r) \/ Reaping!HandleJoined(r) \/ Reaping!HandleTakesSlot(r) \/ Reaping!HandleClears(r) \/ Reaping!DropHandle(r)
  PROVE  ReaperInv'
  <1> USE ReaperAssumption DEF ReaperInv, ReaperTypes, OneControl, LoopsFollow, Quiet, TheOne, NoneUntold, Untold, Reaping!Live, Starts, Stops
  <1>1. CASE Reaping!HandleStop(r)
    BY <1>1 DEF Reaping!HandleStop, Reaping!Calm
  <1>2. CASE Reaping!HandleJoined(r)
    BY <1>2 DEF Reaping!HandleJoined
  <1>3. CASE Reaping!HandleTakesSlot(r)
    BY <1>3 DEF Reaping!HandleTakesSlot
  <1>4. CASE Reaping!HandleClears(r)
    <2>1. NoneUntold /\ \A q \in Reapers : ~Starts(q)
      BY <1>4 DEF Reaping!HandleClears
    <2>2. ReaperTypes'
      BY <1>4 DEF Reaping!HandleClears
    <2>3. OneControl'
      BY <1>4, <2>1 DEF Reaping!HandleClears
    <2>4. LoopsFollow' /\ Quiet'
      BY <1>4, <2>1 DEF Reaping!HandleClears
    <2>5. TheOne'
      BY <1>4, <2>1 DEF Reaping!HandleClears
    <2>6. QED
      BY <2>2, <2>3, <2>4, <2>5
  <1>5. CASE Reaping!DropHandle(r)
    BY <1>5 DEF Reaping!DropHandle, Reaping!Calm
  <1>6. QED
    BY <1>1, <1>2, <1>3, <1>4, <1>5

LEMMA LoopKeeps ==
  ASSUME ReaperInv, NEW r \in Reapers, Reaping!Sweep(r) \/ Reaping!SweepEnds(r) \/ Reaping!LoopEnds(r)
  PROVE  ReaperInv'
  <1> USE ReaperAssumption DEF ReaperInv, ReaperTypes, OneControl, LoopsFollow, Quiet, TheOne, NoneUntold, Untold, Reaping!Live, Starts, Stops
  <1>1. CASE Reaping!Sweep(r)
    BY <1>1 DEF Reaping!Sweep
  <1>2. CASE Reaping!SweepEnds(r)
    BY <1>2 DEF Reaping!SweepEnds
  <1>3. CASE Reaping!LoopEnds(r)
    BY <1>3 DEF Reaping!LoopEnds
  <1>4. QED
    BY <1>1, <1>2, <1>3

LEMMA ReaperStep ==
  ASSUME Disciplined, ReaperInv, [Reaping!Next]_reaperVars
  PROVE  ReaperInv'
  <1>1. CASE UNCHANGED reaperVars
    BY <1>1 DEF reaperVars, ReaperInv, ReaperTypes, OneControl, LoopsFollow, Quiet, TheOne, NoneUntold, Untold,
                Reaping!Live, Starts, Stops
  <1>2. CASE Reaping!Next
    BY <1>2, StartingKeeps, StoppingKeeps, HandleKeeps, LoopKeeps DEF Reaping!Next
  <1>3. QED
    BY <1>1, <1>2

(* Under the discipline of one control call at a time there is at most one *)
(* untold reaper, which stop_reaper reaches through the slot.              *)
THEOREM AtMostOneReaper ==
  ASSUME Disciplined
  PROVE  Spec => []OneReaper
  <1> DEFINE Kept == focus = "reaper" => ReaperInv
  <1>1. Init => Kept
    <2>1. Reaping!Init => ReaperInv
      BY ReaperAssumption
      DEF Reaping!Init, ReaperInv, ReaperTypes, OneControl, LoopsFollow, Quiet, TheOne, NoneUntold, Untold,
          Reaping!Live, Starts, Stops
    <2>2. QED
      BY <2>1 DEF Init
  <1>2. Kept /\ [Next]_vars => Kept'
    BY OneMoves, ReaperStep
  <1>3. Kept => OneReaper
    <2>1. ReaperInv => Reaping!OneReaper
      BY DEF ReaperInv, ReaperTypes, LoopsFollow, TheOne, Reaping!OneReaper, Untold, Reaping!Live, Reaping!HasSender
    <2>2. QED
      BY <2>1 DEF OneReaper
  <1>4. QED
    <2> HIDE DEF Kept
    <2>1. QED
      BY <1>1, <1>2, <1>3, PTL DEF Spec

-----------------------------------------------------------------------------
(* The circuit of a module.                                                *)
WindowCap == IF WindowSize = 0 THEN 1 ELSE WindowSize

(* Every probe was admitted by the time the slot was last taken, or by the *)
(* time the circuit opened again.                                          *)
ProbesAdmitted ==
  /\ \A c \in BreakerCalls : probedAt[c] # NoTime => probedAt[c] <= clock
  /\ circuit = "half_open" => probeInFlight
  /\ circuit = "half_open" =>
       \A c \in BreakerCalls : probedAt[c] # NoTime => probedAt[c] <= probeStartedAt
  /\ circuit = "open" =>
       \A c \in BreakerCalls : probedAt[c] # NoTime => probedAt[c] <= openedAt

CircuitTypes ==
  /\ circuit \in {"closed", "open", "half_open"} /\ probeInFlight \in BOOLEAN
  /\ window \in Seq(BOOLEAN) /\ clock \in Nat
  /\ openedAt \in Nat \cup {NoTime} /\ probeStartedAt \in Nat \cup {NoTime}
  /\ call \in [BreakerCalls -> {"idle", "admitted", "over"}]
  /\ probedAt \in [BreakerCalls -> Nat \cup {NoTime}]
  (* a call that was not admitted is no probe                              *)
  /\ \A c \in BreakerCalls : call[c] = "idle" => probedAt[c] = NoTime

CircuitInv == CircuitTypes /\ ProbesAdmitted /\ Breaking!ProbesSpaced

(* The window is bounded: the oldest outcomes make room.                   *)
LEMMA PushBounded ==
  ASSUME window \in Seq(BOOLEAN), Len(window) <= WindowCap, NEW ok \in BOOLEAN
  PROVE  Breaking!Push(ok) \in Seq(BOOLEAN) /\ Len(Breaking!Push(ok)) <= WindowCap
  <1> USE CircuitAssumption
  <1> DEFINE kept == IF Len(window) >= WindowCap THEN Len(window) - WindowCap + 2 ELSE 1
  <1>1. Breaking!Push(ok) = Append(SubSeq(window, kept, Len(window)), ok)
    BY DEF Breaking!Push, WindowCap
  <1>2. kept \in 1..Len(window) + 1 /\ Len(window) \in Nat /\ WindowCap \in Nat
    BY DEF WindowCap
  <1>3. /\ SubSeq(window, kept, Len(window)) \in Seq(BOOLEAN)
        /\ Len(SubSeq(window, kept, Len(window))) = Len(window) - kept + 1
    <2> HIDE DEF kept
    <2>1. \A i \in kept..Len(window) : window[i] \in BOOLEAN
      BY <1>2
    <2>2. Len(SubSeq(window, kept, Len(window))) =
            IF kept <= Len(window) THEN Len(window) - kept + 1 ELSE 0
      BY <1>2, <2>1, SubSeqProperties
    <2>3. SubSeq(window, kept, Len(window)) \in Seq(BOOLEAN)
      BY <1>2, <2>1, SubSeqProperties
    <2>4. QED
      BY <1>2, <2>2, <2>3
  <1>4. Len(window) - kept + 1 < WindowCap
    <2>1. Len(window) >= WindowCap => kept = Len(window) - WindowCap + 2
      OBVIOUS
    <2>2. ~(Len(window) >= WindowCap) => kept = 1
      OBVIOUS
    <2> HIDE DEF kept
    <2>3. QED
      BY <1>2, <2>1, <2>2
  <1>5. QED
    BY <1>1, <1>2, <1>3, <1>4

(* A circuit that closes forgets its window.                               *)
LEMMA EmptyBounded == <<>> \in Seq(BOOLEAN) /\ Len(<<>>) <= WindowCap
  <1> USE CircuitAssumption
  <1>1. Len(<<>>) = 0 /\ <<>> \in Seq(BOOLEAN)
    OBVIOUS
  <1>2. 0 <= WindowCap
    BY DEF WindowCap
  <1>3. QED
    BY <1>1, <1>2

(* Closing the circuit, by a success or by reset, keeps the invariant.     *)
LEMMA ClosingKeeps ==
  ASSUME CircuitInv,
         circuit' = "closed", window' = <<>>, openedAt' = NoTime,
         probeInFlight' = FALSE, probeStartedAt' = NoTime,
         call' = call \/ \E c \in BreakerCalls : call' = [call EXCEPT ![c] = "over"],
         UNCHANGED <<clock, probedAt>>
  PROVE  CircuitInv'
  <1> USE CircuitAssumption
  <1>1. window' \in Seq(BOOLEAN) /\ Len(window') <= WindowCap
    BY EmptyBounded
  <1>2. CircuitTypes'
    BY <1>1 DEF CircuitInv, CircuitTypes
  <1>3. ProbesAdmitted'
    BY DEF CircuitInv, ProbesAdmitted
  <1>4. Breaking!ProbesSpaced'
    BY <1>1 DEF CircuitInv, Breaking!ProbesSpaced, WindowCap
  <1>5. QED
    BY <1>2, <1>3, <1>4 DEF CircuitInv

LEMMA CircuitStep ==
  ASSUME CircuitInv, [Breaking!Next]_moduleBreakerVars
  PROVE  CircuitInv'
  <1> USE CircuitAssumption
  <1>1. ASSUME NEW c \in BreakerCalls, Breaking!Admit(c) PROVE CircuitInv'
    BY <1>1 DEF Breaking!Admit, CircuitInv, CircuitTypes, ProbesAdmitted, Breaking!ProbesSpaced, Breaking!record
  <1>2. ASSUME NEW c \in BreakerCalls, Breaking!AdmitProbe(c) PROVE CircuitInv'
    BY <1>2 DEF Breaking!AdmitProbe, CircuitInv, CircuitTypes, ProbesAdmitted, Breaking!ProbesSpaced, Breaking!record, Breaking!Probing, Breaking!Recovers, Breaking!Reclaims, Breaking!Since
  <1>3. ASSUME NEW c \in BreakerCalls, Breaking!Reject(c) PROVE CircuitInv'
    BY <1>3 DEF Breaking!Reject, CircuitInv, CircuitTypes, ProbesAdmitted, Breaking!ProbesSpaced, Breaking!record
  <1>4. ASSUME NEW c \in BreakerCalls, Breaking!After(c) PROVE CircuitInv'
    <2>1. Breaking!Push(TRUE) \in Seq(BOOLEAN) /\ Len(Breaking!Push(TRUE)) <= WindowCap
      BY PushBounded DEF WindowCap, CircuitInv, CircuitTypes, Breaking!ProbesSpaced
    <2>2. CASE circuit = "half_open"
      <3>1. /\ circuit' = "closed" /\ window' = <<>> /\ openedAt' = NoTime
            /\ probeInFlight' = FALSE /\ probeStartedAt' = NoTime
            /\ call' = [call EXCEPT ![c] = "over"] /\ UNCHANGED <<clock, probedAt>>
        BY <1>4, <2>2 DEF Breaking!After
      <3>2. QED
        BY <3>1, ClosingKeeps
    <2>3. CASE circuit # "half_open"
      BY <1>4, <2>1, <2>3 DEF Breaking!After, WindowCap, CircuitInv, CircuitTypes, ProbesAdmitted, Breaking!ProbesSpaced
    <2>4. QED
      BY <2>2, <2>3
  <1>5. ASSUME NEW c \in BreakerCalls, Breaking!OnError(c) PROVE CircuitInv'
    <2>1. Breaking!Push(FALSE) \in Seq(BOOLEAN) /\ Len(Breaking!Push(FALSE)) <= WindowCap
      BY PushBounded DEF WindowCap, CircuitInv, CircuitTypes, Breaking!ProbesSpaced
    <2>2. window' = Breaking!Push(FALSE) /\ call' = [call EXCEPT ![c] = "over"] /\ UNCHANGED <<clock, probedAt>>
      BY <1>5 DEF Breaking!OnError
    <2>3. \/ /\ circuit' = "open" /\ openedAt' = clock
             /\ probeInFlight' = FALSE /\ probeStartedAt' = NoTime
          \/ UNCHANGED <<circuit, openedAt, probeInFlight, probeStartedAt>>
      BY <1>5 DEF Breaking!OnError
    <2>4. CircuitTypes'
      <3>1. window' \in Seq(BOOLEAN)
        BY <2>1, <2>2
      <3>2. QED
        BY <2>2, <2>3, <3>1 DEF CircuitInv, CircuitTypes
    <2>5. ProbesAdmitted'
      BY <2>2, <2>3 DEF CircuitInv, CircuitTypes, ProbesAdmitted
    <2>6. Breaking!ProbesSpaced'
      <3>1. Len(window') <= (IF WindowSize = 0 THEN 1 ELSE WindowSize)
        BY <2>1, <2>2 DEF WindowCap
      <3>2. /\ circuit' = "open" => openedAt' # NoTime
            /\ probeInFlight' => circuit' = "half_open" /\ probeStartedAt' # NoTime
        BY <2>2, <2>3 DEF CircuitInv, CircuitTypes, Breaking!ProbesSpaced
      <3>3. QED
        BY <2>2, <3>1, <3>2 DEF CircuitInv, Breaking!ProbesSpaced
    <2>7. QED
      BY <2>4, <2>5, <2>6 DEF CircuitInv
  <1>6. ASSUME NEW c \in BreakerCalls, Breaking!Dropped(c) PROVE CircuitInv'
    BY <1>6 DEF Breaking!Dropped, CircuitInv, CircuitTypes, ProbesAdmitted, Breaking!ProbesSpaced, Breaking!record
  <1>7. CASE Breaking!Reset
    BY <1>7, ClosingKeeps DEF Breaking!Reset
  <1>8. CASE Breaking!Tick
    BY <1>8 DEF Breaking!Tick, CircuitInv, CircuitTypes, ProbesAdmitted, Breaking!ProbesSpaced, Breaking!record
  <1>9. CASE UNCHANGED moduleBreakerVars
    BY <1>9 DEF moduleBreakerVars, CircuitInv, CircuitTypes, ProbesAdmitted, Breaking!ProbesSpaced, Breaking!record
  <1>10. QED
    BY <1>1, <1>2, <1>3, <1>4, <1>5, <1>6, <1>7, <1>8, <1>9 DEF Breaking!Next

LEMMA CircuitStarts ==
  ASSUME Breaking!Init
  PROVE  CircuitInv
  <1> USE CircuitAssumption
  <1>1. CircuitTypes
    BY EmptyBounded DEF Breaking!Init, CircuitTypes
  <1>2. ProbesAdmitted
    BY DEF Breaking!Init, ProbesAdmitted
  <1>3. Breaking!ProbesSpaced
    BY EmptyBounded DEF Breaking!Init, Breaking!ProbesSpaced, WindowCap
  <1>4. QED
    BY <1>1, <1>2, <1>3 DEF CircuitInv

-----------------------------------------------------------------------------
(* The circuit of a subscriber.                                            *)
(* A failure that was counted carries the time it read; one that has       *)
(* stamped the circuit stays known, for no step erases the time.           *)
WrapperInv ==
  /\ time \in Nat /\ consecutiveFailures \in Nat
  /\ delivery \in [BreakerEvents ->
       {"idle", "look", "calling", "stamp", "decide", "announce_opened", "announce_closed", "over"}]
  /\ newCount \in [BreakerEvents -> Nat] /\ failedAt \in [BreakerEvents -> Nat \cup {Never}]
  /\ \A e \in BreakerEvents :
       delivery[e] \in {"stamp", "decide"} => failedAt[e] # Never /\ newCount[e] > 0
  /\ Guarding!OpenRecovers

LEMMA WrapperStep ==
  ASSUME WrapperInv, [Guarding!Next]_subscriberBreakerVars
  PROVE  WrapperInv'
  <1> USE WrapperAssumption DEF WrapperInv, Guarding!OpenRecovers, Guarding!Goto, Guarding!cells
  <1>1. ASSUME NEW e \in BreakerEvents, Guarding!CheckRecovery(e) PROVE WrapperInv'
    BY <1>1 DEF Guarding!CheckRecovery
  <1>2. ASSUME NEW e \in BreakerEvents, Guarding!Look(e) PROVE WrapperInv'
    BY <1>2 DEF Guarding!Look
  <1>3. ASSUME NEW e \in BreakerEvents, Guarding!Succeeds(e) PROVE WrapperInv'
    BY <1>3 DEF Guarding!Succeeds
  <1>4. ASSUME NEW e \in BreakerEvents, Guarding!Fails(e) PROVE WrapperInv'
    BY <1>4 DEF Guarding!Fails
  <1>5. ASSUME NEW e \in BreakerEvents, Guarding!Stamp(e) PROVE WrapperInv'
    BY <1>5 DEF Guarding!Stamp
  <1>6. ASSUME NEW e \in BreakerEvents, Guarding!Decide(e) PROVE WrapperInv'
    BY <1>6 DEF Guarding!Decide, Guarding!Opens
  <1>7. ASSUME NEW e \in BreakerEvents, Guarding!Announce(e) PROVE WrapperInv'
    BY <1>7 DEF Guarding!Announce
  <1>8. CASE Guarding!Tick
    BY <1>8 DEF Guarding!Tick
  <1>9. CASE UNCHANGED subscriberBreakerVars
    BY <1>9 DEF subscriberBreakerVars
  <1>10. QED
    BY <1>1, <1>2, <1>3, <1>4, <1>5, <1>6, <1>7, <1>8, <1>9 DEF Guarding!Next

(* However late the outcomes of earlier calls arrive: a failing module     *)
(* gets at most one probe per recovery window and its circuit is never     *)
(* stuck; and an open subscriber circuit knows when it failed, so that     *)
(* check_recovery can let it out.                                          *)
THEOREM CircuitsRecover == Spec => []BreakersRecover
  <1> DEFINE Kept == /\ focus = "module breaker" => CircuitInv
                     /\ focus = "subscriber breaker" => WrapperInv
  <1>1. Init => Kept
    <2>1. Guarding!Init => WrapperInv
      BY DEF Guarding!Init, WrapperInv, Guarding!OpenRecovers
    <2>2. QED
      BY <2>1, CircuitStarts DEF Init
  <1>2. Kept /\ [Next]_vars => Kept'
    BY OneMoves, CircuitStep, WrapperStep
  <1>3. Kept => BreakersRecover
    BY DEF BreakersRecover, CircuitInv, WrapperInv
  <1>4. QED
    <2> HIDE DEF Kept
    <2>1. QED
      BY <1>1, <1>2, <1>3, PTL DEF Spec

-----------------------------------------------------------------------------
(* The registrations of MiddlewareManager.                                 *)

(* A set of naturals that is not empty has a least element.                *)
LEMMA LeastExists ==
  ASSUME NEW T \in SUBSET Nat, T # {}
  PROVE  \E i \in T : \A j \in T : i <= j
  <1>1. PICK i \in T : \A j \in T : ~ (<<j, i>> \in OpToRel(<, Nat))
    BY WFMin, NatLessThanWellFounded
  <1>2. ASSUME NEW j \in T PROVE i <= j
    <2>1. ~ (j < i)
      BY <1>1 DEF OpToRel
    <2>2. QED
      BY <2>1
  <1>3. QED
    BY <1>2

(* What the entries of a list of registrations say.                        *)
IdentitiesOf(list) == [i \in 1 .. Len(list) |-> IdentityOf[list[i]]]
Sorted(list) == \A i, j \in 1 .. Len(list) : i < j => PriorityOf[list[i]] >= PriorityOf[list[j]]
Fits(list, i, r) == \A j \in 1 .. Len(list) : IF j < i THEN PriorityOf[list[j]] >= PriorityOf[r]
                                              ELSE PriorityOf[list[j]] < PriorityOf[r]
Identities == {IdentityOf[r] : r \in Registrations}

LEMMA IdentitiesAre ==
  ASSUME NEW s \in Seq(Registrations)
  PROVE  /\ IdentitiesOf(s) \in Seq(Identities) /\ Len(IdentitiesOf(s)) = Len(s)
         /\ \A i \in 1 .. Len(s) : IdentitiesOf(s)[i] = IdentityOf[s[i]]
  BY DEF IdentitiesOf, Identities

(* An entry taken out of a list is out of it, and out of its identities.   *)
LEMMA TakenOut ==
  ASSUME NEW s \in Seq(Registrations), NEW i \in 1 .. Len(s), Once(s), Sorted(s)
  PROVE  /\ RemoveAt(s, i) \in Seq(Registrations) /\ Once(RemoveAt(s, i)) /\ Sorted(RemoveAt(s, i))
         /\ \A r : Holds(RemoveAt(s, i), r) <=> Holds(s, r) /\ r # s[i]
         /\ IdentitiesOf(RemoveAt(s, i)) = RemoveAt(IdentitiesOf(s), i)
  <1> DEFINE t == RemoveAt(s, i)
  <1>1. /\ t \in Seq(Registrations) /\ Len(t) = Len(s) - 1
        /\ \A j \in 1 .. Len(s) - 1 : t[j] = IF j < i THEN s[j] ELSE s[j + 1]
    BY Removed
  <1>2. Len(s) \in Nat /\ \A j \in 1 .. Len(s) : s[j] \in Registrations
    OBVIOUS
  <1>3. IdentitiesOf(t) = RemoveAt(IdentitiesOf(s), i)
    <2> DEFINE u == RemoveAt(IdentitiesOf(s), i)
    <2>1. /\ IdentitiesOf(s) \in Seq(Identities) /\ Len(IdentitiesOf(s)) = Len(s)
          /\ \A j \in 1 .. Len(s) : IdentitiesOf(s)[j] = IdentityOf[s[j]]
      BY IdentitiesAre
    <2>2. /\ u \in Seq(Identities) /\ Len(u) = Len(s) - 1
          /\ \A j \in 1 .. Len(s) - 1 : u[j] = IF j < i THEN IdentitiesOf(s)[j] ELSE IdentitiesOf(s)[j + 1]
      BY <2>1, Removed
    <2> HIDE DEF t, u
    <2>3. /\ IdentitiesOf(t) \in Seq(Identities) /\ Len(IdentitiesOf(t)) = Len(t)
          /\ \A j \in 1 .. Len(t) : IdentitiesOf(t)[j] = IdentityOf[t[j]]
      BY <1>1, IdentitiesAre
    <2>4. ASSUME NEW j \in 1 .. Len(IdentitiesOf(t)) PROVE IdentitiesOf(t)[j] = u[j]
      <3>1. j \in 1 .. Len(s) - 1 /\ j \in 1 .. Len(s) /\ j + 1 \in 1 .. Len(s)
        BY <1>1, <1>2, <2>3
      <3>2. IdentitiesOf(t)[j] = IdentityOf[IF j < i THEN s[j] ELSE s[j + 1]]
        BY <1>1, <2>3, <3>1
      <3>3. u[j] = IF j < i THEN IdentityOf[s[j]] ELSE IdentityOf[s[j + 1]]
        BY <2>1, <2>2, <3>1
      <3>4. QED
        BY <3>2, <3>3
    <2>5. Len(IdentitiesOf(t)) = Len(u)
      BY <1>1, <2>2, <2>3
    <2>6. IdentitiesOf(t) = u
      BY <2>2, <2>3, <2>4, <2>5, SeqEqual
    <2>7. QED
      BY <2>6 DEF t, u
  <1> HIDE DEF t
  <1>4. Once(t) /\ \A r : Holds(t, r) <=> Holds(s, r) /\ r # s[i]
    BY TakenAway DEF t
  <1>5. Sorted(t)
    BY <1>1, <1>2 DEF Sorted
  <1>6. QED
    BY <1>1, <1>3, <1>4, <1>5 DEF t

(* A registration put before the first of a lower priority keeps the order *)
(* of the list, and its identity has the same place.                       *)
LEMMA PutIn ==
  ASSUME NEW s \in Seq(Registrations), NEW i \in 1 .. Len(s) + 1, NEW r \in Registrations,
         Once(s), Sorted(s), ~ Holds(s, r), Fits(s, i, r)
  PROVE  /\ InsertAt(s, i, r) \in Seq(Registrations)
         /\ Once(InsertAt(s, i, r)) /\ Sorted(InsertAt(s, i, r))
         /\ \A q : Holds(InsertAt(s, i, r), q) <=> Holds(s, q) \/ q = r
         /\ IdentitiesOf(InsertAt(s, i, r)) = InsertAt(IdentitiesOf(s), i, IdentityOf[r])
  <1> DEFINE t == InsertAt(s, i, r)
  <1>1. /\ t \in Seq(Registrations) /\ Len(t) = Len(s) + 1
        /\ \A j \in 1 .. Len(s) + 1 : t[j] = IF j < i THEN s[j] ELSE IF j = i THEN r ELSE s[j - 1]
    <2>1. InsertAt(s, i, r) \in Seq(Registrations) /\ Len(InsertAt(s, i, r)) = Len(s) + 1
      BY Inserted
    <2>2. \A j \in 1 .. Len(s) + 1 :
            InsertAt(s, i, r)[j] = IF j < i THEN s[j] ELSE IF j = i THEN r ELSE s[j - 1]
      <3>1. ASSUME NEW S, NEW u \in Seq(S), NEW e \in S, NEW n \in 1 .. Len(u) + 1
            PROVE  \A j \in 1 .. Len(u) + 1 :
                     InsertAt(u, n, e)[j] = IF j < n THEN u[j] ELSE IF j = n THEN e ELSE u[j - 1]
        BY Inserted
      <3>2. QED
        BY <3>1
    <2>3. QED
      BY <2>1, <2>2
  <1>2. Len(s) \in Nat /\ \A j \in 1 .. Len(s) : s[j] \in Registrations
    OBVIOUS
  <1>3. IdentitiesOf(t) = InsertAt(IdentitiesOf(s), i, IdentityOf[r])
    <2> DEFINE u == InsertAt(IdentitiesOf(s), i, IdentityOf[r])
    <2>1. /\ IdentitiesOf(s) \in Seq(Identities) /\ Len(IdentitiesOf(s)) = Len(s)
          /\ \A j \in 1 .. Len(s) : IdentitiesOf(s)[j] = IdentityOf[s[j]]
      BY IdentitiesAre
    <2>2. IdentityOf[r] \in Identities /\ i \in 1 .. Len(IdentitiesOf(s)) + 1
      BY <2>1 DEF Identities
    <2> DEFINE v == IdentitiesOf(s)
               e == IdentityOf[r]
    <2>3. v \in Seq(Identities) /\ i \in 1 .. Len(v) + 1 /\ e \in Identities
      BY <2>1, <2>2
    <2> HIDE DEF v, e, Identities
    <2>4. /\ InsertAt(v, i, e) \in Seq(Identities) /\ Len(InsertAt(v, i, e)) = Len(v) + 1
          /\ \A j \in 1 .. Len(v) + 1 :
               InsertAt(v, i, e)[j] = IF j < i THEN v[j] ELSE IF j = i THEN e ELSE v[j - 1]
      BY <2>3, Inserted
    <2>5. /\ u \in Seq(Identities) /\ Len(u) = Len(s) + 1
          /\ \A j \in 1 .. Len(s) + 1 :
               u[j] = IF j < i THEN IdentitiesOf(s)[j]
                      ELSE IF j = i THEN IdentityOf[r] ELSE IdentitiesOf(s)[j - 1]
      BY <2>1, <2>4 DEF v, e
    <2> HIDE DEF t, u
    <2>6. /\ IdentitiesOf(t) \in Seq(Identities) /\ Len(IdentitiesOf(t)) = Len(t)
          /\ \A j \in 1 .. Len(t) : IdentitiesOf(t)[j] = IdentityOf[t[j]]
      BY <1>1, IdentitiesAre
    <2>7. ASSUME NEW j \in 1 .. Len(IdentitiesOf(t)) PROVE IdentitiesOf(t)[j] = u[j]
      <3>1. j \in 1 .. Len(s) + 1
        BY <1>1, <2>6
      <3>2. /\ j < i => IdentitiesOf(s)[j] = IdentityOf[s[j]]
            /\ j > i => IdentitiesOf(s)[j - 1] = IdentityOf[s[j - 1]]
        BY <1>2, <2>1, <3>1
      <3>3. IdentitiesOf(t)[j] = IdentityOf[t[j]] /\ t[j] = IF j < i THEN s[j] ELSE IF j = i THEN r ELSE s[j - 1]
        BY <1>1, <2>6, <3>1
      <3>4. u[j] = IF j < i THEN IdentitiesOf(s)[j] ELSE IF j = i THEN IdentityOf[r] ELSE IdentitiesOf(s)[j - 1]
        BY <2>5, <3>1
      <3>5. CASE j < i
        BY <3>2, <3>3, <3>4, <3>5
      <3>6. CASE j = i
        BY <3>3, <3>4, <3>6
      <3>7. CASE j > i
        BY <3>2, <3>3, <3>4, <3>7
      <3>8. QED
        BY <1>2, <3>1, <3>5, <3>6, <3>7
    <2>8. Len(IdentitiesOf(t)) = Len(u)
      BY <1>1, <2>5, <2>6
    <2>9. IdentitiesOf(t) = u
      BY <2>5, <2>6, <2>7, <2>8, SeqEqual
    <2>10. QED
      BY <2>9 DEF t, u
  <1> HIDE DEF t
  <1>4. Once(t)
    <2>1. SUFFICES ASSUME NEW j \in 1 .. Len(t), NEW k \in 1 .. Len(t), t[j] = t[k], j < k
                   PROVE  FALSE
      BY <1>1, <1>2 DEF Once
    <2>2. /\ \A m \in 1 .. Len(s) : s[m] # r
          /\ \A m, n \in 1 .. Len(s) : m < n => s[m] # s[n]
      BY DEF Holds, Once
    <2>3. CASE k < i
      BY <1>1, <1>2, <2>1, <2>3 DEF Once
    <2>4. CASE k = i
      BY <1>1, <1>2, <2>1, <2>2, <2>4
    <2>5. CASE k > i /\ j = i
      <3>1. t[j] = r /\ t[k] = s[k - 1] /\ k - 1 \in 1 .. Len(s)
        BY <1>1, <1>2, <2>1, <2>5
      <3>2. QED
        BY <2>1, <2>2, <3>1
    <2>6. CASE k > i /\ j < i
      <3>1. t[j] = s[j] /\ t[k] = s[k - 1] /\ j \in 1 .. Len(s) /\ k - 1 \in 1 .. Len(s) /\ j < k - 1
        BY <1>1, <1>2, <2>1, <2>6
      <3>2. QED
        BY <2>1, <2>2, <3>1
    <2>7. CASE k > i /\ j > i
      <3>1. /\ t[j] = s[j - 1] /\ t[k] = s[k - 1]
            /\ j - 1 \in 1 .. Len(s) /\ k - 1 \in 1 .. Len(s) /\ j - 1 < k - 1
        BY <1>1, <1>2, <2>1, <2>7
      <3>2. QED
        BY <2>1, <2>2, <3>1
    <2>8. QED
      BY <1>1, <1>2, <2>1, <2>3, <2>4, <2>5, <2>6, <2>7
  <1>5. Sorted(t)
    <2>1. SUFFICES ASSUME NEW j \in 1 .. Len(t), NEW k \in 1 .. Len(t), j < k
                   PROVE  PriorityOf[t[j]] >= PriorityOf[t[k]]
      BY DEF Sorted
    <2>2. \A q \in Registrations : PriorityOf[q] \in Nat
      BY PriorityAssumption
    <2>3. \A m \in 1 .. Len(s) : /\ m < i => PriorityOf[s[m]] >= PriorityOf[r]
                                 /\ ~ (m < i) => PriorityOf[r] >= PriorityOf[s[m]]
      BY <1>2, <2>2 DEF Fits
    <2>4. \A m, n \in 1 .. Len(s) : m < n => PriorityOf[s[m]] >= PriorityOf[s[n]]
      BY DEF Sorted
    <2>5. CASE k < i
      <3>1. t[j] = s[j] /\ t[k] = s[k] /\ j \in 1 .. Len(s) /\ k \in 1 .. Len(s)
        BY <1>1, <1>2, <2>1, <2>5
      <3>2. QED
        BY <2>1, <2>4, <3>1
    <2>6. CASE k = i
      <3>1. t[j] = s[j] /\ t[k] = r /\ j \in 1 .. Len(s) /\ j < i
        BY <1>1, <1>2, <2>1, <2>6
      <3>2. QED
        BY <2>3, <3>1
    <2>7. CASE k > i /\ j = i
      <3>1. t[j] = r /\ t[k] = s[k - 1] /\ k - 1 \in 1 .. Len(s) /\ ~ (k - 1 < i)
        BY <1>1, <1>2, <2>1, <2>7
      <3>2. QED
        BY <2>3, <3>1
    <2>8. CASE k > i /\ j < i
      <3>1. t[j] = s[j] /\ t[k] = s[k - 1] /\ j \in 1 .. Len(s) /\ k - 1 \in 1 .. Len(s) /\ j < k - 1
        BY <1>1, <1>2, <2>1, <2>8
      <3>2. QED
        BY <2>4, <3>1
    <2>9. CASE k > i /\ j > i
      <3>1. /\ t[j] = s[j - 1] /\ t[k] = s[k - 1]
            /\ j - 1 \in 1 .. Len(s) /\ k - 1 \in 1 .. Len(s) /\ j - 1 < k - 1
        BY <1>1, <1>2, <2>1, <2>9
      <3>2. QED
        BY <2>4, <3>1
    <2>10. QED
      BY <1>1, <1>2, <2>1, <2>5, <2>6, <2>7, <2>8, <2>9
  <1>6. ASSUME NEW q, Holds(t, q) PROVE Holds(s, q) \/ q = r
    <2>1. PICK j \in 1 .. Len(t) : t[j] = q
      BY <1>6 DEF Holds
    <2>2. CASE j < i
      BY <1>1, <1>2, <2>1, <2>2 DEF Holds
    <2>3. CASE j > i
      <3>1. j - 1 \in 1 .. Len(s) /\ ~ (j < i) /\ j # i
        BY <1>1, <1>2, <2>3
      <3>2. t[j] = s[j - 1]
        BY <1>1, <3>1
      <3>3. QED
        BY <2>1, <3>1, <3>2 DEF Holds
    <2>4. QED
      BY <1>1, <1>2, <2>1, <2>2, <2>3
  <1>7. Holds(t, r)
    BY <1>1, <1>2 DEF Holds
  <1>8. ASSUME NEW q, Holds(s, q) PROVE Holds(t, q)
    <2>1. PICK j \in 1 .. Len(s) : s[j] = q
      BY <1>8 DEF Holds
    <2>2. CASE j < i
      BY <1>1, <1>2, <2>1, <2>2 DEF Holds
    <2>3. CASE ~ (j < i)
      <3>1. j + 1 \in 1 .. Len(t) /\ ~ (j + 1 < i) /\ j + 1 # i /\ (j + 1) - 1 = j
        BY <1>1, <1>2, <2>3
      <3>2. t[j + 1] = s[j]
        BY <1>1, <3>1
      <3>3. QED
        BY <2>1, <3>1, <3>2 DEF Holds
    <2>4. QED
      BY <2>2, <2>3
  <1>9. QED
    BY <1>1, <1>3, <1>4, <1>5, <1>6, <1>7, <1>8 DEF t

LEMMA PositionFits ==
  ASSUME middlewares \in Seq(Registrations), Sorted(middlewares), NEW r \in Registrations
  PROVE  /\ Registering!Position(r) \in 1 .. Len(middlewares) + 1
         /\ Fits(middlewares, Registering!Position(r), r)
  <1> DEFINE lower == {i \in DOMAIN middlewares : PriorityOf[middlewares[i]] < PriorityOf[r]}
  <1>1. /\ DOMAIN middlewares = 1 .. Len(middlewares) /\ Len(middlewares) \in Nat
        /\ \A i \in 1 .. Len(middlewares) : middlewares[i] \in Registrations
    OBVIOUS
  <1>2. \A q \in Registrations : PriorityOf[q] \in Nat
    BY PriorityAssumption
  <1>3. Registering!Position(r) = IF lower = {} THEN Len(middlewares) + 1
                                  ELSE CHOOSE i \in lower : \A j \in lower : i <= j
    BY DEF Registering!Position
  <1>4. CASE lower = {}
    <2>1. \A j \in 1 .. Len(middlewares) : ~ (PriorityOf[middlewares[j]] < PriorityOf[r])
      BY <1>1, <1>4
    <2>2. \A j \in 1 .. Len(middlewares) : j < Len(middlewares) + 1 /\ PriorityOf[middlewares[j]] >= PriorityOf[r]
      BY <1>1, <1>2, <2>1
    <2>3. QED
      BY <1>1, <1>3, <1>4, <2>2 DEF Fits
  <1>5. CASE lower # {}
    <2>1. lower \in SUBSET Nat
      BY <1>1
    <2> DEFINE p == CHOOSE i \in lower : \A j \in lower : i <= j
    <2>2. p \in lower /\ \A j \in lower : p <= j
      <3> HIDE DEF lower
      <3>1. \E i \in lower : \A j \in lower : i <= j
        BY <1>5, <2>1, LeastExists
      <3>2. QED
        BY <3>1
    <2>3. p \in 1 .. Len(middlewares) /\ PriorityOf[middlewares[p]] < PriorityOf[r]
      BY <1>1, <2>2
    <2> HIDE DEF p
    <2>4. ASSUME NEW j \in 1 .. Len(middlewares)
          PROVE  IF j < p THEN PriorityOf[middlewares[j]] >= PriorityOf[r]
                 ELSE PriorityOf[middlewares[j]] < PriorityOf[r]
      <3>1. CASE j < p
        <4>1. j \notin lower
          BY <1>1, <2>2, <2>3, <3>1
        <4>2. ~ (PriorityOf[middlewares[j]] < PriorityOf[r])
          BY <1>1, <4>1
        <4>3. QED
          BY <1>1, <1>2, <3>1, <4>2
      <3>2. CASE j = p
        BY <2>3, <3>2
      <3>3. CASE j > p
        <4>1. PriorityOf[middlewares[p]] >= PriorityOf[middlewares[j]]
          BY <2>3, <3>3 DEF Sorted
        <4>2. QED
          BY <1>1, <1>2, <2>3, <3>3, <4>1
      <3>4. QED
        BY <2>3, <3>1, <3>2, <3>3
    <2>5. Registering!Position(r) = p
      BY <1>3, <1>5 DEF p
    <2>6. QED
      BY <1>1, <2>3, <2>4, <2>5 DEF Fits
  <1>6. QED
    BY <1>4, <1>5

Holders(where) == {IdentityOf[r] : r \in {q \in Registrations : entry[q] \in where}}

MiddlewareTypes ==
  /\ middlewares \in Seq(Registrations) /\ handleList \in Seq(Registrations)
  /\ identities \in Seq(Identities)
  /\ listLock \in {"free", "middlewares", "handles"}
  /\ entry \in [Registrations ->
       {"new", "rejected", "noted", "in", "forget_middleware", "forget_identity", "gone"}]
  /\ at \in [Registrations -> Nat]

(* One registration leaves at a time, under the lock that belongs to how   *)
(* far it is, and none is about to enter while one leaves by its handle.   *)
OneLeaves ==
  /\ \A q, r \in Registrations : Registering!Removing(q) /\ Registering!Removing(r) => q = r
  /\ \A r \in Registrations : entry[r] = "forget_middleware" => listLock = "handles"
  /\ \A r \in Registrations : entry[r] # "forget_handle"
  /\ listLock = "handles" => \E r \in Registrations : entry[r] = "forget_middleware"
  /\ listLock = "middlewares" => \E r \in Registrations : entry[r] = "forget_identity"
  /\ Registering!ByHandle => \A q \in Registrations : entry[q] # "noted"

(* The list a removal has not reached holds one entry more, at its index.  *)
ListsFollow ==
  /\ (\A r \in Registrations : entry[r] # "forget_middleware") => handleList = middlewares
  /\ (\A r \in Registrations : entry[r] # "forget_identity") => identities = IdentitiesOf(middlewares)
  /\ \A r \in Registrations : entry[r] = "forget_middleware" =>
       /\ at[r] \in 1 .. Len(middlewares) /\ middlewares[at[r]] = r
       /\ handleList = RemoveAt(middlewares, at[r])
  /\ \A r \in Registrations : entry[r] = "forget_identity" =>
       /\ at[r] \in 1 .. Len(identities) /\ identities[at[r]] = IdentityOf[r]
       /\ RemoveAt(identities, at[r]) = IdentitiesOf(middlewares)

(* Each registration that is in has one place, priorities in order.        *)
ListsHold ==
  /\ Once(handleList) /\ Once(middlewares) /\ Sorted(middlewares) /\ Sorted(handleList)
  /\ \A r \in Registrations : entry[r] = "in" <=> Holds(handleList, r)

IdentitiesHeld == registered \subseteq Holders({"noted", "in", "forget_middleware", "forget_identity"})

MiddlewareInv == MiddlewareTypes /\ OneLeaves /\ ListsFollow /\ ListsHold /\ IdentitiesHeld

LEMMA AddingKeeps ==
  ASSUME ByHandleAlone, MiddlewareInv, NEW r \in Registrations,
         Registering!Reject(r) \/ Registering!NoteIdentity(r)
  PROVE  MiddlewareInv'
  <1> USE DEF MiddlewareInv, MiddlewareTypes, OneLeaves, ListsFollow, ListsHold, IdentitiesHeld, Holders,
          Registering!Removing, Registering!ByHandle, Registering!Goto, Registering!lists
  <1>1. CASE Registering!Reject(r)
    BY <1>1 DEF Registering!Reject
  <1>2. CASE Registering!NoteIdentity(r)
    <2> USE <1>2 DEF Registering!NoteIdentity
    <2>1. MiddlewareTypes' /\ OneLeaves'
      OBVIOUS
    <2>2. ListsFollow' /\ ListsHold'
      OBVIOUS
    <2>3. IdentitiesHeld'
      OBVIOUS
    <2>4. QED
      BY <2>1, <2>2, <2>3
  <1>3. QED
    BY <1>1, <1>2

LEMMA InsertKeeps ==
  ASSUME MiddlewareInv, NEW r \in Registrations, Registering!Insert(r)
  PROVE  MiddlewareInv'
  <1> DEFINE p == Registering!Position(r)
  <1>1. /\ entry[r] = "noted" /\ listLock = "free" /\ entry' = [entry EXCEPT ![r] = "in"]
        /\ middlewares' = InsertAt(middlewares, p, r) /\ handleList' = InsertAt(handleList, p, r)
        /\ identities' = InsertAt(identities, p, IdentityOf[r])
        /\ UNCHANGED <<registered, listLock, at>>
    BY DEF Registering!Insert, Registering!Goto, Registering!InsertAt, InsertAt
  <1>2. \A q \in Registrations : ~ Registering!Removing(q)
    BY <1>1 DEF MiddlewareInv, OneLeaves, Registering!ByHandle, Registering!Removing
  <1>3. handleList = middlewares /\ identities = IdentitiesOf(middlewares)
    BY <1>2 DEF MiddlewareInv, ListsFollow, Registering!Removing
  <1>4. /\ middlewares \in Seq(Registrations) /\ Once(middlewares) /\ Sorted(middlewares)
        /\ ~ Holds(middlewares, r)
    BY <1>1, <1>3 DEF MiddlewareInv, MiddlewareTypes, ListsHold
  <1>5. p \in 1 .. Len(middlewares) + 1 /\ Fits(middlewares, p, r)
    BY <1>4, PositionFits
  <1> HIDE DEF p
  <1>6. /\ middlewares' \in Seq(Registrations) /\ Once(middlewares') /\ Sorted(middlewares')
        /\ \A q : Holds(middlewares', q) <=> Holds(middlewares, q) \/ q = r
        /\ IdentitiesOf(middlewares') = InsertAt(IdentitiesOf(middlewares), p, IdentityOf[r])
    BY <1>1, <1>4, <1>5, PutIn
  <1>7. handleList' = middlewares' /\ identities' = IdentitiesOf(middlewares)'
    BY <1>1, <1>3, <1>6 DEF IdentitiesOf
  <1>8. \A q \in Registrations : ~ Registering!Removing(q)'
    BY <1>1, <1>2 DEF Registering!Removing, MiddlewareInv, MiddlewareTypes
  <1>9. MiddlewareTypes'
    <2>1. IdentitiesOf(middlewares') \in Seq(Identities)
      BY <1>6, IdentitiesAre
    <2>2. IdentitiesOf(middlewares)' = IdentitiesOf(middlewares')
      BY DEF IdentitiesOf
    <2>3. QED
      BY <1>1, <1>6, <1>7, <2>1, <2>2 DEF MiddlewareInv, MiddlewareTypes, Identities
  <1>10. OneLeaves'
    BY <1>1, <1>8 DEF OneLeaves, Registering!Removing, Registering!ByHandle
  <1>11. ListsFollow'
    BY <1>7, <1>8 DEF ListsFollow, Registering!Removing
  <1>12. ListsHold'
    <2>1. \A q \in Registrations : entry'[q] = "in" <=> entry[q] = "in" \/ q = r
      BY <1>1 DEF MiddlewareInv, MiddlewareTypes
    <2>2. \A q \in Registrations : entry'[q] = "in" <=> Holds(middlewares', q)
      BY <1>3, <1>6, <2>1 DEF MiddlewareInv, ListsHold
    <2>3. QED
      BY <1>6, <1>7, <2>2 DEF ListsHold, Once, Sorted, Holds
  <1>13. IdentitiesHeld'
    BY <1>1 DEF IdentitiesHeld, Holders, MiddlewareInv, MiddlewareTypes
  <1>14. QED
    BY <1>9, <1>10, <1>11, <1>12, <1>13 DEF MiddlewareInv

(* A removal that has taken the middleware, and the handle, at an index.   *)
LEMMA RemoveNamedKeeps ==
  ASSUME ByHandleAlone, MiddlewareInv, NEW r \in Registrations, Registering!RemoveNamed(r)
  PROVE  MiddlewareInv'
  <1>1. PICK i \in DOMAIN middlewares :
          /\ middlewares[i] = r
          /\ middlewares' = RemoveAt(middlewares, i) /\ handleList' = RemoveAt(handleList, i)
          /\ at' = [at EXCEPT ![r] = i]
    BY DEF Registering!RemoveNamed, Registering!Named, Registering!RemoveAt, RemoveAt
  <1>2. /\ entry[r] = "in" /\ listLock = "free" /\ ~ Registering!ByHandle
        /\ listLock' = "middlewares" /\ entry' = [entry EXCEPT ![r] = "forget_identity"]
        /\ identities' = identities /\ registered' = registered
    BY DEF Registering!RemoveNamed, Registering!Goto
  <1>3. \A q \in Registrations : ~ Registering!Removing(q)
    BY <1>2 DEF MiddlewareInv, OneLeaves, Registering!ByHandle, Registering!Removing
  <1>4. handleList = middlewares /\ identities = IdentitiesOf(middlewares)
    BY <1>3 DEF MiddlewareInv, ListsFollow, Registering!Removing
  <1>5. /\ middlewares \in Seq(Registrations) /\ Once(middlewares) /\ Sorted(middlewares)
        /\ i \in 1 .. Len(middlewares)
    BY <1>1 DEF MiddlewareInv, MiddlewareTypes, ListsHold
  <1>6. /\ middlewares' \in Seq(Registrations) /\ Once(middlewares') /\ Sorted(middlewares')
        /\ \A q : Holds(middlewares', q) <=> Holds(middlewares, q) /\ q # r
        /\ IdentitiesOf(middlewares') = RemoveAt(identities, i)
    BY <1>1, <1>4, <1>5, TakenOut
  <1>7. handleList' = middlewares' /\ IdentitiesOf(middlewares)' = IdentitiesOf(middlewares')
    BY <1>1, <1>4 DEF IdentitiesOf
  <1>8. \A q \in Registrations : entry'[q] = IF q = r THEN "forget_identity" ELSE entry[q]
    BY <1>2 DEF MiddlewareInv, MiddlewareTypes
  <1>9. MiddlewareTypes'
    BY <1>1, <1>2, <1>5, <1>6, <1>7 DEF MiddlewareInv, MiddlewareTypes, Identities
  <1>10. OneLeaves'
    BY <1>2, <1>3, <1>8 DEF MiddlewareInv, OneLeaves, Registering!Removing, Registering!ByHandle
  <1>11. ListsFollow'
    <2>1. at'[r] = i
      BY <1>1 DEF MiddlewareInv, MiddlewareTypes
    <2>2. i \in 1 .. Len(identities) /\ identities[i] = IdentityOf[r]
      BY <1>1, <1>4, <1>5, IdentitiesAre
    <2>3. \A q \in Registrations : /\ entry'[q] # "forget_middleware"
                                   /\ entry'[q] = "forget_identity" => q = r
      BY <1>3, <1>8 DEF Registering!Removing
    <2>4. entry'[r] = "forget_identity"
      BY <1>8
    <2>5. RemoveAt(identities', at'[r]) = IdentitiesOf(middlewares)'
      BY <1>2, <1>6, <1>7, <2>1
    <2> HIDE DEF IdentitiesOf
    <2>6. QED
      BY <1>2, <1>7, <2>1, <2>2, <2>3, <2>4, <2>5 DEF ListsFollow
  <1>12. ListsHold'
    <2>1. \A q \in Registrations : entry'[q] = "in" <=> Holds(middlewares', q)
      BY <1>4, <1>6, <1>8 DEF MiddlewareInv, ListsHold
    <2>2. QED
      BY <1>6, <1>7, <2>1 DEF ListsHold, Once, Sorted, Holds
  <1>13. IdentitiesHeld'
    BY <1>2, <1>8 DEF MiddlewareInv, IdentitiesHeld, Holders
  <1>14. QED
    BY <1>9, <1>10, <1>11, <1>12, <1>13 DEF MiddlewareInv

LEMMA RemoveHandleKeeps ==
  ASSUME ByHandleAlone, MiddlewareInv, NEW r \in Registrations, Registering!RemoveHandle(r)
  PROVE  MiddlewareInv'
  <1> DEFINE i == CHOOSE i \in DOMAIN handleList : handleList[i] = r
  <1>1. /\ entry[r] = "in" /\ listLock = "free" /\ Registering!Calm
        /\ at' = [at EXCEPT ![r] = i] /\ handleList' = RemoveAt(handleList, at'[r])
        /\ listLock' = "handles" /\ entry' = [entry EXCEPT ![r] = "forget_middleware"]
        /\ UNCHANGED <<middlewares, identities, registered>>
    BY DEF Registering!RemoveHandle, Registering!Goto, Registering!RemoveAt, RemoveAt
  <1>2. \A q \in Registrations : ~ Registering!Removing(q) /\ entry[q] # "noted"
    BY <1>1 DEF Registering!Calm
  <1>3. handleList = middlewares /\ identities = IdentitiesOf(middlewares)
    BY <1>2 DEF MiddlewareInv, ListsFollow, Registering!Removing
  <1>4. middlewares \in Seq(Registrations) /\ Once(middlewares) /\ Sorted(middlewares)
    BY DEF MiddlewareInv, MiddlewareTypes, ListsHold
  <1>5. i \in 1 .. Len(middlewares) /\ middlewares[i] = r
    <2>1. \E j \in DOMAIN handleList : handleList[j] = r
      BY <1>1, <1>3, <1>4 DEF MiddlewareInv, ListsHold, Holds
    <2>2. QED
      BY <1>3, <1>4, <2>1
  <1> HIDE DEF i
  <1>6. at'[r] = i
    BY <1>1 DEF MiddlewareInv, MiddlewareTypes
  <1>7. /\ handleList' \in Seq(Registrations) /\ Once(handleList') /\ Sorted(handleList')
        /\ \A q : Holds(handleList', q) <=> Holds(middlewares, q) /\ q # r
    BY <1>1, <1>3, <1>4, <1>5, <1>6, TakenOut
  <1>8. \A q \in Registrations : entry'[q] = IF q = r THEN "forget_middleware" ELSE entry[q]
    BY <1>1 DEF MiddlewareInv, MiddlewareTypes
  <1>9. MiddlewareTypes'
    BY <1>1, <1>5, <1>7 DEF MiddlewareInv, MiddlewareTypes, Identities
  <1>10. OneLeaves'
    BY <1>1, <1>2, <1>8 DEF MiddlewareInv, OneLeaves, Registering!Removing, Registering!ByHandle
  <1>11. ListsFollow'
    <2>1. \A q \in Registrations : /\ entry'[q] # "forget_identity"
                                   /\ entry'[q] = "forget_middleware" => q = r
      BY <1>2, <1>8 DEF Registering!Removing
    <2>2. entry'[r] = "forget_middleware"
      BY <1>8
    <2>3. identities' = IdentitiesOf(middlewares)'
      BY <1>1, <1>3 DEF IdentitiesOf
    <2>4. handleList' = RemoveAt(middlewares', at'[r])
      BY <1>1, <1>3
    <2>5. QED
      BY <1>1, <1>5, <1>6, <2>1, <2>2, <2>3, <2>4 DEF ListsFollow
  <1>12. ListsHold'
    <2>1. \A q \in Registrations : entry'[q] = "in" <=> Holds(handleList', q)
      BY <1>3, <1>7, <1>8 DEF MiddlewareInv, ListsHold
    <2>2. QED
      BY <1>1, <1>4, <1>7, <2>1 DEF ListsHold, Once, Sorted, Holds
  <1>13. IdentitiesHeld'
    BY <1>1, <1>8 DEF MiddlewareInv, IdentitiesHeld, Holders
  <1>14. QED
    BY <1>9, <1>10, <1>11, <1>12, <1>13 DEF MiddlewareInv

LEMMA RemoveHandleRestKeeps ==
  ASSUME MiddlewareInv, NEW r \in Registrations, Registering!RemoveHandleRest(r)
  PROVE  MiddlewareInv'
  <1>1. /\ entry[r] = "forget_middleware" /\ middlewares' = RemoveAt(middlewares, at[r])
        /\ listLock' = "free" /\ entry' = [entry EXCEPT ![r] = "forget_identity"]
        /\ UNCHANGED <<handleList, identities, registered, at>>
    BY DEF Registering!RemoveHandleRest, Registering!Goto, Registering!RemoveAt, RemoveAt
  <1>2. /\ at[r] \in 1 .. Len(middlewares) /\ middlewares[at[r]] = r
        /\ handleList = RemoveAt(middlewares, at[r])
    BY <1>1 DEF MiddlewareInv, ListsFollow
  <1>3. \A q \in Registrations : Registering!Removing(q) => q = r
    BY <1>1 DEF MiddlewareInv, OneLeaves, Registering!Removing
  <1>4. identities = IdentitiesOf(middlewares)
    BY <1>1, <1>3 DEF MiddlewareInv, ListsFollow, Registering!Removing
  <1>5. middlewares \in Seq(Registrations) /\ Once(middlewares) /\ Sorted(middlewares)
    BY DEF MiddlewareInv, MiddlewareTypes, ListsHold
  <1>6. /\ middlewares' \in Seq(Registrations) /\ Once(middlewares') /\ Sorted(middlewares')
        /\ IdentitiesOf(middlewares') = RemoveAt(identities, at[r])
    BY <1>1, <1>2, <1>4, <1>5, TakenOut
  <1>7. handleList' = middlewares' /\ IdentitiesOf(middlewares)' = IdentitiesOf(middlewares')
    BY <1>1, <1>2 DEF IdentitiesOf
  <1>8. \A q \in Registrations : entry'[q] = IF q = r THEN "forget_identity" ELSE entry[q]
    BY <1>1 DEF MiddlewareInv, MiddlewareTypes
  <1>9. MiddlewareTypes'
    BY <1>1, <1>6 DEF MiddlewareInv, MiddlewareTypes, Identities
  <1>10. OneLeaves'
    <2>1. \A q \in Registrations : entry[q] # "noted"
      BY <1>1 DEF MiddlewareInv, OneLeaves, Registering!ByHandle
    <2>2. QED
      BY <1>1, <1>3, <1>8, <2>1 DEF MiddlewareInv, OneLeaves, Registering!Removing, Registering!ByHandle
  <1>11. ListsFollow'
    <2>1. at[r] \in 1 .. Len(identities) /\ identities[at[r]] = IdentityOf[r]
      BY <1>2, <1>4, <1>5, IdentitiesAre
    <2>2. \A q \in Registrations : /\ entry'[q] # "forget_middleware"
                                   /\ entry'[q] = "forget_identity" => q = r
      BY <1>3, <1>8 DEF Registering!Removing
    <2>3. entry'[r] = "forget_identity"
      BY <1>8
    <2>4. RemoveAt(identities', at'[r]) = IdentitiesOf(middlewares)'
      BY <1>1, <1>6, <1>7
    <2>5. QED
      BY <1>1, <1>7, <2>1, <2>2, <2>3, <2>4 DEF ListsFollow
  <1>12. ListsHold'
    <2>1. \A q \in Registrations : entry'[q] = "in" <=> Holds(handleList', q)
      BY <1>1, <1>8 DEF MiddlewareInv, ListsHold
    <2>2. QED
      BY <1>6, <1>7, <2>1 DEF ListsHold, Once, Sorted, Holds
  <1>13. IdentitiesHeld'
    BY <1>1, <1>8 DEF MiddlewareInv, IdentitiesHeld, Holders
  <1>14. QED
    BY <1>9, <1>10, <1>11, <1>12, <1>13 DEF MiddlewareInv

(* The identity goes with the last registration that holds it.             *)
LEMMA ForgetIdentityKeeps ==
  ASSUME MiddlewareInv, NEW r \in Registrations, Registering!ForgetIdentity(r)
  PROVE  MiddlewareInv'
  <1> DEFINE left == RemoveAt(identities, at[r])
  <1>1. /\ entry[r] = "forget_identity" /\ entry' = [entry EXCEPT ![r] = "gone"]
        /\ UNCHANGED <<middlewares, handleList, at>>
        /\ listLock' = IF listLock = "middlewares" THEN "free" ELSE listLock
    BY DEF Registering!ForgetIdentity, Registering!Goto
  <1>2. /\ at[r] \in 1 .. Len(identities) /\ identities[at[r]] = IdentityOf[r]
        /\ left = IdentitiesOf(middlewares)
    BY <1>1 DEF MiddlewareInv, ListsFollow
  <1>3. at[r] \in DOMAIN identities
    BY <1>2 DEF MiddlewareInv, MiddlewareTypes
  <1>4. /\ identities' = left
        /\ registered' = IF \E j \in 1 .. Len(left) : left[j] = IdentityOf[r] THEN registered
                         ELSE registered \ {IdentityOf[r]}
    BY <1>2, <1>3 DEF Registering!ForgetIdentity, Registering!RemoveAt, RemoveAt, Registering!Contains
  <1>5. \A q \in Registrations : Registering!Removing(q) => q = r
    BY <1>1 DEF MiddlewareInv, OneLeaves, Registering!Removing
  <1>6. handleList = middlewares
    BY <1>1, <1>5 DEF MiddlewareInv, ListsFollow, Registering!Removing
  <1>7. \A q \in Registrations : entry'[q] = IF q = r THEN "gone" ELSE entry[q]
    BY <1>1 DEF MiddlewareInv, MiddlewareTypes
  <1>8. /\ IdentitiesOf(middlewares) \in Seq(Identities) /\ Len(IdentitiesOf(middlewares)) = Len(middlewares)
        /\ \A j \in 1 .. Len(middlewares) : IdentitiesOf(middlewares)[j] = IdentityOf[middlewares[j]]
    BY IdentitiesAre DEF MiddlewareInv, MiddlewareTypes
  <1>9. IdentitiesOf(middlewares)' = IdentitiesOf(middlewares)
    BY <1>1 DEF IdentitiesOf
  <1> HIDE DEF left
  <1>10. MiddlewareTypes'
    BY <1>1, <1>2, <1>4, <1>8 DEF MiddlewareInv, MiddlewareTypes, Identities
  <1>11. OneLeaves'
    BY <1>1, <1>5, <1>7 DEF MiddlewareInv, OneLeaves, Registering!Removing, Registering!ByHandle
  <1>12. ListsFollow'
    BY <1>1, <1>2, <1>4, <1>5, <1>6, <1>7, <1>9 DEF ListsFollow, Registering!Removing
  <1>13. ListsHold'
    BY <1>1, <1>7 DEF MiddlewareInv, ListsHold, Once, Sorted, Holds
  <1>14. IdentitiesHeld'
    <2>1. SUFFICES ASSUME NEW x \in registered'
                   PROVE  \E q \in Registrations : IdentityOf[q] = x /\ entry'[q] \in
                            {"noted", "in", "forget_middleware", "forget_identity"}
      BY DEF IdentitiesHeld, Holders
    <2>2. PICK q \in Registrations :
            IdentityOf[q] = x /\ entry[q] \in {"noted", "in", "forget_middleware", "forget_identity"}
      BY <1>4, <2>1 DEF MiddlewareInv, IdentitiesHeld, Holders
    <2>3. CASE q # r
      BY <1>7, <2>2, <2>3
    <2>4. CASE q = r
      <3>1. PICK j \in 1 .. Len(left) : left[j] = IdentityOf[r]
        BY <1>4, <2>1, <2>2, <2>4
      <3>2. j \in 1 .. Len(middlewares) /\ IdentityOf[middlewares[j]] = x
        BY <1>2, <1>8, <2>2, <2>4, <3>1
      <3>3. middlewares[j] \in Registrations /\ Holds(handleList, middlewares[j])
        BY <1>6, <3>2 DEF MiddlewareInv, MiddlewareTypes, Holds
      <3>4. entry[middlewares[j]] = "in"
        BY <3>3 DEF MiddlewareInv, ListsHold
      <3>5. QED
        BY <1>1, <1>7, <3>2, <3>3, <3>4
    <2>5. QED
      BY <2>3, <2>4
  <1>15. QED
    BY <1>10, <1>11, <1>12, <1>13, <1>14 DEF MiddlewareInv

LEMMA MiddlewareStep ==
  ASSUME ByHandleAlone, MiddlewareInv, [Registering!Next]_middlewareVars
  PROVE  MiddlewareInv'
  <1>1. CASE UNCHANGED middlewareVars
    BY <1>1 DEF middlewareVars, MiddlewareInv, MiddlewareTypes, OneLeaves, ListsFollow, ListsHold,
                IdentitiesHeld, Holders, Holds, Once, Sorted, IdentitiesOf,
                Registering!Removing, Registering!ByHandle
  <1>2. ASSUME NEW r \in Registrations,
               \/ Registering!Reject(r) \/ Registering!NoteIdentity(r) \/ Registering!Insert(r)
               \/ Registering!RemoveNamed(r) \/ Registering!RemoveHandle(r)
               \/ Registering!RemoveHandleRest(r) \/ Registering!ForgetIdentity(r)
        PROVE  MiddlewareInv'
    BY <1>2, AddingKeeps, InsertKeeps, RemoveNamedKeeps, RemoveHandleKeeps, RemoveHandleRestKeeps,
       ForgetIdentityKeeps
  <1>3. QED
    BY <1>1, <1>2 DEF Registering!Next

LEMMA MiddlewareStarts ==
  ASSUME Registering!Init
  PROVE  MiddlewareInv
  BY DEF Registering!Init, MiddlewareInv, MiddlewareTypes, OneLeaves, ListsFollow, ListsHold,
         IdentitiesHeld, Holders, Holds, Once, Sorted, IdentitiesOf,
         Registering!Removing, Registering!ByHandle

LEMMA ListsAreParallel ==
  ASSUME MiddlewareInv
  PROVE  Registering!ListsParallel
  <1>1. SUFFICES ASSUME \A r \in Registrations : ~ Registering!Removing(r)
        PROVE  /\ handleList = middlewares
               /\ identities = [i \in DOMAIN middlewares |-> IdentityOf[middlewares[i]]]
               /\ \A i, j \in DOMAIN middlewares :
                    i < j => PriorityOf[middlewares[i]] >= PriorityOf[middlewares[j]]
               /\ registered \subseteq
                    {IdentityOf[r] : r \in {q \in Registrations : entry[q] \in {"noted", "in"}}}
    BY DEF Registering!ListsParallel
  <1>2. handleList = middlewares /\ identities = IdentitiesOf(middlewares)
    BY <1>1 DEF MiddlewareInv, ListsFollow, Registering!Removing
  <1>3. DOMAIN middlewares = 1 .. Len(middlewares)
    BY DEF MiddlewareInv, MiddlewareTypes
  <1>4. registered \subseteq {IdentityOf[r] : r \in {q \in Registrations : entry[q] \in {"noted", "in"}}}
    BY <1>1 DEF MiddlewareInv, IdentitiesHeld, Holders, Registering!Removing
  <1>5. QED
    BY <1>2, <1>3, <1>4 DEF MiddlewareInv, ListsHold, Sorted, IdentitiesOf

-----------------------------------------------------------------------------
(* The access control list.                                                *)
Three == 0 .. 2

(* The least element of a set of naturals, the extremes of three outcomes. *)
LEMMA LeastIs ==
  ASSUME NEW T \in SUBSET Nat, T # {}
  PROVE  Ruling!Min(T) \in T /\ \A j \in T : Ruling!Min(T) <= j
  <1>1. \E i \in T : \A j \in T : i <= j
    BY LeastExists
  <1>2. QED
    BY <1>1 DEF Ruling!Min, Min

LEMMA AndIs ==
  ASSUME NEW T \in SUBSET Three
  PROVE  /\ Ruling!And(T) \in Three
         /\ Ruling!And(T) = 0 <=> 0 \in T
         /\ Ruling!And(T) = 2 <=> T \subseteq {2}
  <1>1. /\ Ruling!Min(T \cup {2}) \in T \cup {2}
        /\ \A j \in T \cup {2} : Ruling!Min(T \cup {2}) <= j
    BY LeastIs DEF Three
  <1>2. PICK least : least = Ruling!Min(T \cup {2})
    OBVIOUS
  <1>3. Ruling!And(T) = least
    BY <1>2 DEF Ruling!And, Ruling!Satisfied
  <1>4. least \in T \cup {2} /\ \A j \in T \cup {2} : least <= j
    BY <1>1, <1>2
  <1>5. least \in Three /\ \A j \in T : j \in Three
    BY <1>4 DEF Three
  <1>6. QED
    BY <1>3, <1>4, <1>5 DEF Three

LEMMA OrIs ==
  ASSUME NEW T \in SUBSET Three
  PROVE  /\ Ruling!Or(T) \in Three
         /\ Ruling!Or(T) = 2 <=> 2 \in T
         /\ Ruling!Or(T) = 0 <=> T \subseteq {0}
  <1>1. \E i \in T \cup {0} : \A j \in T \cup {0} : i >= j
    <2>1. CASE 2 \in T
      BY <2>1 DEF Three
    <2>2. CASE 2 \notin T /\ 1 \in T
      BY <2>2 DEF Three
    <2>3. CASE 2 \notin T /\ 1 \notin T
      BY <2>3 DEF Three
    <2>4. QED
      BY <2>1, <2>2, <2>3
  <1>2. /\ Ruling!Max(T \cup {0}) \in T \cup {0}
        /\ \A j \in T \cup {0} : Ruling!Max(T \cup {0}) >= j
    BY <1>1 DEF Ruling!Max, Max
  <1>3. PICK most : most = Ruling!Max(T \cup {0})
    OBVIOUS
  <1>4. Ruling!Or(T) = most
    BY <1>3 DEF Ruling!Or, Ruling!Unsatisfied
  <1>5. most \in T \cup {0} /\ \A j \in T \cup {0} : most >= j
    BY <1>2, <1>3
  <1>6. most \in Three /\ \A j \in T : j \in Three
    BY <1>5 DEF Three
  <1>7. QED
    BY <1>4, <1>5, <1>6 DEF Three

-----------------------------------------------------------------------------
(* The conditions of a rule.                                               *)
Handlers == sync \subseteq ConditionKeys /\ async \subseteq ConditionKeys
Tables == [Nodes -> Three]
Answered(view) == view.answers \in [ConditionKeys -> Three]

(* The members of a list of entries or branches.                           *)
LEMMA MembersAre ==
  ASSUME NEW list, NEW x \in Ruling!ToSet(list)
  PROVE  \E i \in DOMAIN list : list[i] = x
  BY DEF Ruling!ToSet, ToSet

LEMMA EntryIs ==
  ASSUME NEW tree \in Nodes, tree.kind = "mapping", NEW e \in Ruling!ToSet(tree.entries)
  PROVE  /\ e.key = "$not" => e.operand \in Nodes
         /\ e.key = "$or" /\ e.operand.kind = "list" => Ruling!ToSet(e.operand.items) \subseteq Nodes
  <1>1. PICK i \in DOMAIN tree.entries : tree.entries[i] = e
    BY MembersAre
  <1>2. e.key = "$not" => e.operand \in Nodes
    BY <1>1, AccessAssumption
  <1>3. ASSUME e.key = "$or", e.operand.kind = "list", NEW x \in Ruling!ToSet(e.operand.items) PROVE x \in Nodes
    <2>1. PICK k \in DOMAIN e.operand.items : e.operand.items[k] = x
      BY MembersAre
    <2>2. QED
      BY <1>1, <1>3, <2>1, AccessAssumption
  <1>4. QED
    BY <1>2, <1>3

LEMMA ArgumentsAre ==
  ASSUME NEW operand, NEW projection
  PROVE  Ruling!Arguments(operand, projection) \in Three
  <1>1. ASSUME NEW e PROVE Ruling!Predicate(e, projection) \in Three
    BY DEF Ruling!Predicate, Ruling!FromBool, Ruling!Satisfied, Ruling!Unsatisfied, Ruling!Unevaluable, Three
  <1>2. {Ruling!Predicate(e, projection) : e \in Ruling!ToSet(operand.entries)} \in SUBSET Three
    BY <1>1
  <1>3. QED
    BY <1>2, AndIs DEF Ruling!Arguments, Ruling!Unevaluable, Three

(* One entry is evaluated to one of the three outcomes.                    *)
LEMMA EvaluateIs ==
  ASSUME Handlers, NEW view, Answered(view), NEW below \in Tables,
         NEW tree \in Nodes, tree.kind = "mapping", NEW e \in Ruling!ToSet(tree.entries)
  PROVE  Ruling!Evaluate(e, view, below) \in Three
  <1>1. CASE ~Ruling!Resolves(view.mode, e.key)
    BY <1>1 DEF Ruling!Evaluate, Ruling!Unevaluable, Three
  <1>2. CASE Ruling!Resolves(view.mode, e.key) /\ e.key = "$or"
    <2>1. CASE e.operand.kind = "list"
      <3>1. {below[branch] : branch \in Ruling!ToSet(e.operand.items)} \in SUBSET Three
        BY <1>2, <2>1, EntryIs DEF Tables
      <3>2. QED
        BY <1>2, <2>1, <3>1, OrIs DEF Ruling!Evaluate
    <2>2. CASE e.operand.kind # "list"
      BY <1>2, <2>2 DEF Ruling!Evaluate, Ruling!Unevaluable, Three
    <2>3. QED
      BY <2>1, <2>2
  <1>3. CASE Ruling!Resolves(view.mode, e.key) /\ e.key = "$not"
    <2>1. below[e.operand] \in Three
      BY <1>3, EntryIs DEF Tables
    <2>2. QED
      BY <1>3, <2>1 DEF Ruling!Evaluate, Ruling!Negate, Ruling!Satisfied, Three
  <1>4. CASE Ruling!Resolves(view.mode, e.key) /\ e.key = "arguments"
    BY <1>4, ArgumentsAre DEF Ruling!Evaluate
  <1>5. CASE Ruling!Resolves(view.mode, e.key) /\ e.key \notin {"$or", "$not", "arguments"}
    <2>1. e.key \in ConditionKeys
      BY <1>5 DEF Ruling!Resolves, Ruling!Compound, Handlers
    <2>2. QED
      BY <1>5, <2>1 DEF Ruling!Evaluate, Answered
  <1>6. QED
    BY <1>1, <1>2, <1>3, <1>4, <1>5

LEMMA ConjunctionsAre ==
  ASSUME Handlers, NEW view, Answered(view), NEW below \in Tables
  PROVE  Ruling!Conjunctions(view, below) \in Tables
  <1>1. ASSUME NEW tree \in Nodes, tree.kind = "mapping"
        PROVE  Ruling!And({Ruling!Evaluate(e, view, below) : e \in Ruling!ToSet(tree.entries)}) \in Three
    <2>1. {Ruling!Evaluate(e, view, below) : e \in Ruling!ToSet(tree.entries)} \in SUBSET Three
      BY <1>1, EvaluateIs
    <2>2. QED
      BY <2>1, AndIs
  <1>2. QED
    BY <1>1 DEF Ruling!Conjunctions, Tables, Ruling!Unevaluable, Three

Blank == [tree \in Nodes |-> 1]
Chain(view, n) == {g \in [0 .. n -> Tables] :
                     /\ g[0] = Blank
                     /\ \A k \in 1 .. n : g[k] = Ruling!Conjunctions(view, g[k - 1])}

LEMMA ChainsExist ==
  ASSUME Handlers, NEW view, Answered(view), NEW n \in Nat
  PROVE  Chain(view, n) # {}
  <1> DEFINE T == {m \in Nat : Chain(view, m) = {}}
  <1>1. SUFFICES ASSUME T # {} PROVE FALSE
    OBVIOUS
  <1>2. PICK m \in T : \A j \in T : m <= j
    BY <1>1, LeastExists
  <1>3. m # 0
    <2>1. [k \in 0 .. 0 |-> Blank] \in Chain(view, 0)
      BY DEF Chain, Blank, Tables, Three
    <2>2. QED
      BY <2>1, <1>2
  <1>4. m - 1 \in Nat /\ Chain(view, m - 1) # {}
    BY <1>2, <1>3
  <1>5. PICK g : g \in Chain(view, m - 1)
    BY <1>4
  <1> DEFINE h == [k \in 0 .. m |-> IF k = m THEN Ruling!Conjunctions(view, g[m - 1]) ELSE g[k]]
  <1>6. g \in [0 .. m - 1 -> Tables] /\ g[0] = Blank
        /\ \A k \in 1 .. m - 1 : g[k] = Ruling!Conjunctions(view, g[k - 1])
    BY <1>5 DEF Chain
  <1>7. g[m - 1] \in Tables
    BY <1>4, <1>6
  <1>8. Ruling!Conjunctions(view, g[m - 1]) \in Tables
    BY <1>7, ConjunctionsAre
  <1>9. h \in [0 .. m -> Tables]
    BY <1>4, <1>6, <1>8
  <1>10. h[0] = Blank
    BY <1>3, <1>4, <1>6
  <1>11. ASSUME NEW k \in 1 .. m PROVE h[k] = Ruling!Conjunctions(view, h[k - 1])
    <2>1. h[k - 1] = g[k - 1]
      BY <1>4
    <2>2. CASE k = m
      BY <2>1, <2>2
    <2>3. CASE k # m
      <3>1. k \in 1 .. m - 1
        BY <2>3, <1>4
      <3>2. QED
        BY <2>1, <2>3, <3>1, <1>6
    <2>4. QED
      BY <2>2, <2>3
  <1>12. h \in Chain(view, m)
    BY <1>9, <1>10, <1>11 DEF Chain
  <1>13. QED
    BY <1>2, <1>12

LEMMA ChainsAgree ==
  ASSUME NEW view, NEW n \in Nat, NEW g \in Chain(view, n), NEW m \in Nat, NEW h \in Chain(view, m),
         NEW i \in Nat, i <= n, i <= m
  PROVE  g[i] = h[i]
  <1> DEFINE T == {k \in Nat : k <= n /\ k <= m /\ g[k] # h[k]}
  <1>1. SUFFICES ASSUME T # {} PROVE FALSE
    OBVIOUS
  <1>2. PICK k \in T : \A j \in T : k <= j
    BY <1>1, LeastExists
  <1>3. k # 0
    BY <1>2 DEF Chain
  <1>4. k - 1 \in Nat /\ g[k - 1] = h[k - 1]
    BY <1>2, <1>3
  <1>5. k \in 1 .. n /\ k \in 1 .. m
    BY <1>2, <1>3
  <1>6. g[k] = Ruling!Conjunctions(view, g[k - 1]) /\ h[k] = Ruling!Conjunctions(view, h[k - 1])
    BY <1>5 DEF Chain
  <1>7. QED
    BY <1>2, <1>4, <1>6

(* The outcomes by nesting are what their definition says.                 *)
LEMMA OutcomesAre ==
  ASSUME Handlers, NEW view, Answered(view)
  PROVE  /\ Ruling!Outcomes(view)[0] = Blank
         /\ \A d \in Nat : /\ Ruling!Outcomes(view)[d] \in Tables
                           /\ Ruling!Outcomes(view)[d + 1] = Ruling!Conjunctions(view, Ruling!Outcomes(view)[d])
  <1> DEFINE pick == [n \in Nat |-> CHOOSE g : g \in Chain(view, n)]
             level == [n \in Nat |-> pick[n][n]]
             Rest(f) == [d \in Nat |-> IF d = 0 THEN Blank ELSE Ruling!Conjunctions(view, f[d - 1])]
  <1>1. ASSUME NEW n \in Nat PROVE pick[n] \in Chain(view, n)
    BY ChainsExist
  <1>2. level[0] = Blank
    <2>1. pick[0] \in Chain(view, 0)
      BY <1>1
    <2>2. \A g \in Chain(view, 0) : g[0] = Blank
      BY DEF Chain
    <2>3. QED
      BY <2>1, <2>2
  <1>3. ASSUME NEW n \in Nat PROVE level[n + 1] = Ruling!Conjunctions(view, level[n])
    <2>1. pick[n] \in Chain(view, n) /\ pick[n + 1] \in Chain(view, n + 1)
      BY <1>1
    <2>2. pick[n][n] = pick[n + 1][n]
      BY <2>1, ChainsAgree
    <2>3. \A g \in Chain(view, n + 1) : g[n + 1] = Ruling!Conjunctions(view, g[n])
      <3>1. n + 1 \in 1 .. n + 1 /\ (n + 1) - 1 = n
        OBVIOUS
      <3>2. QED
        BY <3>1 DEF Chain
    <2>4. QED
      BY <2>1, <2>2, <2>3
  <1>4. level = Rest(level)
    <2>1. ASSUME NEW d \in Nat PROVE level[d] = IF d = 0 THEN Blank ELSE Ruling!Conjunctions(view, level[d - 1])
      <3> HIDE DEF level
      <3>1. CASE d = 0
        BY <3>1, <1>2
      <3>2. CASE d # 0
        <4>1. d - 1 \in Nat /\ d = (d - 1) + 1
          BY <3>2
        <4>2. level[(d - 1) + 1] = Ruling!Conjunctions(view, level[d - 1])
          BY <4>1, <1>3
        <4>3. QED
          BY <3>2, <4>1, <4>2
      <3>3. QED
        BY <3>1, <3>2
    <2>2. level = [d \in Nat |-> level[d]]
      OBVIOUS
    <2>3. QED
      <3> HIDE DEF level
      <3>1. QED
        BY <2>1, <2>2
  <1>5. \E f : f = Rest(f)
    BY <1>4
  <1>6. Ruling!Outcomes(view) = Rest(Ruling!Outcomes(view))
    BY <1>5 DEF Ruling!Outcomes, Blank, Ruling!Unevaluable
  <1>7. QED
    <2> DEFINE f == Ruling!Outcomes(view)
    <2>1. f = Rest(f)
      BY <1>6
    <2> HIDE DEF f
    <2>2. f[0] = Blank
      BY <2>1
    <2>3. ASSUME NEW d \in Nat PROVE f[d + 1] = Ruling!Conjunctions(view, f[d])
      <3>1. d + 1 \in Nat /\ d + 1 # 0 /\ (d + 1) - 1 = d
        OBVIOUS
      <3>2. f[d + 1] = Rest(f)[d + 1]
        BY <2>1
      <3>3. Rest(f)[d + 1] = Ruling!Conjunctions(view, f[(d + 1) - 1])
        BY <3>1
      <3>4. QED
        BY <3>1, <3>2, <3>3
    <2>4. \A d \in Nat : f[d] \in Tables
      <3> DEFINE T == {d \in Nat : f[d] \notin Tables}
      <3>1. SUFFICES ASSUME T # {} PROVE FALSE
        OBVIOUS
      <3>2. PICK d \in T : \A j \in T : d <= j
        BY <3>1, LeastExists
      <3>3. d # 0
        BY <2>2, <3>2 DEF Blank, Tables, Three
      <3>4. d - 1 \in Nat /\ f[d - 1] \in Tables /\ (d - 1) + 1 = d
        BY <3>2, <3>3
      <3>5. f[d] = Ruling!Conjunctions(view, f[d - 1])
        BY <2>3, <3>4
      <3>6. QED
        BY <3>2, <3>4, <3>5, ConjunctionsAre
    <2>5. QED
      BY <2>2, <2>3, <2>4 DEF f

-----------------------------------------------------------------------------
(* An answer that takes the place of none.                                 *)
Refined(a, b) == a = 1 \/ a = b
Answering(view, other) ==
  /\ other.mode = view.mode /\ other.projection = view.projection
  /\ Answered(view) /\ Answered(other)
  /\ \A k \in ConditionKeys : Refined(view.answers[k], other.answers[k])

(* Conjunction, disjunction and negation of refined outcomes are refined.  *)
LEMMA AndRefined ==
  ASSUME NEW I, NEW a \in [I -> Three], NEW b \in [I -> Three], \A i \in I : Refined(a[i], b[i])
  PROVE  Refined(Ruling!And({a[i] : i \in I}), Ruling!And({b[i] : i \in I}))
  <1> DEFINE S == {a[i] : i \in I}  T == {b[i] : i \in I}
  <1>1. S \in SUBSET Three /\ T \in SUBSET Three
    OBVIOUS
  <1>2. 0 \in S => 0 \in T
    BY DEF Refined
  <1>3. S \subseteq {2} => T \subseteq {2}
    BY DEF Refined
  <1> HIDE DEF S, T
  <1>4. Refined(Ruling!And(S), Ruling!And(T))
    <2>1. Ruling!And(S) \in Three /\ (Ruling!And(S) = 0 => Ruling!And(T) = 0) /\ (Ruling!And(S) = 2 => Ruling!And(T) = 2)
      BY <1>1, <1>2, <1>3, AndIs
    <2>2. QED
      BY <2>1 DEF Refined, Three
  <1>5. QED
    BY <1>4 DEF S, T

LEMMA OrRefined ==
  ASSUME NEW I, NEW a \in [I -> Three], NEW b \in [I -> Three], \A i \in I : Refined(a[i], b[i])
  PROVE  Refined(Ruling!Or({a[i] : i \in I}), Ruling!Or({b[i] : i \in I}))
  <1> DEFINE S == {a[i] : i \in I}  T == {b[i] : i \in I}
  <1>1. S \in SUBSET Three /\ T \in SUBSET Three
    OBVIOUS
  <1>2. 2 \in S => 2 \in T
    BY DEF Refined
  <1>3. S \subseteq {0} => T \subseteq {0}
    BY DEF Refined
  <1> HIDE DEF S, T
  <1>4. Refined(Ruling!Or(S), Ruling!Or(T))
    <2>1. Ruling!Or(S) \in Three /\ (Ruling!Or(S) = 2 => Ruling!Or(T) = 2) /\ (Ruling!Or(S) = 0 => Ruling!Or(T) = 0)
      BY <1>1, <1>2, <1>3, OrIs
    <2>2. QED
      BY <2>1 DEF Refined, Three
  <1>5. QED
    BY <1>4 DEF S, T

LEMMA EvaluateRefined ==
  ASSUME Handlers, NEW view, NEW other, Answering(view, other), NEW below \in Tables, NEW above \in Tables,
         \A tree \in Nodes : Refined(below[tree], above[tree]),
         NEW tree \in Nodes, tree.kind = "mapping", NEW e \in Ruling!ToSet(tree.entries)
  PROVE  Refined(Ruling!Evaluate(e, view, below), Ruling!Evaluate(e, other, above))
  <1>0. Ruling!Resolves(other.mode, e.key) <=> Ruling!Resolves(view.mode, e.key)
    BY DEF Answering
  <1>1. CASE ~Ruling!Resolves(view.mode, e.key)
    BY <1>1 DEF Ruling!Evaluate, Ruling!Unevaluable, Refined
  <1>2. CASE Ruling!Resolves(view.mode, e.key) /\ e.key = "$or"
    <2>1. CASE e.operand.kind = "list"
      <3> DEFINE I == Ruling!ToSet(e.operand.items)
                 a == [x \in I |-> below[x]]
                 b == [x \in I |-> above[x]]
      <3>1. I \subseteq Nodes
        BY <1>2, <2>1, EntryIs
      <3>2. a \in [I -> Three] /\ b \in [I -> Three] /\ \A x \in I : Refined(a[x], b[x])
        BY <3>1 DEF Tables
      <3>3. /\ {below[x] : x \in I} = {a[x] : x \in I}
            /\ {above[x] : x \in I} = {b[x] : x \in I}
        OBVIOUS
      <3>4. Refined(Ruling!Or({a[x] : x \in I}), Ruling!Or({b[x] : x \in I}))
        <4> HIDE DEF a, b, I
        <4>1. QED
          BY <3>2, OrRefined
      <3>5. /\ Ruling!Evaluate(e, view, below) = Ruling!Or({below[x] : x \in I})
            /\ Ruling!Evaluate(e, other, above) = Ruling!Or({above[x] : x \in I})
        BY <1>0, <1>2, <2>1 DEF Ruling!Evaluate
      <3> HIDE DEF a, b, I
      <3>6. QED
        BY <3>3, <3>4, <3>5
    <2>2. CASE e.operand.kind # "list"
      BY <1>2, <2>2 DEF Ruling!Evaluate, Ruling!Unevaluable, Refined
    <2>3. QED
      BY <2>1, <2>2
  <1>3. CASE Ruling!Resolves(view.mode, e.key) /\ e.key = "$not"
    <2>1. below[e.operand] \in Three /\ above[e.operand] \in Three /\ Refined(below[e.operand], above[e.operand])
      BY <1>3, EntryIs DEF Tables
    <2>2. /\ Ruling!Evaluate(e, view, below) = 2 - below[e.operand]
          /\ Ruling!Evaluate(e, other, above) = 2 - above[e.operand]
      BY <1>0, <1>3 DEF Ruling!Evaluate, Ruling!Negate, Ruling!Satisfied
    <2>3. QED
      BY <2>1, <2>2 DEF Refined, Three
  <1>4. CASE Ruling!Resolves(view.mode, e.key) /\ e.key = "arguments"
    BY <1>0, <1>4 DEF Ruling!Evaluate, Answering, Refined
  <1>5. CASE Ruling!Resolves(view.mode, e.key) /\ e.key \notin {"$or", "$not", "arguments"}
    <2>1. e.key \in ConditionKeys
      BY <1>5 DEF Ruling!Resolves, Ruling!Compound, Handlers
    <2>2. /\ Ruling!Evaluate(e, view, below) = view.answers[e.key]
          /\ Ruling!Evaluate(e, other, above) = other.answers[e.key]
      BY <1>0, <1>5 DEF Ruling!Evaluate
    <2>3. QED
      BY <2>1, <2>2 DEF Answering
  <1>6. QED
    BY <1>1, <1>2, <1>3, <1>4, <1>5

LEMMA ConjunctionsRefined ==
  ASSUME Handlers, NEW view, NEW other, Answering(view, other), NEW below \in Tables, NEW above \in Tables,
         \A tree \in Nodes : Refined(below[tree], above[tree]), NEW tree \in Nodes
  PROVE  Refined(Ruling!Conjunctions(view, below)[tree], Ruling!Conjunctions(other, above)[tree])
  <1>1. CASE tree.kind # "mapping"
    BY <1>1 DEF Ruling!Conjunctions, Ruling!Unevaluable, Refined
  <1>2. CASE tree.kind = "mapping"
    <2> DEFINE I == Ruling!ToSet(tree.entries)
               a == [e \in I |-> Ruling!Evaluate(e, view, below)]
               b == [e \in I |-> Ruling!Evaluate(e, other, above)]
    <2>1. a \in [I -> Three] /\ b \in [I -> Three]
      BY <1>2, EvaluateIs DEF Answering
    <2>2. \A e \in I : Refined(a[e], b[e])
      BY <1>2, EvaluateRefined
    <2>3. /\ {Ruling!Evaluate(e, view, below) : e \in I} = {a[e] : e \in I}
          /\ {Ruling!Evaluate(e, other, above) : e \in I} = {b[e] : e \in I}
      OBVIOUS
    <2>4. /\ Ruling!Conjunctions(view, below)[tree] = Ruling!And({Ruling!Evaluate(e, view, below) : e \in I})
          /\ Ruling!Conjunctions(other, above)[tree] = Ruling!And({Ruling!Evaluate(e, other, above) : e \in I})
      BY <1>2 DEF Ruling!Conjunctions
    <2> HIDE DEF a, b, I
    <2>5. Refined(Ruling!And({a[e] : e \in I}), Ruling!And({b[e] : e \in I}))
      BY <2>1, <2>2, AndRefined
    <2>6. QED
      BY <2>3, <2>4, <2>5
  <1>3. QED
    BY <1>1, <1>2

(* An answer for none changes an outcome only where there was none.        *)
LEMMA ConditionsRefined ==
  ASSUME Handlers, NEW view, NEW other, Answering(view, other), NEW tree \in Nodes
  PROVE  /\ Ruling!EvaluateConditions(tree, view) \in Three
         /\ Ruling!EvaluateConditions(tree, other) \in Three
         /\ Refined(Ruling!EvaluateConditions(tree, view), Ruling!EvaluateConditions(tree, other))
  <1> DEFINE f == Ruling!Outcomes(view)  g == Ruling!Outcomes(other)
  <1>1. /\ f[0] = Blank /\ g[0] = Blank
        /\ \A d \in Nat : /\ f[d] \in Tables /\ f[d + 1] = Ruling!Conjunctions(view, f[d])
                          /\ g[d] \in Tables /\ g[d + 1] = Ruling!Conjunctions(other, g[d])
    BY OutcomesAre DEF Answering
  <1> HIDE DEF f, g
  <1>2. \A d \in Nat : \A t \in Nodes : Refined(f[d][t], g[d][t])
    <2> DEFINE T == {d \in Nat : \E t \in Nodes : ~Refined(f[d][t], g[d][t])}
    <2>1. SUFFICES ASSUME T # {} PROVE FALSE
      OBVIOUS
    <2>2. PICK d \in T : \A j \in T : d <= j
      BY <2>1, LeastExists
    <2>3. d # 0
      BY <1>1, <2>2 DEF Blank, Refined
    <2>4. d - 1 \in Nat /\ (d - 1) + 1 = d /\ d - 1 \notin T
      BY <2>2, <2>3
    <2>5. \A t \in Nodes : Refined(f[d - 1][t], g[d - 1][t])
      BY <2>4
    <2>6. \A t \in Nodes : Refined(f[d][t], g[d][t])
      <3>1. /\ f[d - 1] \in Tables /\ f[d] = Ruling!Conjunctions(view, f[d - 1])
            /\ g[d - 1] \in Tables /\ g[d] = Ruling!Conjunctions(other, g[d - 1])
        BY <1>1, <2>4
      <3>2. QED
        BY <2>5, <3>1, ConjunctionsRefined
    <2>7. QED
      BY <2>2, <2>6
  <1>3. QED
    BY <1>1, <1>2, AccessAssumption DEF Ruling!EvaluateConditions, f, g, Tables

-----------------------------------------------------------------------------
(* The scan of the rules.                                                  *)
Alike(view, other) ==
  /\ other.caller = view.caller /\ other.target = view.target /\ other.ctx = view.ctx
  /\ Answering(view, other)

LEMMA RuleRefined ==
  ASSUME Handlers, NEW rule, IsRule(rule), NEW view, NEW other, Alike(view, other)
  PROVE  Refined(Ruling!MatchesRule(rule, view), Ruling!MatchesRule(rule, other))
  <1>1. Ruling!InScope(rule, other) <=> Ruling!InScope(rule, view)
    BY DEF Alike, Ruling!InScope
  <1>2. ASSUME rule.conditions # NoConditions
        PROVE  Refined(Ruling!Conditions(rule, view), Ruling!Conditions(rule, other))
    <2> DEFINE tree == Trees[rule.conditions]
    <2>1. tree \in Nodes
      BY <1>2 DEF IsRule
    <2>2. Refined(Ruling!EvaluateConditions(tree, view), Ruling!EvaluateConditions(tree, other))
      <3> HIDE DEF tree
      <3>1. QED
        BY <2>1, ConditionsRefined DEF Alike
    <2>3. other.mode = view.mode /\ other.ctx = view.ctx
      BY DEF Alike, Answering
    <2>4. CASE Ruling!PrecheckFails(tree, view.mode)
      BY <2>3, <2>4 DEF Ruling!Conditions, Refined, Ruling!Unevaluable
    <2>5. CASE ~Ruling!PrecheckFails(tree, view.mode) /\ ~view.ctx.given
      BY <2>3, <2>5 DEF Ruling!Conditions, Refined, Ruling!Unsatisfied
    <2>6. CASE ~Ruling!PrecheckFails(tree, view.mode) /\ view.ctx.given
      BY <2>2, <2>3, <2>6 DEF Ruling!Conditions
    <2>7. QED
      BY <2>4, <2>5, <2>6
  <1>3. CASE Ruling!ShapeFault(rule.callers) \/ Ruling!ShapeFault(rule.targets)
    <2>1. Ruling!MatchesRule(rule, view) = Ruling!Unevaluable /\ Ruling!MatchesRule(rule, other) = Ruling!Unevaluable
      BY <1>3 DEF Ruling!MatchesRule
    <2>2. QED
      BY <2>1 DEF Refined
  <1>4. CASE ~(Ruling!ShapeFault(rule.callers) \/ Ruling!ShapeFault(rule.targets)) /\ ~Ruling!InScope(rule, view)
    BY <1>1, <1>4 DEF Ruling!MatchesRule, Refined, Ruling!Unsatisfied
  <1>5. CASE /\ ~(Ruling!ShapeFault(rule.callers) \/ Ruling!ShapeFault(rule.targets)) /\ Ruling!InScope(rule, view)
             /\ rule.conditions = NoConditions
    BY <1>1, <1>5 DEF Ruling!MatchesRule, Refined, Ruling!Satisfied
  <1>6. CASE /\ ~(Ruling!ShapeFault(rule.callers) \/ Ruling!ShapeFault(rule.targets)) /\ Ruling!InScope(rule, view)
             /\ rule.conditions # NoConditions
    BY <1>1, <1>2, <1>6 DEF Ruling!MatchesRule
  <1>7. QED
    BY <1>3, <1>4, <1>5, <1>6

Decides(list, view) ==
  {i \in DOMAIN list : \/ Ruling!MatchesRule(list[i], view) = 2
                       \/ Ruling!MatchesRule(list[i], view) = 1 /\ list[i].effect = "deny"}
PendingBefore(list, view, k) ==
  \E j \in DOMAIN list : /\ j < k /\ Ruling!MatchesRule(list[j], view) = 1
                         /\ list[j].effect = "allow" /\ list[j].approval
First(list, view) == IF Decides(list, view) = {} THEN Len(list) + 1 ELSE Ruling!Min(Decides(list, view))

LEMMA FirstIs ==
  ASSUME NEW S, NEW list \in Seq(S), NEW view
  PROVE  /\ Decides(list, view) # {} => First(list, view) \in Decides(list, view)
         /\ First(list, view) \in Nat /\ First(list, view) <= Len(list) + 1
         /\ \A i \in DOMAIN list : i < First(list, view) => i \notin Decides(list, view)
  <1>1. Decides(list, view) \in SUBSET (1 .. Len(list)) /\ DOMAIN list = 1 .. Len(list) /\ Len(list) \in Nat
    BY DEF Decides
  <1>2. CASE Decides(list, view) = {}
    BY <1>1, <1>2 DEF First
  <1>3. CASE Decides(list, view) # {}
    <2>1. Decides(list, view) \in SUBSET Nat
      BY <1>1
    <2>2. /\ Ruling!Min(Decides(list, view)) \in Decides(list, view)
          /\ \A j \in Decides(list, view) : Ruling!Min(Decides(list, view)) <= j
      BY <1>3, <2>1, LeastIs
    <2>3. First(list, view) = Ruling!Min(Decides(list, view))
      BY <1>3 DEF First
    <2>4. PICK m : m = First(list, view)
      OBVIOUS
    <2>5. m \in Decides(list, view) /\ m \in 1 .. Len(list) /\ \A j \in Decides(list, view) : m <= j /\ j \in Nat
      BY <1>1, <2>1, <2>2, <2>3, <2>4
    <2>6. QED
      BY <1>1, <2>4, <2>5
  <1>4. QED
    BY <1>2, <1>3

(* A check lets the call run when the rule that decides, or the default,   *)
(* allows it, without an approval of its own or of a rule that stepped     *)
(* aside before.                                                           *)
LEMMA ScanGrants ==
  ASSUME NEW S, NEW list \in Seq(S), NEW default, NEW view, \A i \in DOMAIN list : list[i].approval \in BOOLEAN
  PROVE  Ruling!Grants(Ruling!Scan(list, default, view)) <=>
           /\ ~PendingBefore(list, view, First(list, view))
           /\ IF Decides(list, view) = {} THEN default = "allow"
              ELSE /\ list[First(list, view)].effect = "allow"
                   /\ ~list[First(list, view)].approval
  <1> DEFINE outcome == [i \in DOMAIN list |-> Ruling!MatchesRule(list[i], view)]
             decides == {i \in DOMAIN list : outcome[i] = 2 \/ (outcome[i] = 1 /\ list[i].effect = "deny")}
             pendingBefore(k) == \E j \in DOMAIN list :
               j < k /\ outcome[j] = 1 /\ list[j].effect = "allow" /\ list[j].approval
  <1>1. decides = Decides(list, view)
    BY DEF Decides
  <1>2. \A k : pendingBefore(k) <=> PendingBefore(list, view, k)
    BY DEF PendingBefore
  <1>3. Ruling!Scan(list, default, view) =
          IF decides = {} THEN Ruling!FinalizeDefaultEffect(default, pendingBefore(Len(list) + 1))
          ELSE Ruling!FinalizeRuleMatch(list[Ruling!Min(decides)], Ruling!Min(decides), pendingBefore(Ruling!Min(decides)))
    BY DEF Ruling!Scan, Ruling!Satisfied, Ruling!Unevaluable
  <1> HIDE DEF decides, pendingBefore
  <1>4. CASE decides = {}
    <2>2. Ruling!Scan(list, default, view).access = default
      BY <1>3, <1>4 DEF Ruling!FinalizeDefaultEffect, Ruling!Decision
    <2>3. Ruling!Scan(list, default, view).approval = (pendingBefore(Len(list) + 1) /\ default = "allow")
      BY <1>3, <1>4 DEF Ruling!FinalizeDefaultEffect, Ruling!Decision
    <2>4. pendingBefore(Len(list) + 1) <=> PendingBefore(list, view, First(list, view))
      BY <1>1, <1>2, <1>4 DEF First
    <2>5. QED
      BY <1>1, <1>4, <2>2, <2>3, <2>4 DEF Ruling!Grants
  <1>5. CASE decides # {}
    <2> DEFINE m == First(list, view)
    <2>1. m = Ruling!Min(decides) /\ m \in DOMAIN list
      BY <1>1, <1>5, FirstIs DEF First, Decides
    <2>2. Ruling!Scan(list, default, view).access = list[m].effect
      BY <1>3, <1>5, <2>1 DEF Ruling!FinalizeRuleMatch, Ruling!Decision
    <2>3. Ruling!Scan(list, default, view).approval =
            ((list[m].approval \/ pendingBefore(m)) /\ list[m].effect = "allow")
      BY <1>3, <1>5, <2>1 DEF Ruling!FinalizeRuleMatch, Ruling!Decision
    <2>4. pendingBefore(m) <=> PendingBefore(list, view, m)
      BY <1>2
    <2>5. list[m].approval \in BOOLEAN
      BY <2>1
    <2> HIDE DEF m
    <2>6. Ruling!Grants(Ruling!Scan(list, default, view)) <=>
            /\ ~PendingBefore(list, view, m) /\ list[m].effect = "allow" /\ ~list[m].approval
      BY <2>2, <2>3, <2>4, <2>5 DEF Ruling!Grants
    <2>7. QED
      BY <1>1, <1>5, <2>6 DEF m
  <1>6. QED
    BY <1>4, <1>5

(* What nobody could evaluate does not decide that a call may run.         *)
LEMMA GrantsStay ==
  ASSUME NEW S, NEW list \in Seq(S), NEW default, NEW view, NEW other,
         \A i \in DOMAIN list : Refined(Ruling!MatchesRule(list[i], view), Ruling!MatchesRule(list[i], other)),
         \A i \in DOMAIN list : list[i].effect \in {"allow", "deny"} /\ list[i].approval \in BOOLEAN,
         Ruling!Grants(Ruling!Scan(list, default, view))
  PROVE  Ruling!Grants(Ruling!Scan(list, default, other))
  <1> DEFINE m == First(list, view)  n == First(list, other)
  <1>1. ~PendingBefore(list, view, m)
    BY ScanGrants
  <1>2. ASSUME NEW i \in DOMAIN list, i < m, i \in Decides(list, other) \/ Ruling!MatchesRule(list[i], other) = 1
        PROVE  list[i].effect = "allow" /\ ~list[i].approval
    <2>1. i \notin Decides(list, view)
      BY <1>2, FirstIs
    <2>2. Ruling!MatchesRule(list[i], view) = 1
      BY <1>2, <2>1 DEF Decides, Refined
    <2>3. list[i].effect # "deny"
      BY <2>1, <2>2 DEF Decides
    <2>4. QED
      BY <1>1, <1>2, <2>2, <2>3 DEF PendingBefore
  <1>3. Decides(list, view) # {} =>
          /\ m \in DOMAIN list /\ list[m].effect = "allow" /\ ~list[m].approval /\ m \in Decides(list, other)
    <2>1. SUFFICES ASSUME Decides(list, view) # {}
                   PROVE  m \in DOMAIN list /\ list[m].effect = "allow" /\ ~list[m].approval /\ m \in Decides(list, other)
      OBVIOUS
    <2>2. m \in Decides(list, view) /\ m \in DOMAIN list
      BY <2>1, FirstIs DEF Decides
    <2>3. list[m].effect = "allow" /\ ~list[m].approval
      BY <2>1, ScanGrants
    <2>4. Ruling!MatchesRule(list[m], view) = 2
      BY <2>2, <2>3 DEF Decides
    <2>5. Ruling!MatchesRule(list[m], other) = 2
      BY <2>2, <2>4 DEF Refined
    <2>6. QED
      BY <2>2, <2>3, <2>5 DEF Decides
  <1>4. n <= m /\ m \in Nat /\ n \in Nat /\ (Decides(list, view) = {} => m = Len(list) + 1)
    <2>1. m \in Nat /\ n \in Nat /\ n <= Len(list) + 1 /\ Len(list) \in Nat
      BY FirstIs
    <2>2. CASE Decides(list, view) = {}
      BY <2>1, <2>2 DEF First
    <2>3. CASE Decides(list, view) # {}
      BY <1>3, <2>1, <2>3, FirstIs
    <2>4. QED
      BY <2>2, <2>3
  <1>5. ~PendingBefore(list, other, n)
    <2>1. SUFFICES ASSUME NEW j \in DOMAIN list, j < n, Ruling!MatchesRule(list[j], other) = 1,
                          list[j].effect = "allow", list[j].approval
                   PROVE  FALSE
      BY DEF PendingBefore
    <2>2. j < m
      BY <1>4, <2>1
    <2>3. QED
      BY <1>2, <2>1, <2>2
  <1>6. CASE Decides(list, other) = {}
    <2>1. Decides(list, view) = {}
      BY <1>3, <1>6
    <2>2. default = "allow"
      BY <2>1, ScanGrants
    <2>3. QED
      BY <1>5, <1>6, <2>2, ScanGrants
  <1>7. CASE Decides(list, other) # {}
    <2>1. n \in Decides(list, other) /\ n \in DOMAIN list
      BY <1>7, FirstIs DEF Decides
    <2>2. list[n].effect = "allow" /\ ~list[n].approval
      <3>1. CASE n < m
        BY <1>2, <2>1, <3>1
      <3>2. CASE n = m
        <4>1. Decides(list, view) # {}
          <5>1. DOMAIN list = 1 .. Len(list) /\ Len(list) \in Nat
            OBVIOUS
          <5>2. m # Len(list) + 1
            BY <2>1, <3>2, <5>1
          <5>3. QED
            BY <1>4, <5>2
        <4>2. QED
          BY <1>3, <3>2, <4>1
      <3>3. QED
        BY <1>4, <3>1, <3>2
    <2>3. QED
      BY <1>5, <1>7, <2>2, ScanGrants
  <1>8. QED
    BY <1>6, <1>7

-----------------------------------------------------------------------------
(* What stays true of the list, the registries, the markers and the sink.  *)
AnyRule == Drafts \cup UNION {{doc.rules[i] : i \in DOMAIN doc.rules} : doc \in Documents \cup {DocumentAtStart}}

ReportedOnce == failed \in BOOLEAN /\ reports \in Nat /\ reports <= 1 /\ (~failed => reports = 0)

AccessInv ==
  /\ rules \in Seq(AnyRule) /\ Ruling!RulesAreLegal
  /\ file \in Documents \cup {DocumentAtStart}
  /\ Handlers
  /\ Ruling!MarkersNameTheirRule
  /\ ReportedOnce

LEMMA RulesAre ==
  ASSUME NEW rule \in AnyRule
  PROVE  IsRule(rule)
  <1>1. CASE rule \in Drafts
    BY <1>1, AccessAssumption
  <1>2. CASE rule \notin Drafts
    <2>1. PICK doc \in Documents \cup {DocumentAtStart} : \E i \in DOMAIN doc.rules : rule = doc.rules[i]
      BY <1>2 DEF AnyRule
    <2>2. \A i \in DOMAIN doc.rules : IsRule(doc.rules[i])
      BY AccessAssumption
    <2>3. QED
      BY <2>1, <2>2
  <1>3. QED
    BY <1>1, <1>2

(* What a document brings in is rules, each of them legal if it loads.     *)
LEMMA DocumentIs ==
  ASSUME NEW doc \in Documents \cup {DocumentAtStart}
  PROVE  /\ doc.rules \in Seq(AnyRule)
         /\ Ruling!Loads(doc) => \A i \in DOMAIN doc.rules : Ruling!Fault(doc.rules[i]) = "none"
  <1> DEFINE own == {doc.rules[i] : i \in DOMAIN doc.rules}
  <1>1. doc.rules \in Seq(own)
    BY AccessAssumption
  <1>2. own \subseteq AnyRule
    BY DEF AnyRule
  <1>3. DOMAIN doc.rules = 1 .. Len(doc.rules)
    BY <1>1
  <1> HIDE DEF own
  <1>4. doc.rules \in Seq(AnyRule)
    BY <1>1, <1>2
  <1>5. QED
    BY <1>3, <1>4 DEF Ruling!Loads

(* A new sink has nothing to report.                                       *)
LEMMA NewSinkIsQuiet ==
  ASSUME NEW f, NEW n, f = FALSE, n = 0
  PROVE  f \in BOOLEAN /\ n \in Nat /\ n <= 1 /\ (~f => n = 0)
  <1>1. f \in BOOLEAN
    BY Zenon
  <1>2. n \in Nat /\ n <= 1 /\ (~f => n = 0)
    OBVIOUS
  <1>3. QED
    BY <1>1, <1>2

LEMMA AccessStart ==
  ASSUME Ruling!Init
  PROVE  AccessInv
  <1>1. file = DocumentAtStart /\ Ruling!Loads(file) /\ rules = file.rules
    BY DEF Ruling!Init
  <1>2. rules \in Seq(AnyRule) /\ \A i \in DOMAIN rules : Ruling!Fault(rules[i]) = "none"
    BY <1>1, DocumentIs
  <1>3. Handlers
    BY DEF Ruling!Init, Handlers
  <1>4. warned = {} /\ ReportedOnce
    BY NewSinkIsQuiet DEF Ruling!Init, ReportedOnce
  <1>5. QED
    BY <1>1, <1>2, <1>3, <1>4 DEF AccessInv, Ruling!RulesAreLegal, Ruling!MarkersNameTheirRule

(* The rules a check skips are in the list.                                *)
LEMMA SkippedAre ==
  ASSUME AccessInv, NEW r
  PROVE  Ruling!Skipped(r) \subseteq DOMAIN rules
  <1> DEFINE d == Ruling!Check(r)
             outcome == [i \in DOMAIN rules |-> Ruling!MatchesRule(rules[i], r)]
             decides == {i \in DOMAIN rules : outcome[i] = 2 \/ (outcome[i] = 1 /\ rules[i].effect = "deny")}
  <1>1. DOMAIN rules = 1 .. Len(rules) /\ Len(rules) \in Nat
    BY DEF AccessInv
  <1>2. d.index = IF decides = {} THEN 0 ELSE Ruling!Min(decides)
    BY DEF Ruling!Check, Ruling!Scan, Ruling!Satisfied, Ruling!Unevaluable, Ruling!FinalizeDefaultEffect,
           Ruling!FinalizeRuleMatch, Ruling!Decision
  <1>3. decides \subseteq DOMAIN rules
    OBVIOUS
  <1>4. d.index \in Nat /\ d.index <= Len(rules)
    <2> HIDE DEF decides, d
    <2>1. CASE decides = {}
      BY <1>1, <1>2, <2>1
    <2>2. CASE decides # {}
      <3>1. decides \in SUBSET Nat
        BY <1>1, <1>3
      <3>2. Ruling!Min(decides) \in decides
        BY <2>2, <3>1, LeastIs
      <3>3. d.index \in 1 .. Len(rules)
        BY <1>1, <1>2, <1>3, <2>2, <3>2
      <3>4. QED
        BY <1>1, <3>3
    <2>3. QED
      BY <2>1, <2>2
  <1>5. Ruling!Skipped(r) \subseteq 1 .. (IF d.index = 0 THEN Len(rules) ELSE d.index)
    BY DEF Ruling!Skipped
  <1> HIDE DEF d
  <1>6. QED
    BY <1>1, <1>4, <1>5

LEMMA AccessStep ==
  ASSUME AccessInv, [Ruling!Next]_accessVars
  PROVE  AccessInv'
  <1>fresh. failed' = FALSE /\ reports' = 0 => ReportedOnce'
    BY NewSinkIsQuiet DEF ReportedOnce
  <1>same. UNCHANGED <<failed, reports>> => ReportedOnce'
    BY DEF ReportedOnce, AccessInv
  <1>1. ASSUME NEW rule \in Drafts, Ruling!TryAddRule(rule)
        PROVE  AccessInv'
    <2>1. rule \in AnyRule /\ Ruling!Fault(rule) = "none"
      BY <1>1 DEF AnyRule, Ruling!TryAddRule
    <2>2. /\ rules' \in Seq(AnyRule) /\ Len(rules') = 1 + Len(rules)
          /\ \A i \in 1 .. 1 + Len(rules) : rules'[i] = IF i <= 1 THEN rule ELSE rules[i - 1]
      <3>1. <<rule>> \in Seq(AnyRule) /\ Len(<<rule>>) = 1 /\ <<rule>>[1] = rule
        BY <2>1
      <3>2. rules \in Seq(AnyRule) /\ Len(rules) \in Nat /\ rules' = <<rule>> \o rules
        BY <1>1 DEF AccessInv, Ruling!TryAddRule
      <3>3. QED
        BY <3>1, <3>2, ConcatProperties
    <2>3. \A i \in DOMAIN rules' : Ruling!Fault(rules'[i]) = "none"
      <3>1. SUFFICES ASSUME NEW i \in 1 .. 1 + Len(rules)
                     PROVE  Ruling!Fault(rules'[i]) = "none"
        BY <2>2
      <3>2. CASE i = 1
        BY <2>1, <2>2, <3>2
      <3>3. CASE i # 1
        <4>1. i - 1 \in 1 .. Len(rules) /\ DOMAIN rules = 1 .. Len(rules)
          BY <3>3 DEF AccessInv
        <4>2. rules'[i] = rules[i - 1]
          BY <2>2, <3>3
        <4>3. QED
          BY <4>1, <4>2 DEF AccessInv, Ruling!RulesAreLegal
      <3>4. QED
        BY <3>2, <3>3
    <2>4. warned' = {} /\ UNCHANGED <<file, sync, async, failed, reports>>
      BY <1>1 DEF Ruling!TryAddRule, Ruling!handlers, Ruling!sink
    <2>5. QED
      BY <1>same, <2>2, <2>3, <2>4 DEF AccessInv, Handlers, Ruling!RulesAreLegal, Ruling!MarkersNameTheirRule
  <1>2. ASSUME NEW callers, NEW targets, NEW conditions, Ruling!RemoveRule(callers, targets, conditions)
        PROVE  AccessInv'
    <2> DEFINE found == {i \in DOMAIN rules :
                           /\ rules[i].callers = callers /\ rules[i].targets = targets
                           /\ conditions \in {NoConditions, rules[i].conditions}}
    <2>1. found # {} /\ rules' = Ruling!RemoveAt(rules, Ruling!Min(found))
      BY <1>2 DEF Ruling!RemoveRule
    <2>2. found \subseteq 1 .. Len(rules) /\ Len(rules) \in Nat /\ DOMAIN rules = 1 .. Len(rules)
      BY DEF AccessInv
    <2> HIDE DEF found
    <2>3. PICK i : i = Ruling!Min(found)
      OBVIOUS
    <2>4. i \in 1 .. Len(rules)
      <3>1. found \in SUBSET Nat
        BY <2>2
      <3>2. QED
        BY <2>1, <2>2, <2>3, <3>1, LeastIs
    <2>5. /\ rules' \in Seq(AnyRule) /\ Len(rules') = Len(rules) - 1
          /\ \A j \in 1 .. Len(rules) - 1 : rules'[j] = IF j < i THEN rules[j] ELSE rules[j + 1]
      <3>1. rules' = RemoveAt(rules, i)
        BY <2>1, <2>3 DEF Ruling!RemoveAt, RemoveAt
      <3>2. rules \in Seq(AnyRule)
        BY DEF AccessInv
      <3>3. QED
        BY <2>4, <3>1, <3>2, Removed
    <2>6. \A j \in DOMAIN rules' : Ruling!Fault(rules'[j]) = "none"
      <3>1. SUFFICES ASSUME NEW j \in 1 .. Len(rules) - 1
                     PROVE  Ruling!Fault(rules'[j]) = "none"
        BY <2>5
      <3>2. PICK n \in DOMAIN rules : rules'[j] = rules[n]
        <4>1. j \in DOMAIN rules /\ j + 1 \in DOMAIN rules
          BY <2>2
        <4>2. QED
          BY <2>5, <4>1
      <3>3. QED
        BY <3>2 DEF AccessInv, Ruling!RulesAreLegal
    <2>7. warned' = {} /\ UNCHANGED <<file, sync, async, failed, reports>>
      BY <1>2 DEF Ruling!RemoveRule, Ruling!handlers, Ruling!sink
    <2>8. QED
      BY <1>same, <2>5, <2>6, <2>7 DEF AccessInv, Handlers, Ruling!RulesAreLegal, Ruling!MarkersNameTheirRule
  <1>3. ASSUME NEW doc \in Documents, Ruling!WriteFile(doc)
        PROVE  AccessInv'
    BY <1>same, <1>3 DEF Ruling!WriteFile, Ruling!book, Ruling!handlers, Ruling!sink, AccessInv, Handlers,
                Ruling!RulesAreLegal, Ruling!MarkersNameTheirRule
  <1>4. CASE Ruling!Reload
    <2>1. /\ Ruling!Loads(file) /\ rules' = file.rules /\ warned' = {} /\ failed' = FALSE /\ reports' = 0
          /\ UNCHANGED <<file, sync, async>>
      BY <1>4 DEF Ruling!Reload, Ruling!NewSink, Ruling!handlers
    <2>2. rules' \in Seq(AnyRule) /\ \A i \in DOMAIN rules' : Ruling!Fault(rules'[i]) = "none"
      BY <2>1, DocumentIs DEF AccessInv
    <2>3. QED
      BY <1>fresh, <2>1, <2>2 DEF AccessInv, Handlers, Ruling!RulesAreLegal, Ruling!MarkersNameTheirRule
  <1>5. ASSUME NEW cb, Ruling!SetAuditLogger(cb)
        PROVE  AccessInv'
    BY <1>fresh, <1>5 DEF Ruling!SetAuditLogger, Ruling!NewSink, Ruling!book, Ruling!handlers, AccessInv, Handlers,
                Ruling!RulesAreLegal, Ruling!MarkersNameTheirRule
  <1>6. ASSUME NEW config, Ruling!SetAuditConfig(config)
        PROVE  AccessInv'
    BY <1>fresh, <1>6 DEF Ruling!SetAuditConfig, Ruling!NewSink, Ruling!book, Ruling!handlers, AccessInv, Handlers,
                Ruling!RulesAreLegal, Ruling!MarkersNameTheirRule
  <1>7. ASSUME NEW key \in Late, Ruling!RegisterCondition(key) \/ Ruling!RegisterAsyncCondition(key)
        PROVE  AccessInv'
    <2>1. Handlers'
      BY <1>7, AccessAssumption DEF AccessInv, Handlers, Ruling!RegisterCondition, Ruling!RegisterAsyncCondition
    <2>2. UNCHANGED <<rules, file, warned, failed, reports>>
      BY <1>7 DEF Ruling!RegisterCondition, Ruling!RegisterAsyncCondition, Ruling!book, Ruling!sink
    <2>3. QED
      BY <1>same, <2>1, <2>2 DEF AccessInv, Ruling!RulesAreLegal, Ruling!MarkersNameTheirRule
  <1>8. ASSUME NEW r \in Requests, Ruling!CheckAccess(r)
        PROVE  AccessInv'
    <2>1. UNCHANGED <<rules, file, sync, async>>
      BY <1>8 DEF Ruling!CheckAccess, Ruling!book, Ruling!handlers
    <2>2. \A w \in warned' : w[1] \in DOMAIN rules /\ rules[w[1]] = w[2]
      <3>1. SUFFICES ASSUME NEW w \in warned', w \notin warned
                     PROVE  w[1] \in DOMAIN rules /\ rules[w[1]] = w[2]
        BY DEF AccessInv, Ruling!MarkersNameTheirRule
      <3>2. PICK i \in Ruling!Skipped(r) : w = <<i, rules[i]>>
        BY <1>8, <3>1 DEF Ruling!CheckAccess
      <3>3. QED
        BY <3>2, SkippedAre
    <2>3. ReportedOnce'
      <3>1. /\ failed' = (failed \/ callback = "panics")
            /\ reports' = IF callback = "panics" /\ ~failed THEN reports + 1 ELSE reports
        BY <1>8 DEF Ruling!CheckAccess
      <3>2. failed \in BOOLEAN /\ reports \in Nat /\ reports <= 1 /\ (~failed => reports = 0)
        BY DEF AccessInv, ReportedOnce
      <3>3. CASE callback = "panics" /\ ~failed
        <4>1. failed' \in BOOLEAN /\ failed'
          BY <3>1, <3>3, Zenon
        <4>2. reports' = 1
          BY <3>1, <3>2, <3>3
        <4>3. QED
          BY <4>1, <4>2 DEF ReportedOnce
      <3>4. CASE ~(callback = "panics" /\ ~failed)
        <4>1. failed' = failed /\ reports' = reports
          BY <3>1, <3>2, <3>4, Zenon
        <4>2. QED
          BY <1>same, <4>1
      <3>5. QED
        BY <3>3, <3>4
    <2>4. QED
      BY <2>1, <2>2, <2>3 DEF AccessInv, Handlers, Ruling!RulesAreLegal, Ruling!MarkersNameTheirRule
  <1>9. CASE UNCHANGED accessVars
    BY <1>same, <1>9 DEF accessVars, AccessInv, Handlers, Ruling!RulesAreLegal, Ruling!MarkersNameTheirRule
  <1>10. QED
    BY <1>1, <1>2, <1>3, <1>4, <1>5, <1>6, <1>7, <1>8, <1>9 DEF Ruling!Next

-----------------------------------------------------------------------------
(* The request with one more answer is like the request.                   *)
LEMMA OneAnswerMore ==
  ASSUME NEW r \in Requests, NEW k \in ConditionKeys, r.answers[k] = 1, NEW answer \in {0, 2}
  PROVE  Alike(r, [r EXCEPT !.answers[k] = answer])
  <1> DEFINE other == [r EXCEPT !.answers[k] = answer]
  <1>1. /\ DOMAIN r = {"mode", "caller", "target", "ctx", "projection", "answers"}
        /\ r.answers \in [ConditionKeys -> 0 .. 2]
    BY AccessAssumption
  <1>2. /\ other.caller = r.caller /\ other.target = r.target /\ other.ctx = r.ctx
        /\ other.mode = r.mode /\ other.projection = r.projection
    BY <1>1
  <1>3. other.answers = [r.answers EXCEPT ![k] = answer]
    BY <1>1
  <1> HIDE DEF other
  <1>4. other.answers \in [ConditionKeys -> 0 .. 2]
    BY <1>1, <1>3
  <1>5. \A c \in ConditionKeys : Refined(r.answers[c], other.answers[c])
    BY <1>1, <1>3 DEF Refined
  <1>6. Alike(r, other)
    BY <1>1, <1>2, <1>4, <1>5 DEF Alike, Answering, Answered, Three
  <1>7. QED
    BY <1>6 DEF other

LEMMA ClosedNow ==
  ASSUME AccessInv
  PROVE  Ruling!FailsClosed
  <1>1. SUFFICES ASSUME NEW r \in Requests, Ruling!Grants(Ruling!Check(r)),
                        NEW k \in ConditionKeys, r.answers[k] = 1, NEW answer \in {0, 2}
                 PROVE  Ruling!Grants(Ruling!Scan(rules, defaultEffect, [r EXCEPT !.answers[k] = answer]))
    BY DEF Ruling!FailsClosed, Ruling!Unsatisfied, Ruling!Unevaluable, Ruling!Satisfied
  <1>2. PICK other : other = [r EXCEPT !.answers[k] = answer]
    OBVIOUS
  <1>3. Alike(r, other)
    BY <1>1, <1>2, OneAnswerMore
  <1>4. rules \in Seq(AnyRule) /\ Handlers /\ \A i \in DOMAIN rules : IsRule(rules[i])
    BY RulesAre DEF AccessInv
  <1>5. \A i \in DOMAIN rules : Refined(Ruling!MatchesRule(rules[i], r), Ruling!MatchesRule(rules[i], other))
    BY <1>3, <1>4, RuleRefined
  <1>6. \A i \in DOMAIN rules : rules[i].effect \in {"allow", "deny"} /\ rules[i].approval \in BOOLEAN
    BY <1>4 DEF IsRule, AccessInv, Ruling!RulesAreLegal, Ruling!Fault
  <1>7. Ruling!Grants(Ruling!Scan(rules, defaultEffect, r))
    BY <1>1 DEF Ruling!Check
  <1>8. Ruling!Grants(Ruling!Scan(rules, defaultEffect, other))
    BY <1>4, <1>5, <1>6, <1>7, GrantsStay
  <1>9. QED
    BY <1>2, <1>8

(* A pattern with a question mark matches no id, a universal one matches   *)
(* every id, and so the findings of the second tier are true.              *)
LEMMA NeverMatchesIsTrue ==
  ASSUME NEW r \in Requests, NEW patterns, NEW field, NEW id \in {r.caller, r.target}, NEW ctx,
         field = "targets" => id = r.target, Ruling!NeverMatches(field, patterns)
  PROVE  ~Ruling!MatchPatterns(patterns, id, ctx)
  <1>1. /\ id # "a?" /\ "a?" \notin DOMAIN Covers /\ "**" \in DOMAIN Covers /\ id \in Covers["**"]
        /\ field = "targets" => id # Ruling!External
    <2>1. /\ {"a?"} \cap DOMAIN Covers = {} /\ r.target # Ruling!External
          /\ {r.caller, r.target} \cap {"a?"} = {}
          /\ \A p \in {"*", "**"} \ {"*"} : p \in DOMAIN Covers /\ {r.caller, r.target} \subseteq Covers[p]
      BY AccessAssumption DEF Ruling!Questioned, Ruling!Universal
    <2>2. "**" \in DOMAIN Covers /\ {r.caller, r.target} \subseteq Covers["**"]
      BY <2>1
    <2>3. QED
      BY <2>1, <2>2
  <1>2. CASE patterns[1] = "$not"
    <2>1. patterns[2] \in {"*", "**"}
      BY <1>2 DEF Ruling!NeverMatches, Ruling!Universal
    <2>2. Ruling!MatchACLPattern(patterns[2], id, ctx)
      BY <1>1, <2>1 DEF Ruling!MatchACLPattern, Ruling!MatchPattern, Ruling!External
    <2>3. QED
      BY <1>2, <2>2 DEF Ruling!MatchPatterns
  <1>3. CASE patterns[1] # "$not"
    <2>1. \A p \in Ruling!ToSet(Ruling!Operands(patterns)) : ~Ruling!MatchACLPattern(p, id, ctx)
      <3>1. CASE Ruling!ToSet(Ruling!Operands(patterns)) \subseteq {"a?"}
        BY <1>1, <3>1 DEF Ruling!MatchACLPattern, Ruling!MatchPattern, Ruling!External
      <3>2. CASE field = "targets" /\ Ruling!ToSet(Ruling!Operands(patterns)) = {Ruling!External}
        BY <1>1, <3>2 DEF Ruling!MatchACLPattern, Ruling!External
      <3>3. QED
        BY <1>3, <3>1, <3>2 DEF Ruling!NeverMatches, Ruling!Questioned
    <2>2. Ruling!Operands(patterns) = IF patterns[1] = "$or" THEN Tail(patterns) ELSE patterns
      BY DEF Ruling!Operands
    <2>3. QED
      BY <1>3, <2>1, <2>2 DEF Ruling!MatchPatterns
  <1>4. QED
    BY <1>2, <1>3

LEMMA LegalNow ==
  ASSUME AccessInv
  PROVE  /\ Ruling!RulesAreLegal /\ Ruling!MarkersNameTheirRule /\ Ruling!FindingsAreTrue
         /\ Ruling!AuditIsWhole
  <1>1. Ruling!FindingsAreTrue
    BY NeverMatchesIsTrue DEF Ruling!FindingsAreTrue
  <1>2. Ruling!AuditIsWhole
    BY DEF AccessInv, ReportedOnce, Ruling!AuditIsWhole, Ruling!Sinks
  <1>3. QED
    BY <1>1, <1>2 DEF AccessInv

-----------------------------------------------------------------------------
(* A check that lets a call run would let it run whatever a handler that   *)
(* gave no answer had answered: no missing handler, faulty operand or      *)
(* failing handler ever opens the gate (acl.rs check_access, acl_handlers  *)
(* evaluate_conditions).                                                   *)
THEOREM ClosedWhenUnanswered == Spec => []FailsClosed
  <1> DEFINE Kept == focus = "acl" => AccessInv
  <1>1. Init => Kept
    BY AccessStart DEF Init
  <1>2. Kept /\ [Next]_vars => Kept'
    BY OneMoves, AccessStep
  <1>3. Kept => FailsClosed
    BY ClosedNow DEF FailsClosed
  <1>4. QED
    <2> HIDE DEF Kept
    <2>1. QED
      BY <1>1, <1>2, <1>3, PTL DEF Spec

(* Whatever was added, removed, written or reloaded, no rule of the list   *)
(* is one that try_add_rule or the loader refuses, a marker silences only  *)
(* its own rule, a finding of validate_rules is true of every call, and    *)
(* the failure of a sink is reported once.                                 *)
THEOREM AccessStaysLegal == Spec => []AccessRules
  <1> DEFINE Kept == focus = "acl" => AccessInv
  <1>1. Init => Kept
    BY AccessStart DEF Init
  <1>2. Kept /\ [Next]_vars => Kept'
    BY OneMoves, AccessStep
  <1>3. Kept => AccessRules
    BY LegalNow DEF AccessRules
  <1>4. QED
    <2> HIDE DEF Kept
    <2>1. QED
      BY <1>1, <1>2, <1>3, PTL DEF Spec
=============================================================================
