--------------------------- MODULE PipelineProofs ---------------------------
(***************************************************************************)
(* Proofs about the pipelines in Services: the engine that runs the steps  *)
(* of a strategy, for every pipeline, list of hooks and run options, and   *)
(* the strategies, for every step, section and sequence of edits.          *)
(***************************************************************************)
EXTENDS ServicesProofs

HookSet   == {Hooks[i] : i \in DOMAIN Hooks}
StepNames == UNION {{pipeline[i].name : i \in DOMAIN pipeline} : pipeline \in Pipelines}
Reasons   == {Nothing, "missing_dependency", "no_match", "dry_run", "error_ignored", "error_recovered"}
Records   == [name : StepNames, action : {"skipped", "abort", "continue", "skip_to", "other"},
              reason : Reasons]

-----------------------------------------------------------------------------
(* The invariant of the engine.                                            *)

(* The step at the cursor is being run.                                    *)
Within == phase \in {"before", "unwinding", "failing", "after"}

EngineTypes ==
  /\ steps \in Pipelines /\ options \in Options
  /\ cursor \in 1 .. Len(steps) + 1 /\ hookIndex \in 0 .. Len(Hooks) + 1
  /\ phase \in {"select", "before", "unwinding", "failing", "after", "done"}
  /\ hookLog \in [before : Seq(HookSet), error : Seq(HookSet), after : Seq(HookSet)]
  /\ traced \in Seq(Records) /\ bodies \in Seq(1 .. Len(steps)) /\ runs \in Nat \ {0}
  /\ phase = "after" => bodyEnd \in {"continue", "abort", "skip_to", "other", "recovered"}
  /\ phase # "done" => ending = Nothing
  /\ Within => cursor <= Len(steps) /\ ~Running!StopsHere /\ (options.dry => steps[cursor].pure)

(* The first of the hooks were entered, and those behind h were told on    *)
(* the way back.                                                           *)
Entered(told_, n)     == Len(told_) = n /\ \A k \in 1 .. n : told_[k] = Hooks[k]
WayBack(told_, n, h)  == Len(told_) = n - h /\ \A k \in 1 .. n - h : told_[k] = Hooks[n + 1 - k]

AllOpened == Running!Range(hookLog.after) \cup Running!Range(hookLog.error) \subseteq Running!Range(hookLog.before)

OnionInv ==
  /\ AllOpened
  /\ phase = "before" =>
       hookIndex >= 1 /\ Entered(hookLog.before, hookIndex - 1) /\ hookLog.error = <<>> /\ hookLog.after = <<>>
  /\ phase = "unwinding" =>
       \E n \in 1 .. Len(Hooks) :
         /\ hookIndex <= n /\ Entered(hookLog.before, n) /\ WayBack(hookLog.error, n, hookIndex)
         /\ hookLog.after = <<>>
  /\ phase = "failing" =>
       /\ hookIndex <= Len(Hooks) /\ Entered(hookLog.before, Len(Hooks))
       /\ WayBack(hookLog.error, Len(Hooks), hookIndex) /\ hookLog.after = <<>>
  /\ phase = "after" =>
       /\ hookIndex <= Len(Hooks) /\ Entered(hookLog.before, Len(Hooks))
       /\ WayBack(hookLog.after, Len(Hooks), hookIndex)

(* The bodies that ran, and whose output is kept.                          *)
Ran == {bodies[k] : k \in DOMAIN bodies}

BodiesInv ==
  /\ \A j, k \in DOMAIN bodies : j < k => bodies[j] < bodies[k]
  /\ \A i \in Ran : i <= cursor /\ (phase \in {"select", "before", "unwinding"} => i < cursor)
  /\ phase \in {"failing", "after"} => cursor \in Ran
  /\ options.dry => \A i \in Ran : steps[i].pure
  /\ \A n \in pastOutputs : \E i \in Ran : steps[i].name = n /\ (phase # "done" => i < cursor)
  /\ \A i \in Ran : ending = "ok" \/ (phase # "done" /\ i < cursor) =>
       options.dry \/ steps[i].name \in pastOutputs \/ steps[i].ignores

(* How many steps a first run has traced.                                  *)
Through ==
  IF phase = "done" /\ cursor <= Len(steps) /\ ~Running!StopsHere THEN cursor ELSE cursor - 1

TraceInv ==
  runs = 1 =>
    /\ options.only = Nothing =>
         Len(traced) = Through /\ \A i \in 1 .. Through : traced[i].name = steps[i].name
    /\ ~options.dry /\ phase # "done" => \A i \in DOMAIN traced : traced[i].action # "abort"
    /\ ~options.dry /\ ending = "aborted" => Running!AbortedStep = Running!Step.name

EngineInv == EngineTypes /\ OnionInv /\ BodiesInv /\ TraceInv

LEMMA PipelineIs ==
  ASSUME EngineTypes
  PROVE  /\ Len(steps) \in Nat /\ DOMAIN steps = 1 .. Len(steps)
         /\ \A i, j \in 1 .. Len(steps) : steps[i].name = steps[j].name => i = j
         /\ \A i \in 1 .. Len(steps) :
              steps[i].name \in StepNames /\ steps[i].pure \in BOOLEAN /\ steps[i].ignores \in BOOLEAN
         /\ options.dry \in BOOLEAN
         /\ Len(Hooks) \in Nat /\ Hooks \in Seq(HookSet) /\ DOMAIN Hooks = 1 .. Len(Hooks)
  <1>1. steps \in Pipelines /\ options \in Options
    BY DEF EngineTypes
  <1>2. steps \in Seq({steps[i] : i \in DOMAIN steps})
    BY <1>1, PipelineAssumption DEF IsList
  <1>3. Len(steps) \in Nat /\ DOMAIN steps = 1 .. Len(steps)
    BY <1>2
  <1>4. Hooks \in Seq(HookSet)
    BY PipelineAssumption DEF HookSet, IsList
  <1>5. Len(Hooks) \in Nat /\ DOMAIN Hooks = 1 .. Len(Hooks)
    BY <1>4
  <1>6. \A i \in DOMAIN steps : steps[i].name \in StepNames
    BY <1>1 DEF StepNames
  <1>7. \A i, j \in DOMAIN steps : steps[i].name = steps[j].name => i = j
    BY <1>1, PipelineAssumption
  <1>8. \A i \in DOMAIN steps : steps[i].pure \in BOOLEAN /\ steps[i].ignores \in BOOLEAN
    BY <1>1, PipelineAssumption
  <1>9. options.dry \in BOOLEAN
    BY <1>1, PipelineAssumption
  <1>10. QED
    BY <1>3, <1>4, <1>5, <1>6, <1>7, <1>8, <1>9

LEMMA RecordIs ==
  ASSUME EngineTypes, cursor <= Len(steps),
         NEW action \in {"skipped", "abort", "continue", "skip_to", "other"},
         NEW reason \in Reasons
  PROVE  /\ Running!Record(Running!Step, action, reason) \in Records
         /\ Running!Record(Running!Step, action, reason).name = steps[cursor].name
         /\ Running!Record(Running!Step, action, reason).action = action
  <1>1. steps[cursor].name \in StepNames
    BY PipelineIs DEF EngineTypes
  <1>2. QED
    BY <1>1 DEF Running!Record, Running!Step, Records

(* The first aborted record is the last one, when it is the only one.      *)
LEMMA LastAborts ==
  ASSUME NEW list \in Seq(Records), NEW r \in Records, r.action = "abort",
         \A i \in DOMAIN list : list[i].action # "abort"
  PROVE  (CHOOSE i \in DOMAIN Append(list, r) :
            /\ Append(list, r)[i].action = "abort"
            /\ \A j \in 1 .. i - 1 : Append(list, r)[j].action # "abort") = Len(list) + 1
  <1> DEFINE longer == Append(list, r)
             FirstAborts(i) == longer[i].action = "abort" /\ \A j \in 1 .. i - 1 : longer[j].action # "abort"
  <1>1. /\ DOMAIN longer = 1 .. Len(list) + 1 /\ longer[Len(list) + 1] = r
        /\ \A i \in 1 .. Len(list) : longer[i] = list[i]
    OBVIOUS
  <1> HIDE DEF longer
  <1>2. DOMAIN list = 1 .. Len(list) /\ Len(list) \in Nat
    OBVIOUS
  <1>3. FirstAborts(Len(list) + 1)
    BY <1>1, <1>2
  <1>4. \A i \in DOMAIN longer : FirstAborts(i) => i = Len(list) + 1
    BY <1>1, <1>2
  <1> HIDE DEF FirstAborts
  <1>5. (CHOOSE i \in DOMAIN longer : FirstAborts(i)) = Len(list) + 1
    BY <1>1, <1>2, <1>3, <1>4
  <1>6. QED
    BY <1>5 DEF longer, FirstAborts

(* A record more, as the loop goes on or ends at the step.                 *)
LEMMA TraceGrows ==
  ASSUME EngineInv, phase # "done", cursor <= Len(steps), ~Running!StopsHere,
         NEW r \in Records, r.name = steps[cursor].name, traced' = Append(traced, r),
         UNCHANGED <<steps, options, runs>>,
         \/ /\ phase' = "select" /\ cursor' = cursor + 1 /\ ending' = ending
            /\ r.action = "abort" => options.dry
         \/ /\ phase' = "done" /\ cursor' = cursor
            /\ ending' = "aborted" => r.action = "abort"
  PROVE  TraceInv' /\ traced' \in Seq(Records)
  <1>1. /\ traced \in Seq(Records) /\ cursor \in 1 .. Len(steps) /\ ending = Nothing
        /\ Len(steps) \in Nat
    BY PipelineIs DEF EngineInv, EngineTypes
  <1>2. /\ traced' \in Seq(Records) /\ Len(traced') = Len(traced) + 1
        /\ DOMAIN traced' = 1 .. Len(traced) + 1 /\ traced'[Len(traced) + 1] = r
        /\ \A i \in 1 .. Len(traced) : traced'[i] = traced[i]
    BY <1>1
  <1>3. SUFFICES ASSUME runs = 1
                 PROVE  TraceInv'
    BY <1>2 DEF TraceInv
  <1>4. Through = cursor - 1 /\ Through' = cursor
    BY <1>1 DEF Through, Running!StopsHere, Running!Step
  <1>5. (options.only = Nothing =>
           Len(traced) = Through /\ \A i \in 1 .. Through : traced[i].name = steps[i].name)'
    BY <1>1, <1>2, <1>3, <1>4 DEF EngineInv, TraceInv
  <1>6. (~options.dry /\ phase # "done" => \A i \in DOMAIN traced : traced[i].action # "abort")'
    BY <1>1, <1>2, <1>3 DEF EngineInv, TraceInv
  <1>7. (~options.dry /\ ending = "aborted" => Running!AbortedStep = Running!Step.name)'
    <2>1. SUFFICES ASSUME ~options.dry, ending' = "aborted"
                   PROVE  Running!AbortedStep' = steps[cursor].name
      <3>1. (Running!Step.name)' = steps[cursor].name \/ ending' # "aborted"
        BY <1>1, PipelineAssumption DEF Running!Step
      <3>2. QED
        BY <3>1
    <2>2. \A i \in DOMAIN traced : traced[i].action # "abort"
      BY <1>3, <2>1 DEF EngineInv, TraceInv
    <2>3. r.action = "abort"
      BY <1>1, <2>1, PipelineAssumption
    <2>4. Running!AbortedStep' = traced'[Len(traced) + 1].name
      BY <1>1, <2>2, <2>3, LastAborts DEF Running!AbortedStep
    <2>5. QED
      BY <1>2, <2>4
  <1>8. QED
    BY <1>5, <1>6, <1>7 DEF TraceInv

(* The trace stays while the step runs, or the step that ends the loop is  *)
(* not run.                                                                *)
LEMMA TraceStays ==
  ASSUME EngineInv, phase # "done", UNCHANGED <<steps, options, runs, traced, cursor>>,
         \/ phase' # "done" /\ ending' = ending
         \/ phase' = "done" /\ ending' = "ok" /\ (cursor > Len(steps) \/ Running!StopsHere)
  PROVE  TraceInv'
  <1>1. Through' = Through
    <2>1. Running!StopsHere' = Running!StopsHere
      BY DEF Running!StopsHere, Running!Step
    <2>2. Through = cursor - 1
      BY DEF Through
    <2>3. cursor \in Nat /\ Len(steps) \in Nat
      BY PipelineIs DEF EngineInv, EngineTypes
    <2>4. Through' = cursor - 1
      BY <2>1, <2>3 DEF Through
    <2>5. QED
      BY <2>2, <2>4
  <1>2. ending' # "aborted"
    BY PipelineAssumption DEF EngineInv, EngineTypes
  <1>3. QED
    BY <1>1, <1>2 DEF EngineInv, TraceInv

(* No body runs and no output is kept: the loop goes on, from a step whose *)
(* body did not run or whose error is ignored, or a hook is told.          *)
LEMMA BodiesStay ==
  ASSUME EngineInv, phase # "done", UNCHANGED <<steps, options, bodies, pastOutputs>>,
         cursor' \in Nat, cursor' >= cursor,
         phase' \in {"select", "before", "unwinding"} =>
           cursor' > cursor \/ phase \in {"select", "before", "unwinding"},
         phase' \in {"failing", "after"} => phase \in {"failing", "after"} /\ cursor' = cursor,
         cursor' > cursor \/ ending' = "ok" =>
           phase \in {"select", "before", "unwinding"} \/ steps[cursor].ignores,
         cursor' > cursor => cursor' = cursor + 1
  PROVE  BodiesInv'
  <1>1. /\ cursor \in Nat /\ Ran' = Ran /\ Ran \subseteq Nat
        /\ ending # "ok"
    BY PipelineAssumption DEF EngineInv, EngineTypes, Ran
  <1>2. (\A j, k \in DOMAIN bodies : j < k => bodies[j] < bodies[k])'
    BY DEF EngineInv, BodiesInv
  <1>3. (\A i \in Ran : i <= cursor /\ (phase \in {"select", "before", "unwinding"} => i < cursor))'
    BY <1>1 DEF EngineInv, BodiesInv
  <1>4. (phase \in {"failing", "after"} => cursor \in Ran)'
    BY <1>1 DEF EngineInv, BodiesInv
  <1>5. (options.dry => \A i \in Ran : steps[i].pure)'
    BY <1>1 DEF EngineInv, BodiesInv
  <1>6. (\A n \in pastOutputs : \E i \in Ran : steps[i].name = n /\ (phase # "done" => i < cursor))'
    <2>1. SUFFICES ASSUME NEW n \in pastOutputs
                   PROVE  \E i \in Ran : steps[i].name = n /\ i < cursor'
      BY <1>1
    <2>2. PICK i \in Ran : steps[i].name = n /\ i < cursor
      BY DEF EngineInv, BodiesInv
    <2>3. QED
      BY <1>1, <2>2
  <1>7. (\A i \in Ran : ending = "ok" \/ (phase # "done" /\ i < cursor) =>
           options.dry \/ steps[i].name \in pastOutputs \/ steps[i].ignores)'
    <2>1. SUFFICES ASSUME NEW i \in Ran, ending' = "ok" \/ (phase' # "done" /\ i < cursor')
                   PROVE  options.dry \/ steps[i].name \in pastOutputs \/ steps[i].ignores
      BY <1>1
    <2>2. CASE i < cursor
      BY <2>2 DEF EngineInv, BodiesInv
    <2>3. CASE ~(i < cursor)
      <3>1. i = cursor /\ phase \notin {"select", "before", "unwinding"}
        BY <1>1, <2>3 DEF EngineInv, BodiesInv
      <3>2. cursor' > cursor \/ ending' = "ok"
        BY <1>1, <2>1, <3>1
      <3>3. QED
        BY <3>1, <3>2
    <2>4. QED
      BY <2>2, <2>3
  <1>8. QED
    BY <1>2, <1>3, <1>4, <1>5, <1>6, <1>7 DEF BodiesInv

LEMMA BodiesWait ==
  ASSUME EngineInv, phase # "done", UNCHANGED <<steps, options, bodies, pastOutputs, cursor, ending>>,
         phase' \in {"before", "unwinding"} => phase \in {"before", "unwinding"},
         phase' \in {"before", "unwinding", "failing", "after"},
         phase' \in {"failing", "after"} => phase \in {"failing", "after"}
  PROVE  BodiesInv'
  <1>1. ending' # "ok" /\ cursor \in Nat
    BY PipelineAssumption DEF EngineInv, EngineTypes
  <1>2. cursor' \in Nat /\ cursor' >= cursor /\ ~(cursor' > cursor)
    BY <1>1
  <1>3. QED
    BY <1>1, <1>2, BodiesStay

(* The body of the step at the cursor runs.                                *)
LEMMA BodyRuns ==
  ASSUME EngineInv, phase = "before", UNCHANGED <<steps, options, pastOutputs, ending>>,
         bodies' = Append(bodies, cursor),
         \/ phase' \in {"failing", "after"} /\ cursor' = cursor
         \/ phase' = "select" /\ cursor' = cursor + 1 /\ options.dry
  PROVE  BodiesInv' /\ bodies' \in Seq(1 .. Len(steps))
  <1>1. /\ cursor \in 1 .. Len(steps) /\ Len(steps) \in Nat /\ ending # "ok" /\ bodies \in Seq(1 .. Len(steps))
        /\ options.dry => steps[cursor].pure
    BY PipelineIs, PipelineAssumption DEF EngineInv, EngineTypes, Within
  <1>2. /\ bodies' \in Seq(1 .. Len(steps)) /\ DOMAIN bodies' = 1 .. Len(bodies) + 1
        /\ Len(bodies) \in Nat /\ DOMAIN bodies = 1 .. Len(bodies)
        /\ bodies'[Len(bodies) + 1] = cursor /\ \A k \in 1 .. Len(bodies) : bodies'[k] = bodies[k]
    BY <1>1
  <1>3. Ran' = Ran \cup {cursor} /\ Ran \subseteq 1 .. Len(steps)
    <2>1. Ran' = {bodies'[k] : k \in 1 .. Len(bodies) + 1}
      BY <1>2 DEF Ran
    <2>2. Ran = {bodies[k] : k \in 1 .. Len(bodies)}
      BY <1>2 DEF Ran
    <2>3. 1 .. Len(bodies) + 1 = (1 .. Len(bodies)) \cup {Len(bodies) + 1}
      BY <1>2
    <2>4. QED
      BY <1>1, <1>2, <2>1, <2>2, <2>3
  <1>4. \A i \in Ran : i < cursor
    BY DEF EngineInv, BodiesInv
  <1>5. (\A j, k \in DOMAIN bodies : j < k => bodies[j] < bodies[k])'
    <2>1. SUFFICES ASSUME NEW j \in 1 .. Len(bodies) + 1, NEW k \in 1 .. Len(bodies) + 1, j < k
                   PROVE  bodies'[j] < bodies'[k]
      BY <1>2
    <2>2. j \in DOMAIN bodies /\ bodies'[j] = bodies[j]
      BY <1>2, <2>1
    <2>3. CASE k \in DOMAIN bodies
      BY <1>2, <2>1, <2>2, <2>3 DEF EngineInv, BodiesInv
    <2>4. CASE k = Len(bodies) + 1
      BY <1>2, <1>4, <2>2, <2>4 DEF Ran
    <2>5. QED
      BY <1>2, <2>3, <2>4
  <1>6. (\A i \in Ran : i <= cursor /\ (phase \in {"select", "before", "unwinding"} => i < cursor))'
    BY <1>1, <1>3, <1>4
  <1>7. (phase \in {"failing", "after"} => cursor \in Ran)'
    BY <1>3
  <1>8. (options.dry => \A i \in Ran : steps[i].pure)'
    BY <1>1, <1>3 DEF EngineInv, BodiesInv
  <1>9. (\A n \in pastOutputs : \E i \in Ran : steps[i].name = n /\ (phase # "done" => i < cursor))'
    <2>1. SUFFICES ASSUME NEW n \in pastOutputs
                   PROVE  \E i \in Ran : steps[i].name = n /\ i < cursor'
      BY <1>3
    <2>2. PICK i \in Ran : steps[i].name = n /\ i < cursor
      BY DEF EngineInv, BodiesInv
    <2>3. QED
      BY <1>1, <1>3, <2>2
  <1>10. (\A i \in Ran : ending = "ok" \/ (phase # "done" /\ i < cursor) =>
            options.dry \/ steps[i].name \in pastOutputs \/ steps[i].ignores)'
    <2>1. SUFFICES ASSUME NEW i \in Ran', i < cursor'
                   PROVE  options.dry \/ steps[i].name \in pastOutputs \/ steps[i].ignores
      BY <1>1
    <2>2. CASE i \in Ran
      BY <1>4, <2>2 DEF EngineInv, BodiesInv
    <2>3. CASE i = cursor
      BY <1>1, <2>1, <2>3
    <2>4. QED
      BY <1>3, <2>2, <2>3
  <1>11. QED
    BY <1>2, <1>5, <1>6, <1>7, <1>8, <1>9, <1>10 DEF BodiesInv

(* The output of the step at the cursor is kept.                           *)
LEMMA OutputKept ==
  ASSUME EngineInv, phase = "after", UNCHANGED <<steps, options, bodies>>,
         pastOutputs' = pastOutputs \cup {steps[cursor].name}, cursor' \in Nat,
         \/ phase' = "select" /\ cursor' > cursor /\ ending' = ending
         \/ phase' = "done" /\ cursor' = cursor,
         \A i \in Ran : i <= cursor
  PROVE  BodiesInv'
  <1>1. /\ cursor \in Nat /\ Ran' = Ran /\ Ran \subseteq Nat /\ cursor \in Ran
        /\ ending # "ok"
    <2>1. cursor \in Nat /\ ending # "ok" /\ bodies \in Seq(1 .. Len(steps))
      BY PipelineAssumption DEF EngineInv, EngineTypes
    <2>2. Ran' = Ran
      BY DEF Ran
    <2>3. Ran \subseteq Nat
      BY <2>1 DEF Ran
    <2>4. cursor \in Ran
      BY DEF EngineInv, BodiesInv
    <2>5. QED
      BY <2>1, <2>2, <2>3, <2>4
  <1>2. (\A j, k \in DOMAIN bodies : j < k => bodies[j] < bodies[k])'
    BY DEF EngineInv, BodiesInv
  <1>3. (\A i \in Ran : i <= cursor /\ (phase \in {"select", "before", "unwinding"} => i < cursor))'
    BY <1>1
  <1>4. (phase \in {"failing", "after"} => cursor \in Ran)'
    OBVIOUS
  <1>5. (options.dry => \A i \in Ran : steps[i].pure)'
    BY <1>1 DEF EngineInv, BodiesInv
  <1>6. (\A n \in pastOutputs : \E i \in Ran : steps[i].name = n /\ (phase # "done" => i < cursor))'
    <2>1. SUFFICES ASSUME NEW n \in pastOutputs \cup {steps[cursor].name}
                   PROVE  \E i \in Ran : steps[i].name = n /\ (phase' # "done" => i < cursor')
      BY <1>1
    <2>2. CASE n = steps[cursor].name
      BY <1>1, <2>2
    <2>3. CASE n \in pastOutputs
      <3>1. PICK i \in Ran : steps[i].name = n /\ i < cursor
        BY <2>3 DEF EngineInv, BodiesInv
      <3>2. QED
        BY <1>1, <3>1
    <2>4. QED
      BY <2>1, <2>2, <2>3
  <1>7. (\A i \in Ran : ending = "ok" \/ (phase # "done" /\ i < cursor) =>
           options.dry \/ steps[i].name \in pastOutputs \/ steps[i].ignores)'
    <2>1. SUFFICES ASSUME NEW i \in Ran
                   PROVE  options.dry \/ steps[i].name \in pastOutputs' \/ steps[i].ignores
      BY <1>1
    <2>2. CASE i < cursor
      BY <2>2 DEF EngineInv, BodiesInv
    <2>3. CASE i = cursor
      BY <2>3
    <2>4. QED
      BY <1>1, <2>2, <2>3
  <1>8. QED
    BY <1>2, <1>3, <1>4, <1>5, <1>6, <1>7 DEF BodiesInv

(* A hook is told an event.                                                *)
LEMMA TellIs ==
  ASSUME EngineTypes, hookIndex \in 1 .. Len(Hooks), NEW event \in {"before", "error", "after"},
         Running!Tell(event)
  PROVE  /\ hookLog' \in [before : Seq(HookSet), error : Seq(HookSet), after : Seq(HookSet)]
         /\ \A e \in {"before", "error", "after"} :
              hookLog'[e] = IF e = event THEN Append(hookLog[e], Hooks[hookIndex]) ELSE hookLog[e]
         /\ hookLog[event] \in Seq(HookSet) /\ Hooks[hookIndex] \in HookSet
         /\ Len(hookLog'[event]) = Len(hookLog[event]) + 1
         /\ hookLog'[event][Len(hookLog[event]) + 1] = Hooks[hookIndex]
         /\ \A k \in 1 .. Len(hookLog[event]) : hookLog'[event][k] = hookLog[event][k]
         /\ Running!Range(hookLog'[event]) = Running!Range(hookLog[event]) \cup {Hooks[hookIndex]}
  <1>1. hookLog \in [before : Seq(HookSet), error : Seq(HookSet), after : Seq(HookSet)]
    BY DEF EngineTypes
  <1>2. Hooks[hookIndex] \in HookSet
    BY PipelineIs
  <1>3. hookLog' = [hookLog EXCEPT ![event] = Append(hookLog[event], Hooks[hookIndex])]
    BY DEF Running!Tell
  <1>4. hookLog[event] \in Seq(HookSet)
    BY <1>1
  <1>5. PICK list \in Seq(HookSet), hook \in HookSet : list = hookLog[event] /\ hook = Hooks[hookIndex]
    BY <1>2, <1>4
  <1>6. /\ Append(list, hook) \in Seq(HookSet) /\ Len(Append(list, hook)) = Len(list) + 1
        /\ Append(list, hook)[Len(list) + 1] = hook
        /\ \A k \in 1 .. Len(list) : Append(list, hook)[k] = list[k]
        /\ DOMAIN Append(list, hook) = 1 .. Len(list) + 1 /\ DOMAIN list = 1 .. Len(list) /\ Len(list) \in Nat
    OBVIOUS
  <1>7. \A e \in {"before", "error", "after"} :
          hookLog'[e] = IF e = event THEN Append(list, hook) ELSE hookLog[e]
    BY <1>1, <1>3, <1>5
  <1>8. hookLog' \in [before : Seq(HookSet), error : Seq(HookSet), after : Seq(HookSet)]
    BY <1>1, <1>3, <1>5, <1>6
  <1>9. Running!Range(Append(list, hook)) = Running!Range(list) \cup {hook}
    <2>1. 1 .. Len(list) + 1 = (1 .. Len(list)) \cup {Len(list) + 1}
      BY <1>6
    <2>2. {Append(list, hook)[k] : k \in 1 .. Len(list) + 1} = {list[k] : k \in 1 .. Len(list)} \cup {hook}
      BY <1>6, <2>1
    <2>3. QED
      BY <1>6, <2>2 DEF Running!Range
  <1>10. QED
    BY <1>5, <1>6, <1>7, <1>8, <1>9

(* One hook more is told on the way back.                                  *)
LEMMA ToldBack ==
  ASSUME EngineTypes, AllOpened, NEW event \in {"error", "after"}, NEW n \in 0 .. Len(Hooks),
         hookIndex \in 1 .. n, Entered(hookLog.before, n), WayBack(hookLog[event], n, hookIndex),
         Running!Tell(event)
  PROVE  /\ AllOpened' /\ Entered(hookLog'.before, n) /\ WayBack(hookLog'[event], n, hookIndex - 1)
         /\ \A e \in {"error", "after"} \ {event} : hookLog'[e] = hookLog[e]
  <1>1. Len(Hooks) \in Nat /\ hookIndex \in 1 .. Len(Hooks) /\ event \in {"before", "error", "after"}
    BY PipelineIs
  <1>2. /\ \A e \in {"before", "error", "after"} :
             hookLog'[e] = IF e = event THEN Append(hookLog[e], Hooks[hookIndex]) ELSE hookLog[e]
        /\ Len(hookLog'[event]) = Len(hookLog[event]) + 1
        /\ hookLog'[event][Len(hookLog[event]) + 1] = Hooks[hookIndex]
        /\ \A k \in 1 .. Len(hookLog[event]) : hookLog'[event][k] = hookLog[event][k]
        /\ Running!Range(hookLog'[event]) = Running!Range(hookLog[event]) \cup {Hooks[hookIndex]}
    BY <1>1, TellIs
  <1>3. hookLog'.before = hookLog.before /\ \A e \in {"error", "after"} \ {event} : hookLog'[e] = hookLog[e]
    BY <1>2
  <1>4. Hooks[hookIndex] \in Running!Range(hookLog.before)
    <2>1. hookLog.before[hookIndex] = Hooks[hookIndex] /\ Len(hookLog.before) = n
      BY DEF Entered
    <2>2. hookLog.before \in Seq(HookSet)
      BY DEF EngineTypes
    <2>3. hookIndex \in DOMAIN hookLog.before
      BY <2>1, <2>2
    <2>4. QED
      BY <2>1, <2>3 DEF Running!Range
  <1>5. AllOpened'
    <2>1. \A e \in {"error", "after"} : Running!Range(hookLog'[e]) \subseteq Running!Range(hookLog.before)
      BY <1>2, <1>3, <1>4 DEF AllOpened
    <2>2. (Running!Range(hookLog.before))' = Running!Range(hookLog'.before)
      BY DEF Running!Range
    <2>3. /\ (Running!Range(hookLog.after))' = Running!Range(hookLog'.after)
          /\ (Running!Range(hookLog.error))' = Running!Range(hookLog'.error)
      BY DEF Running!Range
    <2>4. QED
      BY <1>3, <2>1, <2>2, <2>3 DEF AllOpened
  <1>6. WayBack(hookLog'[event], n, hookIndex - 1)
    <2>1. Len(hookLog[event]) = n - hookIndex /\ \A k \in 1 .. n - hookIndex : hookLog[event][k] = Hooks[n + 1 - k]
      BY DEF WayBack
    <2>2. Len(hookLog'[event]) = n - (hookIndex - 1)
      BY <1>1, <1>2, <2>1
    <2>3. ASSUME NEW k \in 1 .. n - (hookIndex - 1)
          PROVE  hookLog'[event][k] = Hooks[n + 1 - k]
      <3>1. CASE k \in 1 .. n - hookIndex
        BY <1>2, <2>1, <3>1
      <3>2. CASE k = n - hookIndex + 1
        <4>1. n + 1 - k = hookIndex
          BY <1>1, <3>2
        <4>2. QED
          BY <1>2, <2>1, <3>2, <4>1
      <3>3. QED
        BY <1>1, <3>1, <3>2
    <2>4. QED
      BY <2>2, <2>3 DEF WayBack
  <1>7. QED
    BY <1>3, <1>5, <1>6

(* The log of the hooks stays, in front of a step or behind one.           *)
LEMMA LogStays ==
  ASSUME OnionInv, hookLog' = hookLog, phase' \in {"select", "done"}
  PROVE  OnionInv'
  <1>1. AllOpened'
    BY DEF OnionInv, AllOpened
  <1>2. QED
    BY <1>1 DEF OnionInv

LEMMA SelectKeeps ==
  ASSUME EngineInv, Running!Select
  PROVE  EngineInv'
  <1>1. /\ phase = "select" /\ bodyEnd' = Nothing
        /\ UNCHANGED <<steps, options, pastOutputs, resolved, bodies, runs>>
    BY DEF Running!Select
  <1>2. /\ cursor \in 1 .. Len(steps) + 1 /\ Len(steps) \in Nat /\ Len(Hooks) \in Nat
        /\ ending = Nothing /\ options.dry \in BOOLEAN
    BY <1>1, PipelineIs DEF EngineInv, EngineTypes
  <1>3. CASE /\ cursor > Len(steps) \/ Running!StopsHere
             /\ ending' = "ok" /\ phase' = "done" /\ UNCHANGED <<cursor, traced, hookIndex, hookLog>>
    <2>1. EngineTypes'
      BY <1>1, <1>2, <1>3 DEF EngineInv, EngineTypes, Within
    <2>2. OnionInv'
      BY <1>3, LogStays DEF EngineInv
    <2>3. BodiesInv'
      BY <1>1, <1>2, <1>3, BodiesStay
    <2>4. TraceInv'
      BY <1>1, <1>3, TraceStays
    <2>5. QED
      BY <2>1, <2>2, <2>3, <2>4 DEF EngineInv
  <1>4. CASE /\ cursor <= Len(steps) /\ ~Running!StopsHere /\ Running!Outside
             /\ cursor' = cursor + 1 /\ UNCHANGED <<phase, ending, traced, hookIndex, hookLog>>
    <2>1. EngineTypes'
      BY <1>1, <1>2, <1>4 DEF EngineInv, EngineTypes, Within
    <2>2. OnionInv'
      BY <1>1, <1>4, LogStays DEF EngineInv
    <2>3. BodiesInv'
      BY <1>1, <1>2, <1>4, BodiesStay
    <2>4. TraceInv'
      <3>1. options.only # Nothing
        BY <1>4 DEF Running!Outside
      <3>2. ending' # "aborted"
        BY <1>2, <1>4, PipelineAssumption
      <3>3. QED
        BY <1>1, <1>4, <3>1, <3>2 DEF EngineInv, TraceInv
    <2>5. QED
      BY <2>1, <2>2, <2>3, <2>4 DEF EngineInv
  <1>5. ASSUME cursor <= Len(steps), ~Running!StopsHere, UNCHANGED <<hookIndex, hookLog>>,
               NEW r \in Records, r.name = steps[cursor].name, r.action = "skipped",
               traced' = Append(traced, r), cursor' = cursor + 1, phase' = "select", ending' = ending
        PROVE  EngineInv'
    <2>1. TraceInv' /\ traced' \in Seq(Records)
      BY <1>1, <1>5, TraceGrows
    <2>2. EngineTypes'
      BY <1>1, <1>2, <1>5, <2>1 DEF EngineInv, EngineTypes, Within
    <2>3. OnionInv'
      BY <1>5, LogStays DEF EngineInv
    <2>4. BodiesInv'
      BY <1>1, <1>2, <1>5, BodiesStay
    <2>5. QED
      BY <2>1, <2>2, <2>3, <2>4 DEF EngineInv
  <1>6. CASE /\ cursor <= Len(steps) /\ ~Running!StopsHere /\ ~(options.dry /\ ~steps[cursor].pure)
             /\ phase' = "before" /\ hookIndex' = 1 /\ hookLog' = Running!NoHook
             /\ UNCHANGED <<cursor, ending, traced>>
    <2>1. hookLog' = [before |-> <<>>, error |-> <<>>, after |-> <<>>]
      BY <1>6 DEF Running!NoHook
    <2>2. EngineTypes'
      <3>1. steps[cursor].pure \in BOOLEAN
        BY <1>2, <1>6, PipelineIs DEF EngineInv
      <3>2. hookLog' \in [before : Seq(HookSet), error : Seq(HookSet), after : Seq(HookSet)]
        BY <2>1
      <3>3. ~Running!StopsHere'
        BY <1>1, <1>6 DEF Running!StopsHere, Running!Step
      <3>4. QED
        BY <1>1, <1>2, <1>6, <3>1, <3>2, <3>3 DEF EngineInv, EngineTypes, Within
    <2>3. OnionInv'
      <3>1. Entered(<<>>, 0)
        BY DEF Entered
      <3>2. AllOpened'
        BY <2>1 DEF AllOpened, Running!Range
      <3>3. QED
        BY <1>6, <2>1, <3>1, <3>2 DEF OnionInv
    <2>4. BodiesInv'
      BY <1>1, <1>2, <1>6, BodiesStay
    <2>5. TraceInv'
      BY <1>1, <1>6, TraceStays
    <2>6. QED
      BY <2>2, <2>3, <2>4, <2>5 DEF EngineInv
  <1>7. QED
    <2>1. CASE cursor > Len(steps) \/ Running!StopsHere
      BY <1>3, <2>1 DEF Running!Select, Running!End
    <2>2. CASE ~(cursor > Len(steps) \/ Running!StopsHere)
      <3>1. cursor <= Len(steps) /\ ~Running!StopsHere
        BY <1>2, <2>2
      <3>2. CASE Running!Outside
        BY <1>4, <2>2, <3>1, <3>2 DEF Running!Select
      <3>3. CASE ~Running!Outside /\ Running!MissesDependency
        <4>1. Running!Pass(Running!Record(Running!Step, "skipped", "missing_dependency")) /\ UNCHANGED <<hookIndex, hookLog>>
          BY <2>2, <3>3 DEF Running!Select
        <4>2. PICK r \in Records : /\ r = Running!Record(Running!Step, "skipped", "missing_dependency")
                                   /\ r.name = steps[cursor].name /\ r.action = "skipped"
          BY <3>1, RecordIs DEF EngineInv, Reasons
        <4>3. traced' = Append(traced, r) /\ cursor' = cursor + 1 /\ phase' = "select" /\ ending' = ending
          BY <4>1, <4>2 DEF Running!Pass
        <4>4. QED
          BY <1>5, <3>1, <4>1, <4>2, <4>3
      <3>4. CASE ~Running!Outside /\ ~Running!MissesDependency /\ ~Running!Step.matched
        <4>1. Running!Pass(Running!Record(Running!Step, "skipped", "no_match")) /\ UNCHANGED <<hookIndex, hookLog>>
          BY <2>2, <3>4 DEF Running!Select
        <4>2. PICK r \in Records : /\ r = Running!Record(Running!Step, "skipped", "no_match")
                                   /\ r.name = steps[cursor].name /\ r.action = "skipped"
          BY <3>1, RecordIs DEF EngineInv, Reasons
        <4>3. traced' = Append(traced, r) /\ cursor' = cursor + 1 /\ phase' = "select" /\ ending' = ending
          BY <4>1, <4>2 DEF Running!Pass
        <4>4. QED
          BY <1>5, <3>1, <4>1, <4>2, <4>3
      <3>5. CASE ~Running!Outside /\ ~Running!MissesDependency /\ Running!Step.matched
        <4>1. CASE options.dry /\ ~Running!Step.pure
          <5>1. Running!Pass(Running!Record(Running!Step, "skipped", "dry_run")) /\ UNCHANGED <<hookIndex, hookLog>>
            BY <2>2, <3>5, <4>1 DEF Running!Select
          <5>2. PICK r \in Records : /\ r = Running!Record(Running!Step, "skipped", "dry_run")
                                     /\ r.name = steps[cursor].name /\ r.action = "skipped"
            BY <3>1, RecordIs DEF EngineInv, Reasons
          <5>3. traced' = Append(traced, r) /\ cursor' = cursor + 1 /\ phase' = "select" /\ ending' = ending
            BY <5>1, <5>2 DEF Running!Pass
          <5>4. QED
            BY <1>5, <3>1, <5>1, <5>2, <5>3
        <4>2. CASE ~(options.dry /\ ~Running!Step.pure)
          <5>1. /\ phase' = "before" /\ hookIndex' = 1 /\ hookLog' = Running!NoHook
                /\ UNCHANGED <<cursor, ending, traced>>
            BY <2>2, <3>5, <4>2 DEF Running!Select
          <5>2. ~(options.dry /\ ~steps[cursor].pure)
            BY <4>2 DEF Running!Step
          <5>3. QED
            BY <1>6, <3>1, <5>1, <5>2
        <4>3. QED
          BY <4>1, <4>2
      <3>6. QED
        BY <3>2, <3>3, <3>4, <3>5
    <2>3. QED
      BY <2>1, <2>2

(* A step that is run stays a step that may be run.                        *)
LEMMA StaysWithin ==
  ASSUME EngineTypes, Within, UNCHANGED <<steps, options, cursor>>
  PROVE  /\ cursor \in 1 .. Len(steps) /\ Len(steps) \in Nat /\ Len(Hooks) \in Nat
         /\ cursor \in Nat /\ cursor + 1 \in 1 .. Len(steps) + 1 /\ ~Running!StopsHere
         /\ cursor' <= Len(steps') /\ ~Running!StopsHere' /\ (options.dry => steps[cursor].pure)'
  <1>1. /\ cursor \in 1 .. Len(steps) /\ Len(steps) \in Nat /\ Len(Hooks) \in Nat
        /\ cursor \in Nat /\ cursor + 1 \in 1 .. Len(steps) + 1 /\ ~Running!StopsHere
        /\ options.dry => steps[cursor].pure
    BY PipelineIs DEF EngineTypes
  <1>2. ~Running!StopsHere'
    BY <1>1 DEF Running!StopsHere, Running!Step
  <1>3. QED
    BY <1>1, <1>2

(* A hook is told while the step goes on.                                  *)
LEMMA TypesOfTelling ==
  ASSUME EngineInv, Within, phase' \in {"before", "unwinding", "failing", "after"},
         UNCHANGED <<steps, options, cursor, traced, ending, bodies, runs>>,
         hookIndex' \in 0 .. Len(Hooks) + 1,
         hookLog' \in [before : Seq(HookSet), error : Seq(HookSet), after : Seq(HookSet)],
         phase' = "after" => bodyEnd' \in {"continue", "abort", "skip_to", "other", "recovered"}
  PROVE  EngineTypes' /\ TraceInv'
  <1>1. EngineTypes'
    BY StaysWithin DEF EngineInv, EngineTypes, Within
  <1>2. TraceInv'
    BY TraceStays DEF Within
  <1>3. QED
    BY <1>1, <1>2

LEMMA BeforeStepKeeps ==
  ASSUME EngineInv, Running!BeforeStep
  PROVE  EngineInv'
  <1>1. /\ phase = "before" /\ hookIndex <= Len(Hooks) /\ Running!Tell("before")
        /\ \/ hookIndex' = hookIndex + 1 /\ phase' = "before"
           \/ hookIndex' = hookIndex /\ phase' = "unwinding"
        /\ UNCHANGED <<steps, options, cursor, bodyEnd, pastOutputs, traced, ending, bodies, runs>>
    BY DEF Running!BeforeStep, Running!Depth
  <1>2. EngineTypes /\ Within /\ cursor \in Nat /\ Len(Hooks) \in Nat
    BY <1>1, StaysWithin DEF EngineInv, Within
  <1>3. /\ hookIndex \in 1 .. Len(Hooks) /\ Entered(hookLog.before, hookIndex - 1)
        /\ hookLog.error = <<>> /\ hookLog.after = <<>>
    BY <1>1, <1>2 DEF EngineInv, EngineTypes, OnionInv
  <1>4. /\ hookLog' \in [before : Seq(HookSet), error : Seq(HookSet), after : Seq(HookSet)]
        /\ hookLog'.error = <<>> /\ hookLog'.after = <<>>
        /\ Len(hookLog'.before) = Len(hookLog.before) + 1
        /\ hookLog'.before[Len(hookLog.before) + 1] = Hooks[hookIndex]
        /\ \A k \in 1 .. Len(hookLog.before) : hookLog'.before[k] = hookLog.before[k]
    BY <1>1, <1>2, <1>3, TellIs
  <1>5. Entered(hookLog'.before, hookIndex)
    <2>1. Len(hookLog.before) = hookIndex - 1 /\ \A k \in 1 .. hookIndex - 1 : hookLog.before[k] = Hooks[k]
      BY <1>3 DEF Entered
    <2>2. QED
      BY <1>3, <1>4, <2>1 DEF Entered
  <1>6. AllOpened'
    BY <1>4 DEF AllOpened, Running!Range
  <1>7. OnionInv'
    <2>1. WayBack(<<>>, hookIndex, hookIndex)
      BY <1>3 DEF WayBack
    <2>2. CASE hookIndex' = hookIndex + 1 /\ phase' = "before"
      BY <1>3, <1>4, <1>5, <1>6, <2>2 DEF OnionInv
    <2>3. CASE hookIndex' = hookIndex /\ phase' = "unwinding"
      BY <1>3, <1>4, <1>5, <1>6, <2>1, <2>3 DEF OnionInv
    <2>4. QED
      BY <1>1, <2>2, <2>3
  <1>8. BodiesInv'
    BY <1>1, <1>2, BodiesStay
  <1>9. EngineTypes' /\ TraceInv'
    BY <1>1, <1>2, <1>3, <1>4, TypesOfTelling
  <1>10. QED
    BY <1>7, <1>8, <1>9 DEF EngineInv

LEMMA UnwindKeeps ==
  ASSUME EngineInv, Running!Unwind
  PROVE  EngineInv'
  <1>1. /\ phase = "unwinding" /\ hookIndex > 0 /\ Running!Tell("error") /\ hookIndex' = hookIndex - 1
        /\ UNCHANGED <<steps, options, cursor, phase, bodyEnd, pastOutputs, traced, ending, bodies, runs>>
    BY DEF Running!Unwind
  <1>2. EngineTypes /\ Within /\ cursor \in Nat /\ Len(Hooks) \in Nat /\ hookIndex \in 1 .. Len(Hooks) + 1
    BY <1>1, StaysWithin DEF EngineInv, EngineTypes, Within
  <1>3. PICK n \in 1 .. Len(Hooks) :
          /\ hookIndex <= n /\ Entered(hookLog.before, n) /\ WayBack(hookLog.error, n, hookIndex)
          /\ hookLog.after = <<>>
    BY <1>1 DEF EngineInv, OnionInv
  <1>4. n \in 0 .. Len(Hooks) /\ hookIndex \in 1 .. n /\ hookIndex \in 1 .. Len(Hooks)
    BY <1>2, <1>3
  <1>5. /\ AllOpened' /\ Entered(hookLog'.before, n) /\ WayBack(hookLog'.error, n, hookIndex - 1)
        /\ hookLog'.after = <<>>
    BY <1>1, <1>2, <1>3, <1>4, ToldBack DEF EngineInv, OnionInv
  <1>6. hookLog' \in [before : Seq(HookSet), error : Seq(HookSet), after : Seq(HookSet)]
    BY <1>1, <1>2, <1>4, TellIs
  <1>7. OnionInv'
    BY <1>1, <1>3, <1>4, <1>5 DEF OnionInv
  <1>8. BodiesInv'
    BY <1>1, <1>2, BodiesStay
  <1>9. EngineTypes' /\ TraceInv'
    BY <1>1, <1>2, <1>4, <1>6, TypesOfTelling
  <1>10. QED
    BY <1>7, <1>8, <1>9 DEF EngineInv

(* The run ends at the step that is run.                                   *)
LEMMA AbortKeeps ==
  ASSUME EngineInv, Within, NEW how \in {"chain_error", "step_error"}, Running!Abort(how),
         UNCHANGED <<steps, options, pastOutputs, bodies, runs>>,
         hookIndex' \in 0 .. Len(Hooks) + 1,
         hookLog' \in [before : Seq(HookSet), error : Seq(HookSet), after : Seq(HookSet)], AllOpened'
  PROVE  EngineInv'
  <1>1. EngineTypes /\ cursor \in 1 .. Len(steps) /\ Len(steps) \in Nat /\ ~Running!StopsHere /\ phase # "done"
    <2>1. EngineTypes /\ phase # "done"
      BY DEF EngineInv, Within
    <2>2. cursor \in 1 .. Len(steps) + 1 /\ cursor <= Len(steps) /\ ~Running!StopsHere
      BY <2>1 DEF EngineTypes
    <2>3. Len(steps) \in Nat
      BY <2>1, PipelineIs
    <2>4. QED
      BY <2>1, <2>2, <2>3
  <1>2. PICK r \in Records : /\ r = Running!Record(Running!Step, "abort", Nothing)
                             /\ r.name = steps[cursor].name /\ r.action = "abort"
    <2>1. Nothing \in Reasons /\ cursor <= Len(steps)
      BY <1>1 DEF Reasons
    <2>2. QED
      BY <1>1, <2>1, RecordIs
  <1>3. /\ traced' = Append(traced, r) /\ ending' = how /\ phase' = "done" /\ cursor' = cursor
    BY <1>2 DEF Running!Abort, Running!End
  <1>4. TraceInv' /\ traced' \in Seq(Records)
    <2>1. cursor <= Len(steps) /\ UNCHANGED <<steps, options, runs>>
      BY <1>1
    <2>2. QED
      BY <1>1, <1>2, <1>3, <2>1, TraceGrows
  <1>5. EngineTypes'
    BY <1>1, <1>3, <1>4 DEF EngineInv, EngineTypes, Within
  <1>6. OnionInv'
    BY <1>3 DEF OnionInv
  <1>7. BodiesInv'
    <2>1. cursor' \in Nat /\ cursor' >= cursor /\ ~(cursor' > cursor) /\ ending' # "ok"
      BY <1>1, <1>3
    <2>2. QED
      BY <1>1, <1>3, <2>1, BodiesStay
  <1>8. QED
    BY <1>4, <1>5, <1>6, <1>7 DEF EngineInv

LEMMA UnwoundKeeps ==
  ASSUME EngineInv, Running!Unwound
  PROVE  EngineInv'
  <1>1. /\ phase = "unwinding" /\ Running!Abort("chain_error")
        /\ UNCHANGED <<steps, options, hookIndex, hookLog, pastOutputs, bodies, runs>>
    BY DEF Running!Unwound
  <1>2. AllOpened'
    BY <1>1 DEF EngineInv, OnionInv, AllOpened
  <1>3. QED
    BY <1>1, <1>2, AbortKeeps DEF EngineInv, EngineTypes, Within

LEMMA ExecuteKeeps ==
  ASSUME EngineInv, Running!Execute
  PROVE  EngineInv'
  <1>1. /\ phase = "before" /\ hookIndex > Len(Hooks) /\ bodies' = Append(bodies, cursor)
        /\ UNCHANGED <<steps, options, hookLog, pastOutputs, runs>>
    BY DEF Running!Execute, Running!Depth
  <1>2. /\ EngineTypes /\ Within /\ cursor \in 1 .. Len(steps) /\ Len(steps) \in Nat /\ Len(Hooks) \in Nat
        /\ hookIndex = Len(Hooks) + 1 /\ ~Running!StopsHere
    <2>1. EngineTypes /\ Within
      BY <1>1 DEF EngineInv, Within
    <2>2. /\ cursor \in 1 .. Len(steps) + 1 /\ cursor <= Len(steps) /\ ~Running!StopsHere
          /\ hookIndex \in 0 .. Len(Hooks) + 1
      BY <2>1 DEF EngineTypes
    <2>3. QED
      BY <1>1, <2>1, <2>2, PipelineIs
  <1>3. /\ AllOpened' /\ Entered(hookLog.before, Len(Hooks)) /\ hookLog.error = <<>> /\ hookLog.after = <<>>
        /\ WayBack(<<>>, Len(Hooks), Len(Hooks))
    <2>1. AllOpened' /\ Entered(hookLog.before, hookIndex - 1) /\ hookLog.error = <<>> /\ hookLog.after = <<>>
      BY <1>1 DEF EngineInv, OnionInv, AllOpened
    <2>2. WayBack(<<>>, Len(Hooks), Len(Hooks))
      BY <1>2 DEF WayBack
    <2>3. QED
      BY <1>2, <2>1, <2>2
  <1>4. CASE /\ phase' = "failing" \/ (phase' = "after" /\ bodyEnd' \in {"continue", "abort", "skip_to", "other"})
             /\ hookIndex' = Len(Hooks) /\ UNCHANGED <<cursor, traced, ending>>
    <2>1. BodiesInv'
      BY <1>1, <1>4, BodyRuns
    <2>2. TraceInv'
      BY <1>1, <1>4, TraceStays
    <2>3. OnionInv'
      BY <1>1, <1>2, <1>3, <1>4 DEF OnionInv
    <2>4. EngineTypes'
      <3>1. bodies' \in Seq(1 .. Len(steps))
        BY <1>1, <1>4, BodyRuns
      <3>2. cursor' <= Len(steps') /\ ~Running!StopsHere' /\ (options.dry => steps[cursor].pure)'
        BY <1>1, <1>2, <1>4, StaysWithin
      <3>3. QED
        BY <1>1, <1>2, <1>4, <3>1, <3>2 DEF EngineInv, EngineTypes, Within
    <2>5. QED
      BY <2>1, <2>2, <2>3, <2>4 DEF EngineInv
  <1>5. CASE options.dry /\ Running!Pass(Running!Record(Running!Step, "abort", Nothing)) /\ hookIndex' = hookIndex
    <2>1. PICK r \in Records : /\ r = Running!Record(Running!Step, "abort", Nothing)
                               /\ r.name = steps[cursor].name /\ r.action = "abort"
      <3>1. Nothing \in Reasons /\ cursor <= Len(steps)
        BY <1>2 DEF Reasons
      <3>2. QED
        BY <1>2, <3>1, RecordIs
    <2>2. /\ traced' = Append(traced, r) /\ cursor' = cursor + 1
          /\ phase' = "select" /\ ending' = ending
      BY <1>5, <2>1 DEF Running!Pass
    <2>3. TraceInv' /\ traced' \in Seq(Records)
      <3>1. cursor <= Len(steps) /\ phase # "done" /\ UNCHANGED <<steps, options, runs>>
        BY <1>1, <1>2
      <3>2. QED
        BY <1>2, <1>5, <2>1, <2>2, <3>1, TraceGrows
    <2>4. BodiesInv' /\ bodies' \in Seq(1 .. Len(steps))
      BY <1>1, <1>5, <2>2, BodyRuns
    <2>5. OnionInv'
      BY <1>1, <2>2, LogStays DEF EngineInv
    <2>6. EngineTypes'
      BY <1>1, <1>2, <1>5, <2>2, <2>3, <2>4 DEF EngineTypes, Within
    <2>7. QED
      BY <2>3, <2>4, <2>5, <2>6 DEF EngineInv
  <1>6. QED
    <2>1. PICK does \in Running!Step.does :
            IF does \in Running!Succeeds
            THEN /\ bodyEnd' = does /\ phase' = "after" /\ hookIndex' = Running!Depth
                 /\ UNCHANGED <<cursor, traced, ending>>
            ELSE IF options.dry
                 THEN Running!Pass(Running!Record(Running!Step, "abort", Nothing)) /\ UNCHANGED hookIndex
                 ELSE /\ phase' = "failing" /\ hookIndex' = Running!Depth
                      /\ UNCHANGED <<cursor, traced, ending>>
      BY DEF Running!Execute
    <2>2. CASE does \in Running!Succeeds
      BY <1>4, <2>1, <2>2 DEF Running!Succeeds, Running!Depth
    <2>3. CASE does \notin Running!Succeeds /\ options.dry
      BY <1>5, <2>1, <2>3
    <2>4. CASE does \notin Running!Succeeds /\ ~options.dry
      BY <1>4, <2>1, <2>4 DEF Running!Depth
    <2>5. QED
      BY <2>2, <2>3, <2>4

LEMMA OnStepErrorKeeps ==
  ASSUME EngineInv, Running!OnStepError
  PROVE  EngineInv'
  <1>1. /\ phase = "failing" /\ hookIndex > 0 /\ Running!Tell("error")
        /\ UNCHANGED <<steps, options, pastOutputs, bodies, runs>>
    BY DEF Running!OnStepError
  <1>2. EngineTypes /\ Within /\ cursor \in Nat /\ Len(Hooks) \in Nat
    BY <1>1, PipelineIs DEF EngineInv, EngineTypes, Within
  <1>3. /\ hookIndex \in 1 .. Len(Hooks) /\ AllOpened /\ Entered(hookLog.before, Len(Hooks))
        /\ WayBack(hookLog.error, Len(Hooks), hookIndex) /\ hookLog.after = <<>>
    BY <1>1, <1>2 DEF EngineInv, EngineTypes, OnionInv
  <1>4. /\ AllOpened' /\ Entered(hookLog'.before, Len(Hooks))
        /\ WayBack(hookLog'.error, Len(Hooks), hookIndex - 1) /\ hookLog'.after = <<>>
    <2>1. Len(Hooks) \in 0 .. Len(Hooks)
      BY <1>2
    <2>2. QED
      BY <1>1, <1>2, <1>3, <2>1, ToldBack
  <1>5. hookLog' \in [before : Seq(HookSet), error : Seq(HookSet), after : Seq(HookSet)]
    BY <1>1, <1>2, <1>3, TellIs
  <1>6. CASE hookIndex' = hookIndex - 1 /\ UNCHANGED <<phase, bodyEnd, cursor, traced, ending>>
    <2>1. OnionInv'
      BY <1>1, <1>3, <1>4, <1>6 DEF OnionInv
    <2>2. BodiesInv'
      BY <1>1, <1>6, BodiesWait
    <2>3. EngineTypes' /\ TraceInv'
      BY <1>1, <1>2, <1>3, <1>5, <1>6, TypesOfTelling
    <2>4. QED
      BY <2>1, <2>2, <2>3 DEF EngineInv
  <1>7. CASE bodyEnd' = "recovered" /\ phase' = "after" /\ hookIndex' = Len(Hooks) /\ UNCHANGED <<cursor, traced, ending>>
    <2>1. WayBack(<<>>, Len(Hooks), Len(Hooks))
      BY <1>2 DEF WayBack
    <2>2. OnionInv'
      BY <1>2, <1>3, <1>4, <1>7, <2>1 DEF OnionInv
    <2>3. BodiesInv'
      BY <1>1, <1>7, BodiesWait
    <2>4. EngineTypes' /\ TraceInv'
      BY <1>1, <1>2, <1>3, <1>5, <1>7, TypesOfTelling
    <2>5. QED
      BY <2>2, <2>3, <2>4 DEF EngineInv
  <1>8. CASE Running!Abort("step_error") /\ UNCHANGED hookIndex
    <2>1. hookIndex' \in 0 .. Len(Hooks) + 1 /\ "step_error" \in {"chain_error", "step_error"}
      BY <1>2, <1>3, <1>8
    <2>2. QED
      BY <1>1, <1>2, <1>4, <1>5, <1>8, <2>1, AbortKeeps
  <1>9. QED
    BY <1>6, <1>7, <1>8 DEF Running!OnStepError, Running!Depth

LEMMA UnrecoveredKeeps ==
  ASSUME EngineInv, Running!Unrecovered
  PROVE  EngineInv'
  <1>1. /\ phase = "failing" /\ UNCHANGED <<steps, options, hookIndex, hookLog, bodyEnd, pastOutputs, bodies, runs>>
        /\ IF Running!Step.ignores THEN Running!Pass(Running!Record(Running!Step, "continue", "error_ignored"))
           ELSE Running!Abort("step_error")
    BY DEF Running!Unrecovered
  <1>2. /\ EngineTypes /\ Within /\ cursor \in 1 .. Len(steps) /\ Len(steps) \in Nat /\ ~Running!StopsHere
        /\ cursor <= Len(steps)
    <2>1. EngineTypes /\ Within
      BY <1>1 DEF EngineInv, Within
    <2>2. cursor \in 1 .. Len(steps) + 1 /\ cursor <= Len(steps) /\ ~Running!StopsHere
      BY <2>1 DEF EngineTypes
    <2>3. QED
      BY <2>1, <2>2, PipelineIs
  <1>3. CASE Running!Step.ignores
    <2>1. PICK r \in Records : /\ r = Running!Record(Running!Step, "continue", "error_ignored")
                               /\ r.name = steps[cursor].name /\ r.action = "continue"
      BY <1>2, RecordIs DEF Reasons
    <2>2. /\ traced' = Append(traced, r) /\ cursor' = cursor + 1
          /\ phase' = "select" /\ ending' = ending
      BY <1>1, <1>3, <2>1 DEF Running!Pass
    <2>3. TraceInv' /\ traced' \in Seq(Records)
      BY <1>1, <1>2, <2>1, <2>2, TraceGrows
    <2>4. BodiesInv'
      <3>1. steps[cursor].ignores
        BY <1>3 DEF Running!Step
      <3>2. cursor' \in Nat /\ cursor' >= cursor
        BY <1>2, <2>2
      <3>3. phase # "done" /\ phase' \notin {"failing", "after"} /\ cursor' > cursor
        BY <1>1, <1>2, <2>2
      <3>4. QED
        BY <1>1, <2>2, <3>1, <3>2, <3>3, BodiesStay
    <2>5. OnionInv'
      BY <1>1, <2>2, LogStays DEF EngineInv
    <2>6. EngineTypes'
      BY <1>1, <1>2, <2>2, <2>3 DEF EngineTypes, Within
    <2>7. QED
      BY <2>3, <2>4, <2>5, <2>6 DEF EngineInv
  <1>4. CASE ~Running!Step.ignores
    <2>1. AllOpened' /\ "step_error" \in {"chain_error", "step_error"}
      BY <1>1 DEF EngineInv, OnionInv, AllOpened
    <2>2. QED
      BY <1>1, <1>2, <1>4, <2>1, AbortKeeps DEF EngineTypes
  <1>5. QED
    BY <1>3, <1>4

LEMMA AfterStepKeeps ==
  ASSUME EngineInv, Running!AfterStep
  PROVE  EngineInv'
  <1>1. /\ phase = "after" /\ hookIndex > 0 /\ Running!Tell("after")
        /\ UNCHANGED <<steps, options, bodyEnd, pastOutputs, bodies, runs>>
    BY DEF Running!AfterStep
  <1>2. EngineTypes /\ Within /\ cursor \in Nat /\ Len(Hooks) \in Nat
    BY <1>1, PipelineIs DEF EngineInv, EngineTypes, Within
  <1>3. /\ hookIndex \in 1 .. Len(Hooks) /\ AllOpened /\ Entered(hookLog.before, Len(Hooks))
        /\ WayBack(hookLog.after, Len(Hooks), hookIndex)
    BY <1>1, <1>2 DEF EngineInv, EngineTypes, OnionInv
  <1>4. /\ AllOpened' /\ Entered(hookLog'.before, Len(Hooks))
        /\ WayBack(hookLog'.after, Len(Hooks), hookIndex - 1)
    <2>1. Len(Hooks) \in 0 .. Len(Hooks)
      BY <1>2
    <2>2. QED
      BY <1>1, <1>2, <1>3, <2>1, ToldBack
  <1>5. hookLog' \in [before : Seq(HookSet), error : Seq(HookSet), after : Seq(HookSet)]
    BY <1>1, <1>2, <1>3, TellIs
  <1>6. CASE hookIndex' = hookIndex - 1 /\ UNCHANGED <<phase, cursor, traced, ending>>
    <2>1. OnionInv'
      BY <1>1, <1>3, <1>4, <1>6 DEF OnionInv
    <2>2. BodiesInv'
      BY <1>1, <1>6, BodiesWait
    <2>3. EngineTypes' /\ TraceInv'
      <3>1. bodyEnd' \in {"continue", "abort", "skip_to", "other", "recovered"}
        BY <1>1, <1>2 DEF EngineTypes
      <3>2. QED
        BY <1>1, <1>2, <1>3, <1>5, <1>6, <3>1, TypesOfTelling
    <2>4. QED
      BY <2>1, <2>2, <2>3 DEF EngineInv
  <1>7. CASE Running!Abort("step_error") /\ UNCHANGED hookIndex
    <2>1. hookIndex' \in 0 .. Len(Hooks) + 1 /\ "step_error" \in {"chain_error", "step_error"}
      BY <1>2, <1>3, <1>7
    <2>2. QED
      BY <1>1, <1>2, <1>4, <1>5, <1>7, <2>1, AbortKeeps
  <1>8. QED
    BY <1>6, <1>7 DEF Running!AfterStep

(* The onion is closed, and the loop goes on behind the step or ends.      *)
LEMMA CompletingKeeps ==
  ASSUME EngineInv, phase = "after", UNCHANGED <<steps, options, hookIndex, hookLog, bodies, runs>>,
         pastOutputs' = pastOutputs \cup {steps[cursor].name},
         NEW r \in Records, r.name = steps[cursor].name, traced' = Append(traced, r),
         \/ phase' = "select" /\ cursor' = cursor + 1 /\ ending' = ending /\ r.action # "abort"
         \/ phase' = "done" /\ cursor' = cursor /\ (ending' = "aborted" => r.action = "abort")
  PROVE  EngineInv'
  <1>1. EngineTypes /\ Within
    BY DEF EngineInv, Within
  <1>2. /\ cursor \in 1 .. Len(steps) /\ Len(steps) \in Nat /\ cursor <= Len(steps) /\ ~Running!StopsHere
        /\ phase # "done" /\ cursor \in Nat
    BY <1>1, PipelineIs DEF EngineTypes, Within
  <1>3. TraceInv' /\ traced' \in Seq(Records)
    BY <1>2, TraceGrows
  <1>4. BodiesInv'
    <2>1. \A i \in Ran : i <= cursor
      BY DEF EngineInv, BodiesInv
    <2>2. cursor' \in Nat /\ (cursor' = cursor + 1 => cursor' > cursor)
      BY <1>2
    <2>3. QED
      BY <1>2, <2>1, <2>2, OutputKept
  <1>5. OnionInv'
    BY LogStays DEF EngineInv
  <1>6. EngineTypes'
    BY <1>1, <1>2, <1>3 DEF EngineTypes, Within
  <1>7. QED
    BY <1>3, <1>4, <1>5, <1>6 DEF EngineInv

(* The last of the positions of a target.                                  *)
LEMMA TargetIs ==
  ASSUME EngineTypes, cursor \in 1 .. Len(steps), Running!Targets # {}
  PROVE  (CHOOSE i \in Running!Targets : \A j \in Running!Targets : j <= i) \in cursor + 1 .. Len(steps)
  <1>1. Len(steps) \in Nat /\ \A i, j \in 1 .. Len(steps) : steps[i].name = steps[j].name => i = j
    BY PipelineIs
  <1>2. PICK i : i \in Running!Targets
    OBVIOUS
  <1>3. i \in cursor + 1 .. Len(steps) /\ \A j \in Running!Targets : j = i
    BY <1>1, <1>2 DEF Running!Targets
  <1>4. i <= i
    BY <1>1, <1>3
  <1>5. (CHOOSE k \in Running!Targets : \A j \in Running!Targets : j <= k) = i
    BY <1>2, <1>3, <1>4
  <1>6. QED
    BY <1>3, <1>5

LEMMA FunctionIsList ==
  ASSUME NEW n \in Nat, NEW S, NEW list \in [1 .. n -> S]
  PROVE  list \in Seq(S) /\ Len(list) = n
  <1>1. list \in Seq(S)
    BY SeqDef
  <1>2. DOMAIN list = 1 .. n
    OBVIOUS
  <1>3. QED
    BY <1>1, <1>2, LenProperties

(* The steps that are jumped over are recorded, and the loop is at the     *)
(* target.                                                                 *)
LEMMA SkippingKeeps ==
  ASSUME EngineInv, phase = "after", UNCHANGED <<steps, options, hookIndex, hookLog, bodies, runs>>,
         pastOutputs' = pastOutputs \cup {steps[cursor].name},
         NEW target \in cursor + 1 .. Len(steps), NEW r \in Records, r.name = steps[cursor].name, r.action = "skip_to",
         traced' = Append(traced, r) \o
                     [i \in 1 .. target - cursor - 1 |-> Running!Record(steps[cursor + i], "skipped", Nothing)],
         cursor' = target, phase' = "select", ending' = ending
  PROVE  EngineInv'
  <1>1. EngineTypes /\ Within
    BY DEF EngineInv, Within
  <1>2. /\ cursor \in 1 .. Len(steps) /\ Len(steps) \in Nat /\ traced \in Seq(Records)
        /\ ending = Nothing /\ target \in Nat /\ target > cursor /\ target <= Len(steps)
    BY <1>1, PipelineIs DEF EngineTypes, Within
  <1> DEFINE over == [i \in 1 .. target - cursor - 1 |-> Running!Record(steps[cursor + i], "skipped", Nothing)]
             longer == Append(traced, r)
  <1>3. /\ over \in Seq(Records) /\ Len(over) = target - cursor - 1
        /\ \A i \in 1 .. target - cursor - 1 :
             over[i].name = steps[cursor + i].name /\ over[i].action = "skipped"
    <2>1. \A i \in 1 .. target - cursor - 1 : cursor + i \in 1 .. Len(steps)
      BY <1>2
    <2>2. \A i \in 1 .. target - cursor - 1 :
            /\ Running!Record(steps[cursor + i], "skipped", Nothing) \in Records
            /\ Running!Record(steps[cursor + i], "skipped", Nothing).name = steps[cursor + i].name
            /\ Running!Record(steps[cursor + i], "skipped", Nothing).action = "skipped"
      <3>1. \A i \in 1 .. target - cursor - 1 : steps[cursor + i].name \in StepNames
        BY <1>1, <2>1, PipelineIs
      <3>2. QED
        BY <3>1 DEF Running!Record, Records, Reasons
    <2>3. PICK n \in Nat : n = target - cursor - 1
      BY <1>2
    <2>4. over \in [1 .. n -> Records]
      BY <2>2, <2>3
    <2>5. over \in Seq(Records) /\ Len(over) = n
      BY <2>4, FunctionIsList
    <2>6. QED
      BY <2>2, <2>3, <2>5
  <1>4. /\ longer \in Seq(Records) /\ Len(longer) = Len(traced) + 1 /\ longer[Len(traced) + 1] = r
        /\ Len(traced) \in Nat /\ \A i \in 1 .. Len(traced) : longer[i] = traced[i]
    BY <1>2
  <1>5. traced' = longer \o over
    OBVIOUS
  <1> HIDE DEF over, longer
  <1>6. /\ traced' \in Seq(Records) /\ Len(traced') = Len(traced) + (target - cursor)
        /\ DOMAIN traced' = 1 .. Len(traced')
        /\ \A i \in 1 .. Len(traced') :
             traced'[i] = IF i <= Len(traced) + 1 THEN longer[i] ELSE over[i - (Len(traced) + 1)]
    <2>1. longer \in Seq(Records) /\ over \in Seq(Records)
      BY <1>3, <1>4
    <2>2. /\ longer \o over \in Seq(Records) /\ Len(longer \o over) = Len(longer) + Len(over)
          /\ \A i \in 1 .. Len(longer) + Len(over) :
               (longer \o over)[i] = IF i <= Len(longer) THEN longer[i] ELSE over[i - Len(longer)]
      BY <2>1, ConcatProperties
    <2>3. Len(longer) + Len(over) = Len(traced) + (target - cursor)
      <3>1. PICK n \in Nat, c \in Nat : n = Len(traced) /\ c = cursor
        BY <1>2, <1>4
      <3>2. Len(longer) = n + 1 /\ Len(over) = target - c - 1
        BY <1>3, <1>4, <3>1
      <3>3. (n + 1) + (target - c - 1) = n + (target - c)
        BY <1>2, <3>1
      <3>4. QED
        BY <3>1, <3>2, <3>3
    <2>4. DOMAIN (longer \o over) = 1 .. Len(longer \o over)
      BY <2>2
    <2>5. QED
      BY <1>4, <1>5, <2>2, <2>3, <2>4
  <1>7. TraceInv'
    <2>1. SUFFICES ASSUME runs = 1
                   PROVE  TraceInv'
      BY DEF TraceInv
    <2>2. Through = cursor - 1 /\ Through' = target - 1
      BY <1>2 DEF Through
    <2>3. (options.only = Nothing =>
             Len(traced) = Through /\ \A i \in 1 .. Through : traced[i].name = steps[i].name)'
      <3>1. SUFFICES ASSUME options.only = Nothing
                     PROVE  Len(traced') = target - 1 /\ \A i \in 1 .. target - 1 : traced'[i].name = steps[i].name
        BY <2>2
      <3>2. Len(traced) = cursor - 1 /\ \A i \in 1 .. cursor - 1 : traced[i].name = steps[i].name
        BY <2>1, <2>2, <3>1 DEF EngineInv, TraceInv
      <3>3. Len(traced') = target - 1
        BY <1>2, <1>6, <3>2
      <3>4. ASSUME NEW i \in 1 .. target - 1
            PROVE  traced'[i].name = steps[i].name
        <4>0. cursor \in Nat /\ i \in Nat /\ i >= 1 /\ Len(traced) + 1 = cursor /\ i \in 1 .. Len(traced')
          BY <1>2, <3>2, <3>3
        <4>1. traced'[i] = IF i <= cursor THEN longer[i] ELSE over[i - cursor]
          BY <1>6, <4>0
        <4>2. CASE i < cursor
          <5>0. PICK c \in Nat : c = cursor
            BY <4>0
          <5>1. i \in 1 .. Len(traced) /\ i \in 1 .. cursor - 1 /\ i <= cursor
            BY <3>2, <4>0, <4>2, <5>0
          <5>2. QED
            BY <1>4, <3>2, <4>1, <5>1
        <4>3. CASE i = cursor
          BY <1>4, <4>0, <4>1, <4>3
        <4>4. CASE i > cursor
          <5>0. PICK c \in Nat : c = cursor
            BY <4>0
          <5>1. i - c \in 1 .. target - c - 1 /\ c + (i - c) = i /\ ~(i <= c)
            BY <1>2, <4>0, <4>4, <5>0
          <5>2. traced'[i] = over[i - c]
            BY <4>1, <5>0, <5>1
          <5>3. over[i - c].name = steps[c + (i - c)].name
            BY <1>3, <5>0, <5>1
          <5>4. QED
            BY <5>1, <5>2, <5>3
        <4>5. i < cursor \/ i = cursor \/ i > cursor
          BY <1>2, <4>0
        <4>6. QED
          BY <4>2, <4>3, <4>4, <4>5
      <3>5. QED
        BY <3>3, <3>4
    <2>4. (~options.dry /\ phase # "done" => \A i \in DOMAIN traced : traced[i].action # "abort")'
      <3>1. SUFFICES ASSUME ~options.dry, NEW i \in 1 .. Len(traced')
                     PROVE  traced'[i].action # "abort"
        BY <1>6
      <3>0. i \in Nat /\ i >= 1 /\ Len(traced) \in Nat /\ i <= Len(traced) + (target - cursor)
        BY <1>2, <1>4, <1>6, <3>1
      <3>2. \A k \in 1 .. Len(traced) : traced[k].action # "abort"
        BY <1>2, <2>1, <3>1 DEF EngineInv, TraceInv
      <3>3. CASE i <= Len(traced)
        BY <1>4, <1>6, <3>2, <3>3
      <3>4. CASE i = Len(traced) + 1
        BY <1>4, <1>6, <3>4
      <3>5. CASE i > Len(traced) + 1
        <4>0. PICK n \in Nat, gap \in Nat : n = Len(traced) /\ gap = target - cursor
          BY <1>2, <3>0
        <4>1. i - (n + 1) \in 1 .. gap - 1 /\ ~(i <= n + 1)
          <5>1. i \in Nat /\ i > n + 1 /\ i <= n + gap
            BY <3>0, <3>5, <4>0
          <5>2. QED
            BY <5>1
        <4>2. traced'[i] = over[i - (n + 1)]
          BY <1>6, <3>1, <4>0, <4>1
        <4>3. QED
          BY <1>3, <4>0, <4>1, <4>2
      <3>6. i <= Len(traced) \/ i = Len(traced) + 1 \/ i > Len(traced) + 1
        BY <3>0
      <3>7. QED
        BY <3>3, <3>4, <3>5, <3>6
    <2>5. (~options.dry /\ ending = "aborted" => Running!AbortedStep = Running!Step.name)'
      BY <1>2, PipelineAssumption
    <2>6. QED
      BY <2>3, <2>4, <2>5 DEF TraceInv
  <1>8. BodiesInv'
    <2>1. \A i \in Ran : i <= cursor
      BY DEF EngineInv, BodiesInv
    <2>2. QED
      BY <1>2, <2>1, OutputKept
  <1>9. OnionInv'
    BY LogStays DEF EngineInv
  <1>10. EngineTypes'
    BY <1>1, <1>2, <1>6 DEF EngineTypes, Within
  <1>11. QED
    BY <1>7, <1>8, <1>9, <1>10 DEF EngineInv

LEMMA CompleteKeeps ==
  ASSUME EngineInv, Running!Complete
  PROVE  EngineInv'
  <1>1. /\ phase = "after" /\ UNCHANGED <<steps, options, hookIndex, hookLog, bodyEnd, bodies, runs>>
        /\ pastOutputs' = pastOutputs \cup {steps[cursor].name}
    BY DEF Running!Complete, Running!Step
  <1>2. EngineTypes /\ Within /\ cursor \in 1 .. Len(steps) /\ cursor <= Len(steps)
    BY <1>1, PipelineIs DEF EngineInv, EngineTypes, Within
  <1>3. ASSUME NEW action \in {"continue", "abort", "skip_to", "other"}, NEW reason \in {Nothing, "error_recovered"}
        PROVE  \E r \in Records : /\ r = Running!Record(Running!Step, action, reason)
                                  /\ r.name = steps[cursor].name /\ r.action = action
    BY <1>2, <1>3, RecordIs DEF Reasons
  <1>4. CASE bodyEnd = "recovered"
    <2>1. PICK r \in Records : /\ r = Running!Record(Running!Step, "continue", "error_recovered")
                               /\ r.name = steps[cursor].name /\ r.action = "continue"
      BY <1>3
    <2>2. traced' = Append(traced, r) /\ cursor' = cursor + 1 /\ phase' = "select" /\ ending' = ending
      BY <1>4, <2>1 DEF Running!Complete, Running!Pass
    <2>3. QED
      BY <1>1, <2>1, <2>2, CompletingKeeps
  <1>5. CASE bodyEnd = "continue"
    <2>1. PICK r \in Records : /\ r = Running!Record(Running!Step, "continue", Nothing)
                               /\ r.name = steps[cursor].name /\ r.action = "continue"
      BY <1>3
    <2>2. CASE Running!IsEnough
      <3>1. traced' = Append(traced, r) /\ cursor' = cursor /\ phase' = "done" /\ ending' = "ok"
        BY <1>5, <2>1, <2>2 DEF Running!Complete, Running!End
      <3>2. QED
        BY <1>1, <2>1, <3>1, CompletingKeeps
    <2>3. CASE ~Running!IsEnough
      <3>1. traced' = Append(traced, r) /\ cursor' = cursor + 1 /\ phase' = "select" /\ ending' = ending
        BY <1>5, <2>1, <2>3 DEF Running!Complete, Running!Pass
      <3>2. QED
        BY <1>1, <2>1, <3>1, CompletingKeeps
    <2>4. QED
      BY <2>2, <2>3
  <1>6. CASE bodyEnd = "abort"
    <2>1. PICK r \in Records : /\ r = Running!Record(Running!Step, "abort", Nothing)
                               /\ r.name = steps[cursor].name /\ r.action = "abort"
      BY <1>3
    <2>2. traced' = Append(traced, r) /\ cursor' = cursor /\ phase' = "done"
      BY <1>6, <2>1 DEF Running!Complete, Running!Abort, Running!End
    <2>3. QED
      BY <1>1, <2>1, <2>2, CompletingKeeps
  <1>7. CASE bodyEnd = "skip_to"
    <2>1. PICK r \in Records : /\ r = Running!Record(Running!Step, "skip_to", Nothing)
                               /\ r.name = steps[cursor].name /\ r.action = "skip_to"
      BY <1>3
    <2>2. Running!SkipTo
      BY <1>7 DEF Running!Complete
    <2>3. CASE Running!Targets = {}
      <3>1. traced' = Append(traced, r) /\ cursor' = cursor /\ phase' = "done" /\ ending' = "no_target"
        BY <2>1, <2>2, <2>3 DEF Running!SkipTo, Running!End
      <3>2. QED
        BY <1>1, <2>1, <3>1, CompletingKeeps
    <2>4. CASE Running!Targets # {}
      <3>1. PICK target \in cursor + 1 .. Len(steps) :
              target = CHOOSE i \in Running!Targets : \A j \in Running!Targets : j <= i
        BY <1>2, <2>4, TargetIs
      <3>2. /\ traced' = Append(traced, r) \o
                           [i \in 1 .. target - cursor - 1 |-> Running!Record(steps[cursor + i], "skipped", Nothing)]
            /\ cursor' = target /\ phase' = "select" /\ ending' = ending
        BY <2>1, <2>2, <2>4, <3>1 DEF Running!SkipTo
      <3>3. QED
        BY <1>1, <2>1, <3>2, SkippingKeeps
    <2>5. QED
      BY <2>3, <2>4
  <1>8. CASE bodyEnd = "other"
    <2>1. PICK r \in Records : /\ r = Running!Record(Running!Step, "other", Nothing)
                               /\ r.name = steps[cursor].name /\ r.action = "other"
      BY <1>3
    <2>2. traced' = Append(traced, r) /\ cursor' = cursor /\ phase' = "done" /\ ending' = "unknown_action"
      BY <1>8, <2>1 DEF Running!Complete, Running!End
    <2>3. QED
      BY <1>1, <2>1, <2>2, CompletingKeeps
  <1>9. QED
    BY <1>1, <1>2, <1>4, <1>5, <1>6, <1>7, <1>8 DEF EngineTypes

(* A retry leaves the trace of the run before it, so that nothing is said  *)
(* of the trace any more.                                                  *)
LEMMA RetryKeeps ==
  ASSUME EngineInv, Running!Retry
  PROVE  EngineInv'
  <1>1. /\ runs' = runs + 1 /\ cursor' = 1 /\ phase' = "select" /\ hookLog' = Running!NoHook
        /\ pastOutputs' = {} /\ ending' = Nothing /\ bodies' = <<>>
        /\ UNCHANGED <<steps, options, hookIndex, traced>>
    BY DEF Running!Retry
  <1>2. /\ steps \in Pipelines /\ options \in Options /\ Len(steps) \in Nat /\ runs \in Nat \ {0}
        /\ hookIndex \in 0 .. Len(Hooks) + 1 /\ traced \in Seq(Records)
    BY PipelineIs DEF EngineInv, EngineTypes
  <1>3. hookLog' = [before |-> <<>>, error |-> <<>>, after |-> <<>>]
    BY <1>1 DEF Running!NoHook
  <1>4. EngineTypes'
    <2>1. runs' \in Nat \ {0} /\ cursor' \in 1 .. Len(steps) + 1
      BY <1>1, <1>2
    <2>2. bodies' \in Seq(1 .. Len(steps))
      BY <1>1
    <2>3. hookLog' \in [before : Seq(HookSet), error : Seq(HookSet), after : Seq(HookSet)]
      BY <1>3
    <2>4. QED
      BY <1>1, <1>2, <2>1, <2>2, <2>3 DEF EngineTypes, Within
  <1>5. OnionInv'
    <2>1. AllOpened'
      BY <1>3 DEF AllOpened, Running!Range
    <2>2. QED
      BY <1>1, <2>1 DEF OnionInv
  <1>6. BodiesInv'
    BY <1>1 DEF BodiesInv, Ran
  <1>7. TraceInv'
    BY <1>1, <1>2 DEF TraceInv
  <1>8. QED
    BY <1>4, <1>5, <1>6, <1>7 DEF EngineInv

(* Every step of the engine keeps its invariant.                           *)
LEMMA EngineStep ==
  ASSUME EngineInv, Running!Next \/ UNCHANGED engineVars
  PROVE  EngineInv'
  <1>1. CASE UNCHANGED engineVars
    <2>1. UNCHANGED <<steps, options, cursor, phase, hookIndex, hookLog, bodyEnd, pastOutputs>>
      BY <1>1 DEF engineVars
    <2>2. UNCHANGED <<traced, ending, bodies, runs>>
      BY <1>1 DEF engineVars
    <2>3. Running!StopsHere' = Running!StopsHere
      BY <2>1 DEF Running!StopsHere, Running!Step
    <2>4. EngineTypes'
      BY <2>1, <2>2, <2>3 DEF EngineInv, EngineTypes, Within
    <2>5. OnionInv'
      <3>1. AllOpened'
        BY <2>1 DEF EngineInv, OnionInv, AllOpened
      <3>2. QED
        BY <2>1, <3>1 DEF EngineInv, OnionInv, Entered, WayBack
    <2>6. BodiesInv'
      BY <2>1, <2>2 DEF EngineInv, BodiesInv, Ran
    <2>7. TraceInv'
      <3>1. Through' = Through
        BY <2>1, <2>3 DEF Through
      <3>2. Running!AbortedStep' = Running!AbortedStep
        BY <2>2 DEF Running!AbortedStep
      <3>3. (Running!Step.name)' = Running!Step.name
        BY <2>1 DEF Running!Step
      <3>4. QED
        BY <2>1, <2>2, <3>1, <3>2, <3>3 DEF EngineInv, TraceInv
    <2>8. QED
      BY <2>4, <2>5, <2>6, <2>7 DEF EngineInv
  <1>2. CASE Running!Select
    BY <1>2, SelectKeeps
  <1>3. CASE Running!BeforeStep
    BY <1>3, BeforeStepKeeps
  <1>4. CASE Running!Unwind
    BY <1>4, UnwindKeeps
  <1>5. CASE Running!Unwound
    BY <1>5, UnwoundKeeps
  <1>6. CASE Running!Execute
    BY <1>6, ExecuteKeeps
  <1>7. CASE Running!OnStepError
    BY <1>7, OnStepErrorKeeps
  <1>8. CASE Running!Unrecovered
    BY <1>8, UnrecoveredKeeps
  <1>9. CASE Running!AfterStep
    BY <1>9, AfterStepKeeps
  <1>10. CASE Running!Complete
    BY <1>10, CompleteKeeps
  <1>11. CASE Running!Retry
    BY <1>11, RetryKeeps
  <1>12. QED
    BY <1>1, <1>2, <1>3, <1>4, <1>5, <1>6, <1>7, <1>8, <1>9, <1>10, <1>11 DEF Running!Next

LEMMA EngineStarts ==
  ASSUME Running!Init
  PROVE  EngineInv
  <1>1. /\ steps \in Pipelines /\ options \in Options /\ cursor = 1 /\ phase = "select" /\ hookIndex = 0
        /\ hookLog = [before |-> <<>>, error |-> <<>>, after |-> <<>>] /\ pastOutputs = {}
        /\ traced = <<>> /\ ending = Nothing /\ bodies = <<>> /\ runs = 1
    BY DEF Running!Init, Running!NoHook
  <1>2. steps \in Seq({steps[i] : i \in DOMAIN steps}) /\ Hooks \in Seq(HookSet)
    BY <1>1, PipelineAssumption DEF IsList, HookSet
  <1>3. Len(steps) \in Nat /\ Len(Hooks) \in Nat
    BY <1>2
  <1>4. EngineTypes
    <2>1. cursor \in 1 .. Len(steps) + 1 /\ hookIndex \in 0 .. Len(Hooks) + 1
      BY <1>1, <1>3
    <2>2. bodies \in Seq(1 .. Len(steps)) /\ traced \in Seq(Records)
      BY <1>1
    <2>3. hookLog \in [before : Seq(HookSet), error : Seq(HookSet), after : Seq(HookSet)]
      BY <1>1
    <2>4. QED
      BY <1>1, <2>1, <2>2, <2>3 DEF EngineTypes, Within
  <1>5. OnionInv
    <2>1. AllOpened
      BY <1>1 DEF AllOpened, Running!Range
    <2>2. QED
      BY <1>1, <2>1 DEF OnionInv
  <1>6. BodiesInv
    BY <1>1 DEF BodiesInv, Ran
  <1>7. TraceInv
    <2>1. Through = 0 /\ Len(traced) = 0 /\ DOMAIN traced = {}
      BY <1>1 DEF Through
    <2>2. ending # "aborted"
      BY <1>1, PipelineAssumption
    <2>3. QED
      BY <2>1, <2>2 DEF TraceInv
  <1>8. QED
    BY <1>4, <1>5, <1>6, <1>7 DEF EngineInv

(* The hooks that were told on the way back are the reverse of those that  *)
(* were entered.                                                           *)
LEMMA ReverseIs ==
  ASSUME NEW S, NEW list \in Seq(S), NEW back \in Seq(S), Len(back) = Len(list),
         \A k \in 1 .. Len(list) : back[k] = list[Len(list) + 1 - k]
  PROVE  back = Running!Reverse(list)
  <1>1. PICK n \in Nat : n = Len(list)
    OBVIOUS
  <1>2. Running!Reverse(list) = [k \in 1 .. n |-> list[(n - k) + 1]]
    BY <1>1 DEF Running!Reverse, Reverse
  <1>3. \A k \in 1 .. n : (n - k) + 1 = n + 1 - k /\ (n - k) + 1 \in 1 .. n
    BY <1>1
  <1>4. back = [k \in 1 .. n |-> back[k]]
    BY <1>1
  <1>5. \A k \in 1 .. n : back[k] = list[(n - k) + 1]
    BY <1>1, <1>3
  <1>6. QED
    BY <1>2, <1>4, <1>5

LEMMA OnionIsClosed ==
  ASSUME EngineInv
  PROVE  Running!OnionCloses
  <1>1. Hooks \in Seq(HookSet) /\ Len(Hooks) \in Nat
    BY PipelineIs DEF EngineInv
  <1>2. hookLog.before \in Seq(HookSet) /\ hookLog.error \in Seq(HookSet) /\ hookLog.after \in Seq(HookSet)
    BY DEF EngineInv, EngineTypes
  <1>3. ASSUME NEW told_ \in Seq(HookSet), Entered(told_, Len(Hooks))
        PROVE  told_ = Hooks
    BY <1>1, <1>3, SeqEqual DEF Entered
  <1>4. ASSUME NEW told_ \in Seq(HookSet), WayBack(told_, Len(Hooks), 0)
        PROVE  told_ = Running!Reverse(Hooks)
    <2>1. Len(Hooks) - 0 = Len(Hooks)
      BY <1>1
    <2>2. Len(told_) = Len(Hooks) /\ \A k \in 1 .. Len(Hooks) : told_[k] = Hooks[Len(Hooks) + 1 - k]
      BY <1>4, <2>1 DEF WayBack
    <2>3. QED
      BY <1>1, <2>2, ReverseIs
  <1>5. Running!Range(hookLog.after) \cup Running!Range(hookLog.error) \subseteq Running!Range(hookLog.before)
    BY DEF EngineInv, OnionInv, AllOpened
  <1>6. phase = "after" /\ hookIndex = 0 => hookLog.before = Hooks /\ hookLog.after = Running!Reverse(Hooks)
    BY <1>2, <1>3, <1>4 DEF EngineInv, OnionInv
  <1>7. phase = "unwinding" /\ hookIndex = 0 =>
          hookLog.error = Running!Reverse(hookLog.before) /\ hookLog.after = <<>>
    <2>1. SUFFICES ASSUME phase = "unwinding", hookIndex = 0
                   PROVE  hookLog.error = Running!Reverse(hookLog.before) /\ hookLog.after = <<>>
      OBVIOUS
    <2>2. PICK n \in 1 .. Len(Hooks) :
            Entered(hookLog.before, n) /\ WayBack(hookLog.error, n, 0) /\ hookLog.after = <<>>
      BY <2>1 DEF EngineInv, OnionInv
    <2>3. n \in Nat /\ n - 0 = n /\ \A k \in 1 .. n : n + 1 - k \in 1 .. n
      BY <1>1
    <2>4. /\ Len(hookLog.before) = n /\ Len(hookLog.error) = n
          /\ \A k \in 1 .. n : hookLog.error[k] = Hooks[n + 1 - k] /\ hookLog.before[k] = Hooks[k]
      BY <2>2, <2>3 DEF Entered, WayBack
    <2>5. \A k \in 1 .. n : hookLog.error[k] = hookLog.before[n + 1 - k]
      BY <2>3, <2>4
    <2>6. QED
      BY <1>2, <2>2, <2>4, <2>5, ReverseIs
  <1>8. phase = "failing" /\ hookIndex = 0 => hookLog.error = Running!Reverse(Hooks) /\ hookLog.after = <<>>
    BY <1>2, <1>4 DEF EngineInv, OnionInv
  <1>9. QED
    BY <1>5, <1>6, <1>7, <1>8 DEF Running!OnionCloses

(* What the invariant says of the engine is what its module promises.      *)
LEMMA EngineIsSound ==
  ASSUME EngineInv
  PROVE  Running!StepsAreSound
  <1>1. /\ cursor \in 1 .. Len(steps) + 1 /\ Len(steps) \in Nat /\ bodies \in Seq(1 .. Len(steps))
        /\ Running!Range(bodies) = Ran /\ Ran \subseteq 1 .. Len(steps)
        /\ \A i, j \in 1 .. Len(steps) : steps[i].name = steps[j].name => i = j
    <2>1. bodies \in Seq(1 .. Len(steps))
      BY DEF EngineInv, EngineTypes
    <2>2. Running!Range(bodies) = Ran
      BY DEF Running!Range, Ran
    <2>3. Ran \subseteq 1 .. Len(steps)
      BY <2>1 DEF Ran
    <2>4. QED
      BY <2>1, <2>2, <2>3, PipelineIs DEF EngineInv, EngineTypes
  <1>2. Running!OutputsArePast
    <2>1. ASSUME Within, steps[cursor].name \in pastOutputs
          PROVE  FALSE
      <3>1. phase # "done" /\ cursor \in 1 .. Len(steps)
        BY <1>1, <2>1 DEF EngineInv, EngineTypes, Within
      <3>2. PICK i \in Ran : steps[i].name = steps[cursor].name /\ i < cursor
        BY <2>1, <3>1 DEF EngineInv, BodiesInv
      <3>3. i = cursor
        BY <1>1, <3>1, <3>2
      <3>4. QED
        BY <1>1, <3>2, <3>3
    <2>2. pastOutputs \subseteq {steps[i].name : i \in Ran}
      BY DEF EngineInv, BodiesInv
    <2>3. QED
      BY <1>1, <2>1, <2>2 DEF Running!OutputsArePast, Running!Step, Within
  <1>3. Running!RunsAreOrdered
    BY <1>1 DEF Running!RunsAreOrdered, EngineInv, BodiesInv
  <1>4. Running!TraceIsTrue
    <2>1. SUFFICES ASSUME runs = 1
                   PROVE  Running!TraceIsTrue
      BY DEF Running!TraceIsTrue
    <2>2. ASSUME ending # Nothing
          PROVE  Through = IF cursor <= Len(steps) /\ ~Running!StopsHere THEN cursor ELSE cursor - 1
      BY <2>2 DEF EngineInv, EngineTypes, Through
    <2>3. ASSUME ending # Nothing, options.only = Nothing
          PROVE  Len(traced) = Through /\ \A i \in 1 .. Through : traced[i].name = steps[i].name
      BY <2>1, <2>3 DEF EngineInv, TraceInv
    <2>4. ending = "aborted" /\ ~options.dry => Running!AbortedStep = Running!Step.name
      BY <2>1 DEF EngineInv, TraceInv
    <2>5. QED
      BY <2>2, <2>3, <2>4 DEF Running!TraceIsTrue
  <1>5. QED
    BY <1>2, <1>3, <1>4, OnionIsClosed DEF Running!StepsAreSound

-----------------------------------------------------------------------------
(* The invariant of the strategies.                                        *)

(* A strategy with its index, of steps that are steps and weaken no gate.  *)
IsStrategy(st) ==
  /\ st = [name |-> st.name, steps |-> st.steps, index |-> Piping!IndexOf(st.steps)]
  /\ IsList(st.steps)
  /\ \A i \in DOMAIN st.steps : Piping!IsStep(st.steps[i]) /\ ~Piping!Weakened(st.steps[i])

(* The gates of the standard strategy and their steps.                     *)
GateSteps == {[name |-> "acl_check", gate |-> "acl"], [name |-> "approval_gate", gate |-> "approval"]}

(* What the edits of a section keep.                                       *)
LooksUp(list) ==
  \E i \in DOMAIN list :
    list[i].name = "module_lookup" /\ list[i].provides = {"module"} /\ ~list[i].removable
Gated(list, removed) ==
  \A g \in GateSteps :
    g.name \in removed \/ \E i \in DOMAIN list : list[i].name = g.name /\ list[i].gate = g.gate
InOrder(list) == ~Piping!Repeats(list) /\ ~Piping!Unmet(list) /\ LooksUp(list)

(* No step requires what a removable one provides.                         *)
Expendable(list) ==
  \A i, j \in DOMAIN list : list[i].removable => list[i].provides \cap list[j].requires = {}

(* The step has the timeout that the section configured.                   *)
Timed(list, f) == \E i \in DOMAIN list : list[i].name = f.step /\ list[i].timeout = f.timeout

Asked(edit, s) ==
  /\ edit.do \in {"remove", "configure", "insert"}
  /\ edit.do = "remove" => edit.entry \in Piping!Range(s.remove)
  /\ edit.do = "configure" => edit.entry \in Piping!Range(s.configure)
  /\ edit.do = "insert" => edit.entry \in Piping!Range(s.insert)
Pending(f, edits_) == \E k \in DOMAIN edits_ : edits_[k].do = "configure" /\ edits_[k].entry = f
Removing(edits_)   == \E k \in DOMAIN edits_ : edits_[k].do = "remove"

(* The edits of a section that are still to make: the removals come first. *)
IsPlan(edits_, s) ==
  /\ IsList(edits_) /\ \A k \in DOMAIN edits_ : Asked(edits_[k], s)
  /\ \A j, k \in DOMAIN edits_ : j < k /\ edits_[k].do = "remove" => edits_[j].do = "remove"
  /\ Removing(edits_) => \A f \in Piping!Range(s.configure) : Pending(f, edits_)

SectionInv ==
  /\ section \in Sections /\ holder \in {"config", "executor"}
  /\ InOrder(strategy.steps)
  /\ Gated(strategy.steps, IF fellBack THEN {} ELSE Piping!Range(section.remove))
  /\ ~fellBack =>
       \A f \in Piping!Range(section.configure) :
         \/ f.timeout = Nothing \/ (rebound /\ f.step = "module_lookup")
         \/ Timed(strategy.steps, f) \/ (holder = "config" /\ Pending(f, plan))
  /\ holder = "config" =>
       /\ ~fellBack /\ ~rebound /\ IsPlan(plan, section)
       /\ Removing(plan) => Expendable(strategy.steps)

StrategyInv ==
  /\ holder \in {"nobody", "config", "caller", "executor"} /\ stepTypes \subseteq DOMAIN Makes
  /\ fellBack \in BOOLEAN /\ rebound \in BOOLEAN
  /\ holder = "nobody" => section = Nothing /\ ~fellBack /\ ~rebound
  /\ holder = "config" => section # Nothing
  /\ holder # "nobody" => IsStrategy(strategy)
  /\ section # Nothing => SectionInv

(* A sequence over any set is one over its own elements.                   *)
LEMMA ListIs ==
  ASSUME NEW S, NEW list \in Seq(S)
  PROVE  /\ IsList(list) /\ Len(list) \in Nat /\ DOMAIN list = 1 .. Len(list)
         /\ \A i \in 1 .. Len(list) : list[i] \in S
  <1>1. Len(list) \in Nat /\ DOMAIN list = 1 .. Len(list) /\ \A i \in 1 .. Len(list) : list[i] \in S
    OBVIOUS
  <1>2. list \in [1 .. Len(list) -> {list[i] : i \in DOMAIN list}]
    <2>1. list = [i \in 1 .. Len(list) |-> list[i]]
      OBVIOUS
    <2>2. \A i \in 1 .. Len(list) : list[i] \in {list[k] : k \in DOMAIN list}
      BY <1>1
    <2>3. QED
      BY <2>1, <2>2
  <1>3. list \in Seq({list[i] : i \in DOMAIN list})
    BY <1>1, <1>2, FunctionIsList
  <1>4. QED
    BY <1>1, <1>3 DEF IsList

LEMMA GreatestExists ==
  ASSUME NEW n \in Nat, NEW T \in SUBSET (1 .. n), T # {}
  PROVE  \E i \in T : \A j \in T : j <= i
  <1> DEFINE Gaps == {n - i : i \in T}
  <1>1. Gaps \in SUBSET Nat /\ Gaps # {}
    <2>1. \A i \in T : i \in 1 .. n /\ n - i \in Nat
      OBVIOUS
    <2>2. QED
      BY <2>1
  <1>2. PICK g \in Gaps : \A h \in Gaps : g <= h
    BY <1>1, LeastExists
  <1>3. PICK i \in T : g = n - i
    BY <1>2
  <1>4. ASSUME NEW j \in T
        PROVE  j <= i
    <2>1. n - j \in Gaps
      OBVIOUS
    <2>2. n - i <= n - j
      BY <1>2, <1>3, <2>1
    <2>3. QED
      BY <2>2
  <1>5. QED
    BY <1>4

(* The index has a position of each name.                                  *)
LEMMA IndexIs ==
  ASSUME NEW S, NEW list \in Seq(S)
  PROVE  /\ DOMAIN Piping!IndexOf(list) = Piping!Names(list)
         /\ \A n \in Piping!Names(list) :
              Piping!IndexOf(list)[n] \in 1 .. Len(list) /\ list[Piping!IndexOf(list)[n]].name = n
  <1>1. DOMAIN Piping!IndexOf(list) = Piping!Names(list)
    BY DEF Piping!IndexOf
  <1>2. ASSUME NEW n \in Piping!Names(list)
        PROVE  Piping!IndexOf(list)[n] \in 1 .. Len(list) /\ list[Piping!IndexOf(list)[n]].name = n
    <2> DEFINE Places   == {i \in 1 .. Len(list) : list[i].name = n}
               Final(i) == list[i].name = n /\ \A j \in DOMAIN list : list[j].name = n => j <= i
    <2>1. DOMAIN list = 1 .. Len(list) /\ Len(list) \in Nat
      OBVIOUS
    <2>2. Places \in SUBSET (1 .. Len(list)) /\ Places # {}
      BY <1>2, <2>1 DEF Piping!Names
    <2>3. PICK i \in Places : \A j \in Places : j <= i
      BY <2>1, <2>2, GreatestExists
    <2>4. i \in DOMAIN list /\ Final(i)
      BY <2>1, <2>3
    <2>5. Piping!IndexOf(list)[n] = CHOOSE k \in DOMAIN list : Final(k)
      BY <1>2 DEF Piping!IndexOf
    <2> HIDE DEF Final, Places
    <2>6. Piping!IndexOf(list)[n] \in DOMAIN list /\ Final(Piping!IndexOf(list)[n])
      BY <2>4, <2>5
    <2>7. QED
      BY <2>1, <2>6 DEF Final
  <1>3. QED
    BY <1>1, <1>2

LEMMA StrategyIs ==
  ASSUME NEW st, IsStrategy(st)
  PROVE  /\ IsList(st.steps) /\ Len(st.steps) \in Nat /\ DOMAIN st.steps = 1 .. Len(st.steps)
         /\ st.steps \in Seq({st.steps[i] : i \in DOMAIN st.steps})
         /\ \A i \in 1 .. Len(st.steps) : Piping!IsStep(st.steps[i]) /\ ~Piping!Weakened(st.steps[i])
         /\ \A n : Piping!Holds(st, n) => st.index[n] \in 1 .. Len(st.steps) /\ st.steps[st.index[n]].name = n
         /\ \A n : ~Piping!Holds(st, n) => \A i \in 1 .. Len(st.steps) : st.steps[i].name # n
  <1>1. st.steps \in Seq({st.steps[i] : i \in DOMAIN st.steps})
    BY DEF IsStrategy, IsList
  <1>2. Len(st.steps) \in Nat /\ DOMAIN st.steps = 1 .. Len(st.steps)
    BY <1>1
  <1>3. st.index = Piping!IndexOf(st.steps)
    BY DEF IsStrategy
  <1>4. DOMAIN st.index = Piping!Names(st.steps)
    BY <1>1, <1>3, IndexIs
  <1>5. \A n \in Piping!Names(st.steps) :
          st.index[n] \in 1 .. Len(st.steps) /\ st.steps[st.index[n]].name = n
    BY <1>1, <1>3, IndexIs
  <1>6. \A n : n \notin Piping!Names(st.steps) => \A i \in 1 .. Len(st.steps) : st.steps[i].name # n
    BY <1>2 DEF Piping!Names
  <1>7. QED
    BY <1>1, <1>2, <1>4, <1>5, <1>6 DEF IsStrategy, Piping!Holds

LEMMA WithStepsIs ==
  ASSUME NEW st, IsStrategy(st), NEW S, NEW list \in Seq(S),
         \A i \in DOMAIN list : Piping!IsStep(list[i]) /\ ~Piping!Weakened(list[i])
  PROVE  IsStrategy(Piping!WithSteps(st, list)) /\ Piping!WithSteps(st, list).steps = list
  <1>1. st = [name |-> st.name, steps |-> st.steps, index |-> Piping!IndexOf(st.steps)]
    BY DEF IsStrategy
  <1>2. Piping!WithSteps(st, list) = [name |-> st.name, steps |-> list, index |-> Piping!IndexOf(list)]
    <2>1. PICK a, b, c : st = [name |-> a, steps |-> b, index |-> c]
      BY <1>1
    <2>2. st.name = a
      BY <2>1
    <2>3. PICK indices : indices = Piping!IndexOf(list)
      OBVIOUS
    <2>4. [st EXCEPT !.steps = list, !.index = indices] = [name |-> a, steps |-> list, index |-> indices]
      <3> DEFINE T == {a, b, c, list, indices}
      <3>1. st \in [name : T, steps : T, index : T]
        BY <2>1
      <3>2. [st EXCEPT !.steps = list, !.index = indices] \in [name : T, steps : T, index : T]
        BY <3>1
      <3>3. PICK r \in [name : T, steps : T, index : T] : r = [st EXCEPT !.steps = list, !.index = indices]
        BY <3>2
      <3>4. r.name = a /\ r.steps = list /\ r.index = indices
        BY <2>1, <3>1, <3>3
      <3>5. r = [name |-> r.name, steps |-> r.steps, index |-> r.index]
        OBVIOUS
      <3>6. QED
        BY <3>3, <3>4, <3>5
    <2>5. QED
      BY <2>2, <2>3, <2>4 DEF Piping!WithSteps
  <1>3. IsList(list)
    BY ListIs
  <1>4. QED
    BY <1>2, <1>3 DEF IsStrategy

-----------------------------------------------------------------------------
(* What becomes of a step.                                                 *)

Fields == {"name", "gate", "removable", "replaceable", "pure", "requires", "provides", "matches", "ignores",
           "timeout"}

(* A step with other fields.                                               *)
LEMMA FieldsAre ==
  ASSUME NEW step, DOMAIN step = Fields, NEW name, NEW matches, NEW ignores, NEW pure, NEW timeout
  PROVE  LET r == [step EXCEPT !.matches = matches, !.ignores = ignores, !.pure = pure, !.timeout = timeout]
             q == [step EXCEPT !.name = name, !.ignores = ignores, !.pure = pure, !.timeout = timeout]
             p == [step EXCEPT !.ignores = ignores, !.matches = matches, !.pure = pure]
         IN /\ DOMAIN r = Fields /\ DOMAIN q = Fields /\ DOMAIN p = Fields
            /\ r.matches = matches /\ r.ignores = ignores /\ r.pure = pure /\ r.timeout = timeout
            /\ q.name = name /\ q.ignores = ignores /\ q.pure = pure /\ q.timeout = timeout
            /\ p.matches = matches /\ p.ignores = ignores /\ p.pure = pure
            /\ r.name = step.name
            /\ r.gate = step.gate /\ q.gate = step.gate /\ p.gate = step.gate
            /\ r.removable = step.removable /\ q.removable = step.removable /\ p.removable = step.removable
            /\ r.replaceable = step.replaceable /\ q.replaceable = step.replaceable
            /\ p.replaceable = step.replaceable
            /\ r.requires = step.requires /\ r.provides = step.provides
  BY DEF Fields

(* A gate that was neutralised gates again.                                *)
LEMMA NeutralisedIs ==
  ASSUME NEW step, Piping!IsStep(step)
  PROVE  Piping!IsStep(Piping!Neutralised(step)) /\ ~Piping!Weakened(Piping!Neutralised(step))
  <1>1. PICK p : p = Piping!Neutralised(step)
    OBVIOUS
  <1>2. PICK pure : pure = (step.gate = "acl")
    OBVIOUS
  <1>3. DOMAIN step = Fields
    BY DEF Piping!IsStep, Fields
  <1>4. /\ DOMAIN p = Fields /\ p.matches = Nothing /\ p.ignores = FALSE /\ p.pure = pure /\ p.gate = step.gate
        /\ p.removable = step.removable /\ p.replaceable = step.replaceable
    BY <1>1, <1>2, <1>3, FieldsAre DEF Piping!Neutralised
  <1>5. pure \in BOOLEAN /\ FALSE \in BOOLEAN
    BY <1>2, Zenon
  <1>6. Piping!IsStep(p)
    BY <1>4, <1>5 DEF Piping!IsStep, Fields
  <1>7. ~Piping!Weakened(p)
    <2>1. step.gate = "approval" => ~pure
      BY <1>2
    <2>2. QED
      BY <1>4, <2>1 DEF Piping!Weakened
  <1>8. QED
    BY <1>1, <1>6, <1>7

(* The configuration of a step keeps what it is called, gates, requires    *)
(* and provides.                                                           *)
LEMMA OverlaidIs ==
  ASSUME NEW step, Piping!IsStep(step), NEW f, {f.ignores, f.pure} \subseteq {Nothing} \cup BOOLEAN
  PROVE  LET o == Piping!Overlaid(step, f) IN
         /\ Piping!IsStep(o) /\ o.name = step.name /\ o.gate = step.gate /\ o.removable = step.removable
         /\ o.requires = step.requires /\ o.provides = step.provides
         /\ f.timeout # Nothing => o.timeout = f.timeout
         /\ f.timeout = Nothing => o.timeout = step.timeout
  <1>1. PICK o : o = Piping!Overlaid(step, f)
    OBVIOUS
  <1>2. PICK matches, ignores, pure, timeout :
          /\ matches = IF f.matches # Nothing THEN f.matches ELSE step.matches
          /\ ignores = IF f.ignores # Nothing THEN f.ignores ELSE step.ignores
          /\ pure = IF f.pure # Nothing THEN f.pure ELSE step.pure
          /\ timeout = IF f.timeout # Nothing THEN f.timeout ELSE step.timeout
    OBVIOUS
  <1>3. DOMAIN step = Fields
    BY DEF Piping!IsStep, Fields
  <1>4. o = [step EXCEPT !.matches = matches, !.ignores = ignores, !.pure = pure, !.timeout = timeout]
    BY <1>1, <1>2 DEF Piping!Overlaid
  <1>5. /\ DOMAIN o = Fields /\ o.ignores = ignores /\ o.pure = pure /\ o.timeout = timeout
        /\ o.name = step.name /\ o.gate = step.gate /\ o.removable = step.removable
        /\ o.replaceable = step.replaceable /\ o.requires = step.requires /\ o.provides = step.provides
    BY <1>3, <1>4, FieldsAre
  <1>6. ignores \in BOOLEAN /\ pure \in BOOLEAN
    <2>1. step.ignores \in BOOLEAN /\ step.pure \in BOOLEAN
      BY DEF Piping!IsStep
    <2>2. QED
      BY <1>2, <2>1
  <1>7. Piping!IsStep(o)
    BY <1>5, <1>6 DEF Piping!IsStep, Fields
  <1>8. QED
    BY <1>1, <1>2, <1>5, <1>7

(* The step a section inserts is one.                                      *)
LEMMA ResolvedIs ==
  ASSUME NEW e, {e.ignores, e.pure} \subseteq {Nothing} \cup BOOLEAN, e.type \in DOMAIN Makes
  PROVE  Piping!IsStep(Piping!Resolved(e))
  <1>1. PICK made : made = Piping!Overlaid(Makes[e.type], e)
    OBVIOUS
  <1>2. Piping!IsStep(made)
    BY <1>1, StrategyAssumption, OverlaidIs
  <1>3. PICK name, ignores, pure, timeout :
          /\ name = IF e.name = Nothing THEN made.name ELSE e.name
          /\ ignores = (e.ignores = TRUE) /\ pure = (e.pure = TRUE)
          /\ timeout = IF e.timeout = Nothing THEN 0 ELSE e.timeout
    OBVIOUS
  <1>4. PICK q : q = Piping!Resolved(e)
    OBVIOUS
  <1>5. q = [made EXCEPT !.name = name, !.ignores = ignores, !.pure = pure, !.timeout = timeout]
    BY <1>1, <1>3, <1>4 DEF Piping!Resolved
  <1>6. DOMAIN made = Fields
    BY <1>2 DEF Piping!IsStep, Fields
  <1>7. /\ DOMAIN q = Fields /\ q.ignores = ignores /\ q.pure = pure
        /\ q.gate = made.gate /\ q.removable = made.removable /\ q.replaceable = made.replaceable
    BY <1>5, <1>6, FieldsAre
  <1>8. ignores \in BOOLEAN /\ pure \in BOOLEAN
    BY <1>3, Zenon
  <1>9. Piping!IsStep(q)
    BY <1>2, <1>7, <1>8 DEF Piping!IsStep, Fields
  <1>10. QED
    BY <1>4, <1>9

-----------------------------------------------------------------------------
(* What becomes of a list of steps.                                        *)

LEMMA OrderIs ==
  ASSUME NEW S, NEW list \in Seq(S)
  PROVE  /\ ~Piping!Repeats(list) <=>
              \A i, j \in 1 .. Len(list) : list[i].name = list[j].name => i = j
         /\ ~Piping!Unmet(list) <=>
              \A i \in 1 .. Len(list) : \A c \in list[i].requires :
                \E j \in 1 .. Len(list) : j < i /\ c \in list[j].provides
  <1>1. DOMAIN list = 1 .. Len(list) /\ Len(list) \in Nat
    OBVIOUS
  <1>2. ~Piping!Repeats(list) <=> \A i, j \in 1 .. Len(list) : list[i].name = list[j].name => i = j
    BY <1>1 DEF Piping!Repeats
  <1>3. ASSUME NEW i \in 1 .. Len(list)
        PROVE  (list[i].requires \subseteq UNION {list[j].provides : j \in 1 .. (i - 1)}) <=>
                 \A c \in list[i].requires : \E j \in 1 .. Len(list) : j < i /\ c \in list[j].provides
    <2>1. \A j : j \in 1 .. (i - 1) <=> j \in 1 .. Len(list) /\ j < i
      BY <1>1
    <2>2. \A c : c \in UNION {list[j].provides : j \in 1 .. (i - 1)} <=>
                  \E j \in 1 .. Len(list) : j < i /\ c \in list[j].provides
      BY <2>1
    <2>3. QED
      BY <2>2
  <1>4. ~Piping!Unmet(list) <=>
          \A i \in 1 .. Len(list) : list[i].requires \subseteq UNION {list[j].provides : j \in 1 .. (i - 1)}
    BY <1>1 DEF Piping!Unmet
  <1>5. QED
    BY <1>2, <1>3, <1>4

(* A removable step whose provisions nobody requires is taken out.         *)
LEMMA RemovalKeeps ==
  ASSUME NEW S, NEW list \in Seq(S), NEW p \in 1 .. Len(list), NEW r, r = RemoveAt(list, p)
  PROVE  /\ r \in Seq(S) /\ \A k \in DOMAIN r : \E i \in DOMAIN list : r[k] = list[i]
         /\ \A i \in DOMAIN list : i # p => \E k \in DOMAIN r : r[k] = list[i]
         /\ InOrder(list) /\ Expendable(list) /\ list[p].removable => InOrder(r) /\ Expendable(r)
  <1>1. /\ r \in Seq(S) /\ Len(r) = Len(list) - 1 /\ Len(list) \in Nat /\ Len(r) \in Nat
        /\ \A k \in 1 .. Len(r) : r[k] = IF k < p THEN list[k] ELSE list[k + 1]
        /\ DOMAIN r = 1 .. Len(r) /\ DOMAIN list = 1 .. Len(list)
    <2>1. /\ r \in Seq(S) /\ Len(r) = Len(list) - 1
          /\ \A k \in 1 .. Len(list) - 1 : r[k] = IF k < p THEN list[k] ELSE list[k + 1]
      BY Removed
    <2>2. DOMAIN r = 1 .. Len(r) /\ DOMAIN list = 1 .. Len(list) /\ Len(list) \in Nat /\ Len(r) \in Nat
      BY <2>1
    <2>3. QED
      BY <2>1, <2>2
  <1>2. \A k \in 1 .. Len(r) : k + 1 \in 1 .. Len(list) /\ k \in 1 .. Len(list)
    BY <1>1
  <1>3. ASSUME NEW i \in 1 .. Len(list), i # p
        PROVE  \E k \in 1 .. Len(r) : r[k] = list[i] /\ k = IF i < p THEN i ELSE i - 1
    <2>1. CASE i < p
      <3>1. i \in 1 .. Len(r)
        BY <1>1, <2>1
      <3>2. QED
        BY <1>1, <2>1, <3>1
    <2>2. CASE i > p
      <3>1. i - 1 \in 1 .. Len(r) /\ ~(i - 1 < p) /\ i - 1 + 1 = i /\ ~(i < p)
        BY <1>1, <2>2
      <3>2. QED
        BY <1>1, <3>1
    <2>3. QED
      BY <1>3, <2>1, <2>2
  <1>4. ASSUME InOrder(list), Expendable(list), list[p].removable
        PROVE  InOrder(r) /\ Expendable(r)
    <2>1. /\ \A i, j \in 1 .. Len(list) : list[i].name = list[j].name => i = j
          /\ \A i \in 1 .. Len(list) : \A c \in list[i].requires :
               \E j \in 1 .. Len(list) : j < i /\ c \in list[j].provides
      BY <1>4, OrderIs DEF InOrder
    <2>2. ASSUME NEW i \in 1 .. Len(r), NEW j \in 1 .. Len(r), r[i].name = r[j].name
          PROVE  i = j
      <3>1. PICK a \in 1 .. Len(list), b \in 1 .. Len(list) :
              /\ a = IF i < p THEN i ELSE i + 1
              /\ b = IF j < p THEN j ELSE j + 1
        BY <1>2
      <3>2. r[i] = list[a] /\ r[j] = list[b]
        BY <1>1, <3>1
      <3>3. a = b
        BY <2>1, <2>2, <3>2
      <3>4. QED
        BY <3>1, <3>3
    <2>3. ASSUME NEW i \in 1 .. Len(r), NEW c \in r[i].requires
          PROVE  \E j \in 1 .. Len(r) : j < i /\ c \in r[j].provides
      <3>1. PICK a \in 1 .. Len(list) : a = IF i < p THEN i ELSE i + 1
        BY <1>2
      <3>2. r[i] = list[a] /\ a # p
        BY <1>1, <3>1
      <3>3. PICK b \in 1 .. Len(list) : b < a /\ c \in list[b].provides
        BY <2>1, <2>3, <3>2
      <3>4. b # p
        <4>1. c \in list[a].requires
          BY <2>3, <3>2
        <4>2. list[p].provides \cap list[a].requires = {}
          BY <1>1, <1>4 DEF Expendable
        <4>3. QED
          BY <3>3, <4>1, <4>2
      <3>5. PICK j \in 1 .. Len(r) : r[j] = list[b] /\ j = IF b < p THEN b ELSE b - 1
        BY <1>3, <3>4
      <3>6. j < i
        BY <3>1, <3>3, <3>4, <3>5
      <3>7. QED
        BY <3>3, <3>5, <3>6
    <2>4. LooksUp(r)
      <3>1. PICK i \in 1 .. Len(list) :
              list[i].name = "module_lookup" /\ list[i].provides = {"module"} /\ ~list[i].removable
        BY <1>1, <1>4 DEF InOrder, LooksUp
      <3>2. i # p
        BY <1>4, <3>1
      <3>3. PICK k \in 1 .. Len(r) : r[k] = list[i]
        BY <1>3, <3>2
      <3>4. QED
        BY <1>1, <3>1, <3>3 DEF LooksUp
    <2>5. Expendable(r)
      <3>1. \A k \in DOMAIN r : \E i \in DOMAIN list : r[k] = list[i]
        BY <1>1, <1>2
      <3>2. SUFFICES ASSUME NEW i \in DOMAIN r, NEW j \in DOMAIN r, r[i].removable
                     PROVE  r[i].provides \cap r[j].requires = {}
        BY DEF Expendable
      <3>3. PICK a \in DOMAIN list, b \in DOMAIN list : r[i] = list[a] /\ r[j] = list[b]
        BY <3>1
      <3>4. QED
        BY <1>4, <3>2, <3>3 DEF Expendable
    <2>6. ~Piping!Repeats(r)
      BY <1>1, <2>2, OrderIs
    <2>7. ~Piping!Unmet(r)
      BY <1>1, <2>3, OrderIs
    <2>8. QED
      BY <2>4, <2>5, <2>6, <2>7 DEF InOrder
  <1>5. \A k \in DOMAIN r : \E i \in DOMAIN list : r[k] = list[i]
    BY <1>1, <1>2
  <1>6. \A i \in DOMAIN list : i # p => \E k \in DOMAIN r : r[k] = list[i]
    BY <1>1, <1>3
  <1>7. QED
    BY <1>1, <1>4, <1>5, <1>6

(* A step with a name of its own is put in.                                *)
LEMMA InsertionKeeps ==
  ASSUME NEW S, NEW list \in Seq(S), NEW p \in 1 .. Len(list) + 1, NEW e \in S,
         NEW r, r = InsertAt(list, p, e), \A i \in 1 .. Len(list) : list[i].name # e.name
  PROVE  /\ r \in Seq(S) /\ \A k \in DOMAIN r : r[k] = e \/ \E i \in DOMAIN list : r[k] = list[i]
         /\ \A i \in DOMAIN list : \E k \in DOMAIN r : r[k] = list[i]
         /\ InOrder(list) /\ ~Piping!Unmet(r) => InOrder(r)
  <1>1. /\ r \in Seq(S) /\ Len(r) = Len(list) + 1 /\ Len(list) \in Nat /\ Len(r) \in Nat
        /\ \A k \in 1 .. Len(r) : r[k] = IF k < p THEN list[k] ELSE IF k = p THEN e ELSE list[k - 1]
        /\ DOMAIN r = 1 .. Len(r) /\ DOMAIN list = 1 .. Len(list)
    <2>1. /\ r \in Seq(S) /\ Len(r) = Len(list) + 1
          /\ \A k \in 1 .. Len(list) + 1 : r[k] = IF k < p THEN list[k] ELSE IF k = p THEN e ELSE list[k - 1]
      <3>1. /\ InsertAt(list, p, e) \in Seq(S) /\ Len(InsertAt(list, p, e)) = Len(list) + 1
            /\ \A k \in 1 .. Len(list) + 1 :
                 InsertAt(list, p, e)[k] = IF k < p THEN list[k] ELSE IF k = p THEN e ELSE list[k - 1]
        BY ONLY Inserted, list \in Seq(S), p \in 1 .. Len(list) + 1, e \in S
      <3>2. QED
        BY <3>1, r = InsertAt(list, p, e)
    <2>2. DOMAIN r = 1 .. Len(r) /\ DOMAIN list = 1 .. Len(list) /\ Len(list) \in Nat /\ Len(r) \in Nat
      BY <2>1
    <2>3. QED
      BY <2>1, <2>2
  <1>2. \A k \in 1 .. Len(r) : (k < p => k \in 1 .. Len(list)) /\ (k > p => k - 1 \in 1 .. Len(list))
    BY <1>1
  <1>3. ASSUME NEW i \in 1 .. Len(list)
        PROVE  \E k \in 1 .. Len(r) : r[k] = list[i]
    <2>1. CASE i < p
      <3>1. i \in 1 .. Len(r)
        BY <1>1
      <3>2. QED
        BY <1>1, <2>1, <3>1
    <2>2. CASE i >= p
      <3>1. i + 1 \in 1 .. Len(r) /\ ~(i + 1 < p) /\ i + 1 # p /\ i + 1 - 1 = i
        BY <1>1, <2>2
      <3>2. r[i + 1] = list[i + 1 - 1]
        BY <1>1, <3>1
      <3>3. QED
        BY <3>1, <3>2
    <2>3. QED
      BY <2>1, <2>2
  <1>4. ASSUME InOrder(list), ~Piping!Unmet(r)
        PROVE  InOrder(r)
    <2>1. \A i, j \in 1 .. Len(list) : list[i].name = list[j].name => i = j
      BY <1>4, OrderIs DEF InOrder
    <2>2. ASSUME NEW i \in 1 .. Len(r), NEW j \in 1 .. Len(r), r[i].name = r[j].name
          PROVE  i = j
      <3>1. CASE i = p
        <4>1. r[i] = e
          BY <1>1, <3>1
        <4>2. j < p => r[j].name # e.name
          BY <1>1, <1>2
        <4>3. j > p => r[j].name # e.name
          BY <1>1, <1>2
        <4>4. QED
          BY <2>2, <3>1, <4>1, <4>2, <4>3
      <3>2. CASE j = p
        <4>1. r[j] = e
          BY <1>1, <3>2
        <4>2. i < p => r[i].name # e.name
          BY <1>1, <1>2
        <4>3. i > p => r[i].name # e.name
          BY <1>1, <1>2
        <4>4. QED
          BY <2>2, <3>2, <4>1, <4>2, <4>3
      <3>3. CASE i # p /\ j # p
        <4>1. PICK a \in 1 .. Len(list), b \in 1 .. Len(list) :
                /\ a = IF i < p THEN i ELSE i - 1
                /\ b = IF j < p THEN j ELSE j - 1
          BY <1>2, <3>3
        <4>2. r[i] = list[a] /\ r[j] = list[b]
          BY <1>1, <3>3, <4>1
        <4>3. a = b
          BY <2>1, <2>2, <4>2
        <4>4. QED
          BY <3>3, <4>1, <4>3
      <3>4. QED
        BY <3>1, <3>2, <3>3
    <2>3. ~Piping!Repeats(r)
      BY <1>1, <2>2, OrderIs
    <2>4. LooksUp(r)
      <3>1. PICK i \in 1 .. Len(list) :
              list[i].name = "module_lookup" /\ list[i].provides = {"module"} /\ ~list[i].removable
        BY <1>1, <1>4 DEF InOrder, LooksUp
      <3>2. PICK k \in 1 .. Len(r) : r[k] = list[i]
        BY <1>3
      <3>3. QED
        BY <1>1, <3>1, <3>2 DEF LooksUp
    <2>5. QED
      BY <1>4, <2>3, <2>4 DEF InOrder
  <1>5. \A k \in DOMAIN r : r[k] = e \/ \E i \in DOMAIN list : r[k] = list[i]
    <2>1. SUFFICES ASSUME NEW k \in 1 .. Len(r)
                   PROVE  r[k] = e \/ \E i \in DOMAIN list : r[k] = list[i]
      BY <1>1
    <2>2. k < p \/ k = p \/ k > p
      OBVIOUS
    <2>3. QED
      BY <1>1, <1>2, <2>2
  <1>6. QED
    BY <1>1, <1>3, <1>4, <1>5

(* A step takes the place of one with its name, requires no more and       *)
(* provides no less.                                                       *)
LEMMA ExchangeKeeps ==
  ASSUME NEW S, NEW list \in Seq(S), NEW p \in 1 .. Len(list), NEW e \in S,
         NEW r, r = [list EXCEPT ![p] = e],
         e.name = list[p].name, e.requires \subseteq list[p].requires, list[p].provides \subseteq e.provides,
         list[p].name = "module_lookup" => e.provides = {"module"} /\ ~e.removable, InOrder(list)
  PROVE  InOrder(r)
  <1>1. /\ r \in Seq(S) /\ Len(r) = Len(list) /\ Len(list) \in Nat /\ r[p] = e
        /\ \A k \in 1 .. Len(list) : k # p => r[k] = list[k]
        /\ DOMAIN r = 1 .. Len(list) /\ DOMAIN list = 1 .. Len(list)
    OBVIOUS
  <1>2. \A k \in 1 .. Len(list) : /\ r[k].name = list[k].name /\ r[k].requires \subseteq list[k].requires
                                   /\ list[k].provides \subseteq r[k].provides
    BY <1>1
  <1>3. /\ \A i, j \in 1 .. Len(list) : list[i].name = list[j].name => i = j
        /\ \A i \in 1 .. Len(list) : \A c \in list[i].requires :
             \E j \in 1 .. Len(list) : j < i /\ c \in list[j].provides
    BY OrderIs DEF InOrder
  <1>4. ~Piping!Repeats(r)
    <2>1. \A i, j \in 1 .. Len(r) : r[i].name = r[j].name => i = j
      BY <1>1, <1>2, <1>3
    <2>2. QED
      BY <1>1, <2>1, OrderIs
  <1>5. ~Piping!Unmet(r)
    <2>1. \A i \in 1 .. Len(r) : \A c \in r[i].requires :
            \E j \in 1 .. Len(r) : j < i /\ c \in r[j].provides
      BY <1>1, <1>2, <1>3
    <2>2. QED
      BY <1>1, <2>1, OrderIs
  <1>6. LooksUp(r)
    <2>1. PICK i \in 1 .. Len(list) :
            list[i].name = "module_lookup" /\ list[i].provides = {"module"} /\ ~list[i].removable
      BY <1>1 DEF InOrder, LooksUp
    <2>2. r[i].name = "module_lookup" /\ r[i].provides = {"module"} /\ ~r[i].removable
      BY <1>1, <2>1
    <2>3. QED
      BY <1>1, <2>2 DEF LooksUp
  <1>7. QED
    BY <1>4, <1>5, <1>6 DEF InOrder

-----------------------------------------------------------------------------
(* What becomes of a strategy.                                             *)

LEMMA AssembledIs ==
  ASSUME NEW name, NEW list, IsList(list), \A i \in DOMAIN list : Piping!IsStep(list[i]),
         Piping!Assembled(name, list).error = Nothing
  PROVE  /\ IsStrategy(Piping!Assembled(name, list).strategy)
         /\ Piping!Assembled(name, list).strategy.steps = list
  <1>1. (\A i \in DOMAIN list : ~Piping!Weakened(list[i])) /\ ~Piping!Repeats(list) /\ ~Piping!Unmet(list)
    BY StrategyAssumption DEF Piping!Assembled, Piping!Refused
  <1>2. PICK indices : indices = Piping!IndexOf(list)
    OBVIOUS
  <1>3. Piping!Assembled(name, list) = Piping!Done([name |-> name, steps |-> list, index |-> indices])
    BY <1>1, <1>2 DEF Piping!Assembled
  <1>4. Piping!Assembled(name, list).strategy = [name |-> name, steps |-> list, index |-> indices]
    BY <1>3 DEF Piping!Done
  <1>5. QED
    BY <1>1, <1>2, <1>4 DEF IsStrategy

LEMMA RemovedKeeps ==
  ASSUME NEW st, IsStrategy(st), NEW name
  PROVE  LET outcome == Piping!Removed(st, name)
             next    == outcome.strategy
         IN /\ IsStrategy(next)
            /\ outcome.error = Nothing =>
                 /\ \A i \in DOMAIN st.steps : st.steps[i].name # name =>
                      \E k \in DOMAIN next.steps : next.steps[k] = st.steps[i]
                 /\ InOrder(st.steps) /\ Expendable(st.steps) => InOrder(next.steps) /\ Expendable(next.steps)
  <1>1. CASE ~Piping!Holds(st, name) \/ ~st.steps[st.index[name]].removable
    <2>1. /\ Piping!Removed(st, name).strategy = st
          /\ Piping!Removed(st, name).error \in {"no_such_step", "not_removable"}
      BY <1>1 DEF Piping!Removed, Piping!Refused
    <2>2. QED
      BY <2>1, StrategyAssumption
  <1>2. CASE Piping!Holds(st, name) /\ st.steps[st.index[name]].removable
    <2>1. PICK list, p, r : list = st.steps /\ p = st.index[name] /\ r = RemoveAt(list, p)
      OBVIOUS
    <2>2. PICK S : S = {list[i] : i \in DOMAIN list}
      OBVIOUS
    <2>3. /\ list \in Seq(S) /\ DOMAIN list = 1 .. Len(list) /\ p \in 1 .. Len(list) /\ list[p].name = name
          /\ \A i \in DOMAIN list : Piping!IsStep(list[i]) /\ ~Piping!Weakened(list[i])
          /\ list[p].removable
      <3>1. st.steps \in Seq({st.steps[i] : i \in DOMAIN st.steps})
        BY StrategyIs
      <3>2. list \in Seq(S)
        BY <2>1, <2>2, <3>1
      <3>3. DOMAIN list = 1 .. Len(list)
        BY <2>1, StrategyIs
      <3>4. p \in 1 .. Len(list) /\ list[p].name = name
        BY <1>2, <2>1, StrategyIs
      <3>5. \A i \in DOMAIN list : Piping!IsStep(list[i]) /\ ~Piping!Weakened(list[i])
        BY <2>1, StrategyIs
      <3>6. list[p].removable
        BY <1>2, <2>1
      <3>7. QED
        BY <3>2, <3>3, <3>4, <3>5, <3>6
    <2>4. /\ r \in Seq(S) /\ \A k \in DOMAIN r : \E i \in DOMAIN list : r[k] = list[i]
          /\ \A i \in DOMAIN list : i # p => \E k \in DOMAIN r : r[k] = list[i]
          /\ InOrder(list) /\ Expendable(list) => InOrder(r) /\ Expendable(r)
      <3>1. r = RemoveAt(list, p)
        BY <2>1
      <3>2. list \in Seq(S) /\ p \in 1 .. Len(list) /\ list[p].removable
        BY <2>3
      <3>3. r \in Seq(S) /\ \A k \in DOMAIN r : \E i \in DOMAIN list : r[k] = list[i]
        BY <3>1, <3>2, RemovalKeeps
      <3>4. \A i \in DOMAIN list : i # p => \E k \in DOMAIN r : r[k] = list[i]
        BY <3>1, <3>2, RemovalKeeps
      <3>5. ASSUME InOrder(list), Expendable(list)
            PROVE  InOrder(r) /\ Expendable(r)
        BY <3>1, <3>2, <3>5, RemovalKeeps
      <3>6. QED
        BY <3>3, <3>4, <3>5
    <2>5. Piping!Removed(st, name).strategy = Piping!WithSteps(st, r)
      <3>1. Piping!RemoveAt(list, p) = r
        BY <2>1 DEF Piping!RemoveAt, RemoveAt
      <3>2. QED
        BY <1>2, <2>1, <3>1 DEF Piping!Removed, Piping!Done
    <2>6. \A k \in DOMAIN r : Piping!IsStep(r[k]) /\ ~Piping!Weakened(r[k])
      BY <2>3, <2>4
    <2>7. IsStrategy(Piping!WithSteps(st, r)) /\ Piping!WithSteps(st, r).steps = r
      BY <2>4, <2>6, WithStepsIs
    <2>8. \A i \in DOMAIN list : list[i].name # name => \E k \in DOMAIN r : r[k] = list[i]
      BY <2>3, <2>4
    <2>9. QED
      BY <2>1, <2>4, <2>5, <2>7, <2>8
  <1>3. QED
    BY <1>1, <1>2

LEMMA InsertedKeeps ==
  ASSUME NEW st, IsStrategy(st), NEW side, NEW anchor, NEW step, Piping!IsStep(step)
  PROVE  LET outcome == Piping!Inserted(st, side, anchor, step)
             next    == outcome.strategy
         IN /\ IsStrategy(next)
            /\ outcome.error = Nothing =>
                 /\ \A i \in DOMAIN st.steps : \E k \in DOMAIN next.steps : next.steps[k] = st.steps[i]
                 /\ InOrder(st.steps) => InOrder(next.steps)
  <1>1. CASE Piping!Weakened(step) \/ Piping!Holds(st, step.name) \/ ~Piping!Holds(st, anchor)
    <2>1. /\ Piping!Inserted(st, side, anchor, step).strategy = st
          /\ Piping!Inserted(st, side, anchor, step).error \in {"weakened_gate", "duplicate", "no_such_step"}
      BY <1>1 DEF Piping!Inserted, Piping!Refused
    <2>2. QED
      BY <2>1, StrategyAssumption
  <1>2. CASE ~Piping!Weakened(step) /\ ~Piping!Holds(st, step.name) /\ Piping!Holds(st, anchor)
    <2>1. PICK list, p : list = st.steps /\ p = st.index[anchor] + (IF side = "after" THEN 1 ELSE 0)
      OBVIOUS
    <2>2. PICK S : S = {list[i] : i \in DOMAIN list} \cup {step}
      OBVIOUS
    <2>3. /\ IsList(list) /\ DOMAIN list = 1 .. Len(list) /\ Len(list) \in Nat
          /\ st.index[anchor] \in 1 .. Len(list) /\ \A i \in 1 .. Len(list) : list[i].name # step.name
          /\ \A i \in DOMAIN list : Piping!IsStep(list[i]) /\ ~Piping!Weakened(list[i])
      BY <1>2, <2>1, StrategyIs
    <2>4. list \in Seq(S) /\ step \in S /\ p \in 1 .. Len(list) + 1
      <3>1. list \in Seq({list[i] : i \in DOMAIN list})
        BY <2>3 DEF IsList
      <3>2. list \in Seq(S)
        BY <2>2, <3>1, SeqMonotonic
      <3>3. QED
        BY <2>1, <2>2, <2>3, <3>2
    <2>5. PICK r : r = InsertAt(list, p, step)
      OBVIOUS
    <2>6. /\ r \in Seq(S) /\ \A k \in DOMAIN r : r[k] = step \/ \E i \in DOMAIN list : r[k] = list[i]
          /\ \A i \in DOMAIN list : \E k \in DOMAIN r : r[k] = list[i]
          /\ InOrder(list) /\ ~Piping!Unmet(r) => InOrder(r)
      <3>1. /\ list \in Seq(S) /\ p \in 1 .. Len(list) + 1 /\ step \in S
            /\ \A i \in 1 .. Len(list) : list[i].name # step.name
        BY <2>3, <2>4
      <3>2. r \in Seq(S) /\ \A k \in DOMAIN r : r[k] = step \/ \E i \in DOMAIN list : r[k] = list[i]
        BY <2>5, <3>1, InsertionKeeps
      <3>3. \A i \in DOMAIN list : \E k \in DOMAIN r : r[k] = list[i]
        BY <2>5, <3>1, InsertionKeeps
      <3>4. ASSUME InOrder(list), ~Piping!Unmet(r)
            PROVE  InOrder(r)
        BY <2>5, <3>1, <3>4, InsertionKeeps
      <3>5. QED
        BY <3>2, <3>3, <3>4
    <2>7. \A k \in DOMAIN r : Piping!IsStep(r[k]) /\ ~Piping!Weakened(r[k])
      BY <1>2, <2>3, <2>6
    <2>8. IsStrategy(Piping!WithSteps(st, r)) /\ Piping!WithSteps(st, r).steps = r
      BY <2>6, <2>7, WithStepsIs
    <2>9. /\ Piping!Inserted(st, side, anchor, step).strategy = Piping!WithSteps(st, r)
          /\ Piping!Inserted(st, side, anchor, step).error =
               IF Piping!Unmet(Piping!WithSteps(st, r).steps) THEN "dependency" ELSE Nothing
      <3>1. Piping!InsertAt(list, p, step) = r
        BY <2>5 DEF Piping!InsertAt, InsertAt
      <3>2. PICK next : next = Piping!WithSteps(st, Piping!InsertAt(list, p, step))
        OBVIOUS
      <3>3. Piping!Inserted(st, side, anchor, step) =
              [strategy |-> next, error |-> IF Piping!Unmet(next.steps) THEN "dependency" ELSE Nothing]
        BY <1>2, <2>1, <3>2 DEF Piping!Inserted
      <3>4. QED
        BY <3>1, <3>2, <3>3
    <2>10. QED
      BY <2>1, <2>6, <2>8, <2>9, StrategyAssumption
  <1>3. QED
    BY <1>1, <1>2

(* One step for another.                                                   *)
LEMMA ExchangedIs ==
  ASSUME NEW st, IsStrategy(st), NEW name, Piping!Holds(st, name), NEW step, Piping!IsStep(step),
         ~Piping!Weakened(step), NEW next, next = Piping!WithSteps(st, [st.steps EXCEPT ![st.index[name]] = step])
  PROVE  /\ IsStrategy(next) /\ DOMAIN next.steps = DOMAIN st.steps
         /\ st.index[name] \in DOMAIN st.steps /\ st.steps[st.index[name]].name = name
         /\ next.steps[st.index[name]] = step
         /\ \A i \in DOMAIN st.steps : i # st.index[name] => next.steps[i] = st.steps[i]
         /\ InOrder(st.steps) /\ step.name = name /\ step.requires \subseteq st.steps[st.index[name]].requires
            /\ st.steps[st.index[name]].provides \subseteq step.provides
            /\ (name = "module_lookup" => step.provides = {"module"} /\ ~step.removable)
              => InOrder(next.steps)
  <1>1. PICK list, p : list = st.steps /\ p = st.index[name]
    OBVIOUS
  <1>2. PICK S : S = {list[i] : i \in DOMAIN list} \cup {step}
    OBVIOUS
  <1>3. /\ IsList(list) /\ DOMAIN list = 1 .. Len(list) /\ p \in 1 .. Len(list) /\ list[p].name = name
        /\ \A i \in DOMAIN list : Piping!IsStep(list[i]) /\ ~Piping!Weakened(list[i])
    BY <1>1, StrategyIs
  <1>4. list \in Seq(S) /\ step \in S
    <2>1. list \in Seq({list[i] : i \in DOMAIN list})
      BY <1>3 DEF IsList
    <2>2. QED
      BY <1>2, <2>1, SeqMonotonic
  <1>5. PICK r : r = [list EXCEPT ![p] = step]
    OBVIOUS
  <1>6. /\ r \in Seq(S) /\ DOMAIN r = DOMAIN list /\ r[p] = step
        /\ \A i \in DOMAIN list : i # p => r[i] = list[i]
    BY <1>3, <1>4, <1>5
  <1>7. \A i \in DOMAIN r : Piping!IsStep(r[i]) /\ ~Piping!Weakened(r[i])
    BY <1>3, <1>6
  <1>8. next = Piping!WithSteps(st, r)
    BY <1>1, <1>5
  <1>9. IsStrategy(next) /\ next.steps = r
    BY <1>6, <1>7, <1>8, WithStepsIs
  <1>10. ASSUME InOrder(list), step.name = name, step.requires \subseteq list[p].requires,
                list[p].provides \subseteq step.provides,
                name = "module_lookup" => step.provides = {"module"} /\ ~step.removable
         PROVE  InOrder(r)
    <2>1. /\ step.name = list[p].name
          /\ list[p].name = "module_lookup" => step.provides = {"module"} /\ ~step.removable
      BY <1>3, <1>10
    <2>2. p \in 1 .. Len(list)
      BY <1>3
    <2>3. QED
      BY <1>4, <1>5, <1>10, <2>1, <2>2, ExchangeKeeps
  <1>11. QED
    BY <1>1, <1>3, <1>6, <1>9, <1>10

LEMMA ReplacedKeeps ==
  ASSUME NEW st, IsStrategy(st), NEW name, NEW step, Piping!IsStep(step)
  PROVE  IsStrategy(Piping!Replaced(st, name, step).strategy)
  <1>1. CASE /\ Piping!Holds(st, name) /\ st.steps[st.index[name]].replaceable
             /\ ~(step.name # name /\ Piping!Holds(st, step.name)) /\ ~Piping!Weakened(step)
    <2>1. PICK next : next = Piping!WithSteps(st, [st.steps EXCEPT ![st.index[name]] = step])
      OBVIOUS
    <2>2. Piping!Replaced(st, name, step).strategy = next
      BY <1>1, <2>1 DEF Piping!Replaced, Piping!Done
    <2>3. QED
      BY <1>1, <2>1, <2>2, ExchangedIs
  <1>2. CASE ~(/\ Piping!Holds(st, name) /\ st.steps[st.index[name]].replaceable
               /\ ~(step.name # name /\ Piping!Holds(st, step.name)) /\ ~Piping!Weakened(step))
    BY <1>2 DEF Piping!Replaced, Piping!Refused
  <1>3. QED
    BY <1>1, <1>2

(* A wrapper's step takes the place of the one it wrapped, neutralised if  *)
(* it weakens a gate.                                                      *)
LEMMA WrappedInIs ==
  ASSUME NEW st, IsStrategy(st), NEW name, Piping!Holds(st, name), NEW step, Piping!IsStep(step)
  PROVE  \E placed :
           /\ Piping!IsStep(placed) /\ ~Piping!Weakened(placed)
           /\ Piping!WrappedIn(st, name, step).strategy =
                Piping!WithSteps(st, [st.steps EXCEPT ![st.index[name]] = placed])
           /\ Piping!WrappedIn(st, name, step).error = Nothing => placed = step
           /\ ~Piping!Weakened(step) => placed = step
  <1>1. PICK placed : placed = IF Piping!Weakened(step) THEN Piping!Neutralised(step) ELSE step
    OBVIOUS
  <1>2. Piping!IsStep(placed) /\ ~Piping!Weakened(placed)
    BY <1>1, NeutralisedIs
  <1>3. PICK next : next = Piping!WithSteps(st, [st.steps EXCEPT ![st.index[name]] = placed])
    OBVIOUS
  <1>4. Piping!WrappedIn(st, name, step) =
          [strategy |-> next, error |-> IF Piping!Weakened(step) THEN "weakened_gate" ELSE Nothing]
    BY <1>1, <1>3 DEF Piping!WrappedIn
  <1>5. QED
    BY <1>1, <1>2, <1>3, <1>4, StrategyAssumption

LEMMA WrappedInKeeps ==
  ASSUME NEW st, IsStrategy(st), NEW name, NEW step, Piping!IsStep(step)
  PROVE  IsStrategy(Piping!WrappedIn(st, name, step).strategy)
  <1>1. CASE Piping!Holds(st, name)
    <2>1. PICK placed :
            /\ Piping!IsStep(placed) /\ ~Piping!Weakened(placed)
            /\ Piping!WrappedIn(st, name, step).strategy =
                 Piping!WithSteps(st, [st.steps EXCEPT ![st.index[name]] = placed])
            /\ Piping!WrappedIn(st, name, step).error = Nothing => placed = step
            /\ ~Piping!Weakened(step) => placed = step
      BY <1>1, WrappedInIs
    <2>2. QED
      BY <1>1, <2>1, ExchangedIs
  <1>2. CASE ~Piping!Holds(st, name)
    BY <1>2 DEF Piping!WrappedIn, Piping!Refused
  <1>3. QED
    BY <1>1, <1>2

-----------------------------------------------------------------------------
(* The standard strategy and the presets.                                  *)

LEMMA LookupStepIs ==
  /\ Piping!IsStep(Piping!ModuleLookupStep) /\ ~Piping!Weakened(Piping!ModuleLookupStep)
  /\ Piping!ModuleLookupStep.name = "module_lookup" /\ ~Piping!ModuleLookupStep.removable
  /\ Piping!ModuleLookupStep.requires = {} /\ Piping!ModuleLookupStep.provides = {"module"}
  BY DEF Piping!ModuleLookupStep, Piping!Builtin, Piping!IsStep, Piping!Weakened

LEMMA StandardListIs ==
  /\ IsList(Piping!StandardSteps) /\ Len(Piping!StandardSteps) = 11 /\ DOMAIN Piping!StandardSteps = 1 .. 11
  /\ Piping!StandardSteps[1] =
       Piping!Builtin("context_creation", Nothing, FALSE, FALSE, TRUE, {}, {"context"})
  /\ Piping!StandardSteps[2] = Piping!Builtin("call_chain_guard", Nothing, TRUE, TRUE, TRUE, {"context"}, {})
  /\ Piping!StandardSteps[3] = Piping!Builtin("module_lookup", Nothing, FALSE, FALSE, TRUE, {}, {"module"})
  /\ Piping!StandardSteps[4] = Piping!Builtin("acl_check", "acl", TRUE, TRUE, TRUE, {"context", "module"}, {})
  /\ Piping!StandardSteps[5] =
       Piping!Builtin("approval_gate", "approval", TRUE, TRUE, FALSE, {"context", "module"}, {})
  /\ Piping!StandardSteps[6] = Piping!Builtin("middleware_before", Nothing, TRUE, FALSE, FALSE, {}, {})
  /\ Piping!StandardSteps[7] =
       Piping!Builtin("input_validation", Nothing, TRUE, TRUE, TRUE, {"module"}, {"validated_inputs"})
  /\ Piping!StandardSteps[8] = Piping!Builtin("execute", Nothing, FALSE, TRUE, FALSE, {"module"}, {"output"})
  /\ Piping!StandardSteps[9] =
       Piping!Builtin("output_validation", Nothing, TRUE, TRUE, TRUE, {"module", "output"}, {"validated_output"})
  /\ Piping!StandardSteps[10] = Piping!Builtin("middleware_after", Nothing, TRUE, FALSE, FALSE, {}, {})
  /\ Piping!StandardSteps[11] = Piping!Builtin("return_result", Nothing, FALSE, FALSE, TRUE, {"output"}, {})
  <1>1. /\ Len(Piping!StandardSteps) = 11 /\ DOMAIN Piping!StandardSteps = 1 .. 11
        /\ Piping!StandardSteps[1] =
             Piping!Builtin("context_creation", Nothing, FALSE, FALSE, TRUE, {}, {"context"})
        /\ Piping!StandardSteps[2] =
             Piping!Builtin("call_chain_guard", Nothing, TRUE, TRUE, TRUE, {"context"}, {})
        /\ Piping!StandardSteps[3] =
             Piping!Builtin("module_lookup", Nothing, FALSE, FALSE, TRUE, {}, {"module"})
        /\ Piping!StandardSteps[4] =
             Piping!Builtin("acl_check", "acl", TRUE, TRUE, TRUE, {"context", "module"}, {})
        /\ Piping!StandardSteps[5] =
             Piping!Builtin("approval_gate", "approval", TRUE, TRUE, FALSE, {"context", "module"}, {})
        /\ Piping!StandardSteps[6] = Piping!Builtin("middleware_before", Nothing, TRUE, FALSE, FALSE, {}, {})
        /\ Piping!StandardSteps[7] =
             Piping!Builtin("input_validation", Nothing, TRUE, TRUE, TRUE, {"module"}, {"validated_inputs"})
        /\ Piping!StandardSteps[8] =
             Piping!Builtin("execute", Nothing, FALSE, TRUE, FALSE, {"module"}, {"output"})
        /\ Piping!StandardSteps[9] =
             Piping!Builtin("output_validation", Nothing, TRUE, TRUE, TRUE, {"module", "output"}, {"validated_output"})
        /\ Piping!StandardSteps[10] = Piping!Builtin("middleware_after", Nothing, TRUE, FALSE, FALSE, {}, {})
        /\ Piping!StandardSteps[11] =
             Piping!Builtin("return_result", Nothing, FALSE, FALSE, TRUE, {"output"}, {})
    BY DEF Piping!StandardSteps, Piping!ModuleLookupStep
  <1>2. IsList(Piping!StandardSteps)
    <2> DEFINE S == {Piping!StandardSteps[i] : i \in 1 .. 11}
    <2>1. \A i \in 1 .. 11 : Piping!StandardSteps[i] \in S
      OBVIOUS
    <2>2. Piping!StandardSteps = [i \in 1 .. 11 |-> Piping!StandardSteps[i]]
      BY DEF Piping!StandardSteps
    <2>3. Piping!StandardSteps \in [1 .. 11 -> S]
      BY <2>1, <2>2
    <2>4. QED
      BY <2>3, FunctionIsList, ListIs
  <1>3. QED
    BY <1>1, <1>2

(* The standard steps one by one.                                          *)
LEMMA StandardStepsAre ==
  /\ Piping!IsStep(Piping!StandardSteps[1]) /\ ~Piping!Weakened(Piping!StandardSteps[1])
  /\ ~Piping!StandardSteps[1].removable
  /\ Piping!StandardSteps[1].name = "context_creation" /\ Piping!StandardSteps[1].gate = Nothing
  /\ Piping!StandardSteps[1].requires = {} /\ Piping!StandardSteps[1].provides = {"context"}
  /\ Piping!IsStep(Piping!StandardSteps[2]) /\ ~Piping!Weakened(Piping!StandardSteps[2])
  /\ Piping!StandardSteps[2].name = "call_chain_guard" /\ Piping!StandardSteps[2].gate = Nothing
  /\ Piping!StandardSteps[2].requires = {"context"} /\ Piping!StandardSteps[2].provides = {}
  /\ Piping!IsStep(Piping!StandardSteps[3]) /\ ~Piping!Weakened(Piping!StandardSteps[3])
  /\ ~Piping!StandardSteps[3].removable
  /\ Piping!StandardSteps[3].name = "module_lookup" /\ Piping!StandardSteps[3].gate = Nothing
  /\ Piping!StandardSteps[3].requires = {} /\ Piping!StandardSteps[3].provides = {"module"}
  /\ Piping!IsStep(Piping!StandardSteps[4]) /\ ~Piping!Weakened(Piping!StandardSteps[4])
  /\ Piping!StandardSteps[4].name = "acl_check" /\ Piping!StandardSteps[4].gate = "acl"
  /\ Piping!StandardSteps[4].requires = {"context", "module"} /\ Piping!StandardSteps[4].provides = {}
  /\ Piping!IsStep(Piping!StandardSteps[5]) /\ ~Piping!Weakened(Piping!StandardSteps[5])
  /\ Piping!StandardSteps[5].name = "approval_gate" /\ Piping!StandardSteps[5].gate = "approval"
  /\ Piping!StandardSteps[5].requires = {"context", "module"} /\ Piping!StandardSteps[5].provides = {}
  /\ Piping!IsStep(Piping!StandardSteps[6]) /\ ~Piping!Weakened(Piping!StandardSteps[6])
  /\ Piping!StandardSteps[6].name = "middleware_before" /\ Piping!StandardSteps[6].gate = Nothing
  /\ Piping!StandardSteps[6].requires = {} /\ Piping!StandardSteps[6].provides = {}
  /\ Piping!IsStep(Piping!StandardSteps[7]) /\ ~Piping!Weakened(Piping!StandardSteps[7])
  /\ Piping!StandardSteps[7].name = "input_validation" /\ Piping!StandardSteps[7].gate = Nothing
  /\ Piping!StandardSteps[7].requires = {"module"} /\ Piping!StandardSteps[7].provides = {"validated_inputs"}
  /\ Piping!IsStep(Piping!StandardSteps[8]) /\ ~Piping!Weakened(Piping!StandardSteps[8])
  /\ ~Piping!StandardSteps[8].removable
  /\ Piping!StandardSteps[8].name = "execute" /\ Piping!StandardSteps[8].gate = Nothing
  /\ Piping!StandardSteps[8].requires = {"module"} /\ Piping!StandardSteps[8].provides = {"output"}
  /\ Piping!IsStep(Piping!StandardSteps[9]) /\ ~Piping!Weakened(Piping!StandardSteps[9])
  /\ Piping!StandardSteps[9].name = "output_validation" /\ Piping!StandardSteps[9].gate = Nothing
  /\ Piping!StandardSteps[9].requires = {"module", "output"}
  /\ Piping!StandardSteps[9].provides = {"validated_output"}
  /\ Piping!IsStep(Piping!StandardSteps[10]) /\ ~Piping!Weakened(Piping!StandardSteps[10])
  /\ Piping!StandardSteps[10].name = "middleware_after" /\ Piping!StandardSteps[10].gate = Nothing
  /\ Piping!StandardSteps[10].requires = {} /\ Piping!StandardSteps[10].provides = {}
  /\ Piping!IsStep(Piping!StandardSteps[11]) /\ ~Piping!Weakened(Piping!StandardSteps[11])
  /\ ~Piping!StandardSteps[11].removable
  /\ Piping!StandardSteps[11].name = "return_result" /\ Piping!StandardSteps[11].gate = Nothing
  /\ Piping!StandardSteps[11].requires = {"output"} /\ Piping!StandardSteps[11].provides = {}
  <1>1. /\ Piping!IsStep(Piping!StandardSteps[1]) /\ ~Piping!Weakened(Piping!StandardSteps[1])
        /\ ~Piping!StandardSteps[1].removable
         /\ Piping!StandardSteps[1].name = "context_creation" /\ Piping!StandardSteps[1].gate = Nothing
         /\ Piping!StandardSteps[1].requires = {} /\ Piping!StandardSteps[1].provides = {"context"}
    BY StandardListIs DEF Piping!Builtin, Piping!IsStep, Piping!Weakened
  <1>2. /\ Piping!IsStep(Piping!StandardSteps[2]) /\ ~Piping!Weakened(Piping!StandardSteps[2])
         /\ Piping!StandardSteps[2].name = "call_chain_guard" /\ Piping!StandardSteps[2].gate = Nothing
         /\ Piping!StandardSteps[2].requires = {"context"} /\ Piping!StandardSteps[2].provides = {}
    BY StandardListIs DEF Piping!Builtin, Piping!IsStep, Piping!Weakened
  <1>3. /\ Piping!IsStep(Piping!StandardSteps[3]) /\ ~Piping!Weakened(Piping!StandardSteps[3])
        /\ ~Piping!StandardSteps[3].removable
         /\ Piping!StandardSteps[3].name = "module_lookup" /\ Piping!StandardSteps[3].gate = Nothing
         /\ Piping!StandardSteps[3].requires = {} /\ Piping!StandardSteps[3].provides = {"module"}
    BY StandardListIs DEF Piping!Builtin, Piping!IsStep, Piping!Weakened
  <1>4. /\ Piping!IsStep(Piping!StandardSteps[4]) /\ ~Piping!Weakened(Piping!StandardSteps[4])
         /\ Piping!StandardSteps[4].name = "acl_check" /\ Piping!StandardSteps[4].gate = "acl"
         /\ Piping!StandardSteps[4].requires = {"context", "module"} /\ Piping!StandardSteps[4].provides = {}
    BY StandardListIs DEF Piping!Builtin, Piping!IsStep, Piping!Weakened
  <1>5. /\ Piping!IsStep(Piping!StandardSteps[5]) /\ ~Piping!Weakened(Piping!StandardSteps[5])
         /\ Piping!StandardSteps[5].name = "approval_gate" /\ Piping!StandardSteps[5].gate = "approval"
         /\ Piping!StandardSteps[5].requires = {"context", "module"} /\ Piping!StandardSteps[5].provides = {}
    BY StandardListIs DEF Piping!Builtin, Piping!IsStep, Piping!Weakened
  <1>6. /\ Piping!IsStep(Piping!StandardSteps[6]) /\ ~Piping!Weakened(Piping!StandardSteps[6])
         /\ Piping!StandardSteps[6].name = "middleware_before" /\ Piping!StandardSteps[6].gate = Nothing
         /\ Piping!StandardSteps[6].requires = {} /\ Piping!StandardSteps[6].provides = {}
    BY StandardListIs DEF Piping!Builtin, Piping!IsStep, Piping!Weakened
  <1>7. /\ Piping!IsStep(Piping!StandardSteps[7]) /\ ~Piping!Weakened(Piping!StandardSteps[7])
         /\ Piping!StandardSteps[7].name = "input_validation" /\ Piping!StandardSteps[7].gate = Nothing
         /\ Piping!StandardSteps[7].requires = {"module"}
         /\ Piping!StandardSteps[7].provides = {"validated_inputs"}
    BY StandardListIs DEF Piping!Builtin, Piping!IsStep, Piping!Weakened
  <1>8. /\ Piping!IsStep(Piping!StandardSteps[8]) /\ ~Piping!Weakened(Piping!StandardSteps[8])
        /\ ~Piping!StandardSteps[8].removable
         /\ Piping!StandardSteps[8].name = "execute" /\ Piping!StandardSteps[8].gate = Nothing
         /\ Piping!StandardSteps[8].requires = {"module"} /\ Piping!StandardSteps[8].provides = {"output"}
    BY StandardListIs DEF Piping!Builtin, Piping!IsStep, Piping!Weakened
  <1>9. /\ Piping!IsStep(Piping!StandardSteps[9]) /\ ~Piping!Weakened(Piping!StandardSteps[9])
         /\ Piping!StandardSteps[9].name = "output_validation" /\ Piping!StandardSteps[9].gate = Nothing
         /\ Piping!StandardSteps[9].requires = {"module", "output"}
         /\ Piping!StandardSteps[9].provides = {"validated_output"}
    BY StandardListIs DEF Piping!Builtin, Piping!IsStep, Piping!Weakened
  <1>10. /\ Piping!IsStep(Piping!StandardSteps[10]) /\ ~Piping!Weakened(Piping!StandardSteps[10])
          /\ Piping!StandardSteps[10].name = "middleware_after" /\ Piping!StandardSteps[10].gate = Nothing
          /\ Piping!StandardSteps[10].requires = {} /\ Piping!StandardSteps[10].provides = {}
    BY StandardListIs DEF Piping!Builtin, Piping!IsStep, Piping!Weakened
  <1>11. /\ Piping!IsStep(Piping!StandardSteps[11]) /\ ~Piping!Weakened(Piping!StandardSteps[11])
         /\ ~Piping!StandardSteps[11].removable
          /\ Piping!StandardSteps[11].name = "return_result" /\ Piping!StandardSteps[11].gate = Nothing
          /\ Piping!StandardSteps[11].requires = {"output"} /\ Piping!StandardSteps[11].provides = {}
    BY StandardListIs DEF Piping!Builtin, Piping!IsStep, Piping!Weakened
  <1>12. QED
    BY <1>1, <1>2, <1>3, <1>4, <1>5, <1>6, <1>7, <1>8, <1>9, <1>10, <1>11

LEMMA StandardIs ==
  /\ IsStrategy(Piping!Standard) /\ Piping!Standard.steps = Piping!StandardSteps
  /\ InOrder(Piping!StandardSteps) /\ Expendable(Piping!StandardSteps) /\ Gated(Piping!StandardSteps, {})
  <1> DEFINE list == Piping!StandardSteps
  <1>1. \A i \in 1 .. 11 : i = 1 \/ i = 2 \/ i = 3 \/ i = 4 \/ i = 5 \/ i = 6 \/ i = 7 \/ i = 8 \/ i = 9
                           \/ i = 10 \/ i = 11
    OBVIOUS
  <1>2. /\ IsList(list) /\ Len(list) = 11 /\ DOMAIN list = 1 .. 11
        /\ list \in Seq({list[i] : i \in DOMAIN list})
    BY StandardListIs DEF IsList
  <1> HIDE DEF list
  <1>3. \A i \in DOMAIN list : Piping!IsStep(list[i]) /\ ~Piping!Weakened(list[i])
    BY <1>1, <1>2, StandardStepsAre DEF list
  <1>4. ~Piping!Repeats(list)
    <2>1. \A i, j \in 1 .. 11 : list[i].name = list[j].name => i = j
      BY <1>1, StandardStepsAre DEF list
    <2>2. QED
      BY <1>2, <2>1, OrderIs
  <1>5. ~Piping!Unmet(list)
    <2>1. \A i \in 1 .. 11 : \A c \in list[i].requires :
            (c = "context" /\ i > 1) \/ (c = "module" /\ i > 3) \/ (c = "output" /\ i > 8)
      BY <1>1, StandardStepsAre DEF list
    <2>2. "context" \in list[1].provides /\ "module" \in list[3].provides /\ "output" \in list[8].provides
      BY StandardStepsAre DEF list
    <2>3. ASSUME NEW i \in 1 .. 11, NEW c \in list[i].requires
          PROVE  \E j \in 1 .. 11 : j < i /\ c \in list[j].provides
      <3>1. 1 \in 1 .. 11 /\ 3 \in 1 .. 11 /\ 8 \in 1 .. 11
        OBVIOUS
      <3>2. (c = "context" /\ i > 1) \/ (c = "module" /\ i > 3) \/ (c = "output" /\ i > 8)
        BY <2>1
      <3>3. QED
        BY <2>2, <3>1, <3>2
    <2>4. QED
      BY <1>2, <2>3, OrderIs
  <1>6. LooksUp(list)
    <2>1. 3 \in DOMAIN list
      BY <1>2
    <2>2. list[3].name = "module_lookup" /\ list[3].provides = {"module"} /\ ~list[3].removable
      BY StandardStepsAre DEF list
    <2>3. QED
      BY <2>1, <2>2 DEF LooksUp
  <1>7. Expendable(list)
    <2>1. \A i \in 1 .. 11 : list[i].removable => list[i].provides \subseteq {"validated_inputs", "validated_output"}
      BY <1>1, StandardStepsAre DEF list
    <2>2. \A i \in 1 .. 11 : list[i].requires \subseteq {"context", "module", "output"}
      BY <1>1, StandardStepsAre DEF list
    <2>3. QED
      BY <1>2, <2>1, <2>2 DEF Expendable
  <1>8. Gated(list, {})
    <2>1. 4 \in DOMAIN list /\ 5 \in DOMAIN list
      BY <1>2
    <2>2. list[4].name = "acl_check" /\ list[4].gate = "acl" /\ list[5].name = "approval_gate" /\ list[5].gate = "approval"
      BY StandardStepsAre DEF list
    <2>3. QED
      BY <2>1, <2>2 DEF Gated, GateSteps
  <1>9. Piping!Assembled("standard", list).error = Nothing
    BY <1>3, <1>4, <1>5 DEF Piping!Assembled, Piping!Done
  <1>10. IsStrategy(Piping!Standard) /\ Piping!Standard.steps = list
    <2>1. Piping!Standard = Piping!Assembled("standard", list).strategy
      BY DEF Piping!Standard, list
    <2>2. QED
      BY <1>2, <1>3, <1>9, <2>1, AssembledIs
  <1>11. QED
    BY <1>4, <1>5, <1>6, <1>7, <1>8, <1>10 DEF InOrder, list

LEMMA PresetsAre ==
  ASSUME NEW p \in Piping!Presets
  PROVE  IsStrategy(Piping!PresetStrategies[p])
  <1>1. ASSUME NEW name
        PROVE  IsStrategy(Piping!Called(name))
    <2>1. PICK a, b, c : Piping!Standard = [name |-> a, steps |-> b, index |-> c]
      BY StandardIs DEF IsStrategy
    <2>2. PICK st : st = Piping!Standard
      OBVIOUS
    <2>3. b = st.steps /\ c = Piping!IndexOf(b)
      <3>1. b = st.steps /\ c = st.index
        BY <2>1, <2>2
      <3>2. st.index = Piping!IndexOf(st.steps)
        BY <2>2, StandardIs DEF IsStrategy
      <3>3. QED
        BY <3>1, <3>2
    <2>4. [st EXCEPT !.name = name] = [name |-> name, steps |-> b, index |-> c]
      BY <2>1, <2>2
    <2>5. Piping!Called(name) = [name |-> name, steps |-> b, index |-> c]
      BY <2>2, <2>4 DEF Piping!Called
    <2>6. IsList(b) /\ \A i \in DOMAIN b : Piping!IsStep(b[i]) /\ ~Piping!Weakened(b[i])
      BY <2>2, <2>3, StandardIs DEF IsStrategy
    <2>7. PICK called : called = Piping!Called(name)
      OBVIOUS
    <2>8. called.name = name /\ called.steps = b /\ called.index = Piping!IndexOf(b)
      BY <2>3, <2>5, <2>7
    <2>9. called = [name |-> called.name, steps |-> called.steps, index |-> Piping!IndexOf(called.steps)]
      BY <2>3, <2>5, <2>7, <2>8
    <2>10. QED
      BY <2>6, <2>7, <2>8, <2>9 DEF IsStrategy
  <1>2. ASSUME NEW st, IsStrategy(st), NEW name
        PROVE  IsStrategy(Piping!Without(st, name))
    BY <1>2, RemovedKeeps DEF Piping!Without
  <1>3. ASSUME NEW st, IsStrategy(st)
        PROVE  IsStrategy(Piping!Ungated(st))
    <2>1. IsStrategy(Piping!Without(st, "acl_check"))
      BY <1>2, <1>3
    <2>2. QED
      BY <1>2, <2>1 DEF Piping!Ungated
  <1>4. CASE p = "standard"
    BY <1>4, StandardIs DEF Piping!PresetStrategies
  <1>5. CASE p = "internal"
    BY <1>1, <1>3, <1>5 DEF Piping!PresetStrategies
  <1>6. CASE p = "testing"
    <2>1. IsStrategy(Piping!Ungated(Piping!Called("testing")))
      BY <1>1, <1>3
    <2>2. IsStrategy(Piping!Without(Piping!Ungated(Piping!Called("testing")), "call_chain_guard"))
      BY <1>2, <2>1
    <2>3. QED
      BY <1>6, <2>2 DEF Piping!PresetStrategies
  <1>7. CASE p = "performance"
    <2>1. IsStrategy(Piping!Without(Piping!Called("performance"), "middleware_before"))
      BY <1>1, <1>2
    <2>2. IsStrategy(Piping!Without(Piping!Without(Piping!Called("performance"), "middleware_before"),
                                    "middleware_after"))
      BY <1>2, <2>1
    <2>3. QED
      BY <1>7, <2>2 DEF Piping!PresetStrategies
  <1>8. CASE p = "minimal"
    <2>1. PICK guardless : guardless = Piping!Without(Piping!Called("minimal"), "call_chain_guard")
      OBVIOUS
    <2>2. IsStrategy(guardless)
      BY <1>1, <1>2, <2>1
    <2>3. PICK bare : bare = Piping!Without(Piping!Ungated(guardless), "middleware_before")
      OBVIOUS
    <2>4. IsStrategy(bare)
      BY <1>2, <1>3, <2>2, <2>3
    <2>5. PICK unchecked : unchecked = Piping!Without(Piping!Without(bare, "input_validation"), "output_validation")
      OBVIOUS
    <2>6. IsStrategy(unchecked)
      BY <1>2, <2>4, <2>5
    <2>7. IsStrategy(Piping!Without(unchecked, "middleware_after"))
      BY <1>2, <2>6
    <2>8. Piping!PresetStrategies[p] = Piping!Without(unchecked, "middleware_after")
      BY <1>8, <2>1, <2>3, <2>5 DEF Piping!PresetStrategies
    <2>9. QED
      BY <2>7, <2>8
  <1>9. QED
    BY <1>4, <1>5, <1>6, <1>7, <1>8 DEF Piping!Presets, Piping!PresetStrategies

-----------------------------------------------------------------------------
(* The edits a section asks for.                                           *)

LEMMA PlanIs ==
  ASSUME NEW s \in Sections
  PROVE  IsPlan(Piping!Plan(s), s) /\ \A f \in Piping!Range(s.configure) : Pending(f, Piping!Plan(s))
  <1>1. PICK first, second, third :
          /\ first  = [i \in DOMAIN s.remove |-> [do |-> "remove", entry |-> s.remove[i]]]
          /\ second = [i \in DOMAIN s.configure |-> [do |-> "configure", entry |-> s.configure[i]]]
          /\ third  = [i \in DOMAIN s.insert |-> [do |-> "insert", entry |-> s.insert[i]]]
    OBVIOUS
  <1>2. PICK n1 \in Nat, n2 \in Nat, n3 \in Nat :
          DOMAIN s.remove = 1 .. n1 /\ DOMAIN s.configure = 1 .. n2 /\ DOMAIN s.insert = 1 .. n3
    <2>1. /\ s.remove \in Seq({s.remove[i] : i \in DOMAIN s.remove})
          /\ s.configure \in Seq({s.configure[i] : i \in DOMAIN s.configure})
          /\ s.insert \in Seq({s.insert[i] : i \in DOMAIN s.insert})
      BY StrategyAssumption DEF IsList
    <2>2. /\ Len(s.remove) \in Nat /\ DOMAIN s.remove = 1 .. Len(s.remove)
          /\ Len(s.configure) \in Nat /\ DOMAIN s.configure = 1 .. Len(s.configure)
          /\ Len(s.insert) \in Nat /\ DOMAIN s.insert = 1 .. Len(s.insert)
      BY <2>1
    <2>3. QED
      BY <2>2
  <1>3. PICK T : T = {first[i] : i \in 1 .. n1} \cup {second[i] : i \in 1 .. n2} \cup {third[i] : i \in 1 .. n3}
    OBVIOUS
  <1>4. /\ \A i \in 1 .. n1 : first[i].do = "remove" /\ first[i].entry \in Piping!Range(s.remove) /\ first[i] \in T
        /\ \A i \in 1 .. n2 : /\ second[i].do = "configure" /\ second[i].entry = s.configure[i]
                              /\ second[i].entry \in Piping!Range(s.configure) /\ second[i] \in T
        /\ \A i \in 1 .. n3 : third[i].do = "insert" /\ third[i].entry \in Piping!Range(s.insert) /\ third[i] \in T
    <2>1. \A i \in 1 .. n1 : first[i].do = "remove" /\ first[i].entry = s.remove[i]
      BY <1>1, <1>2
    <2>2. \A i \in 1 .. n2 : second[i].do = "configure" /\ second[i].entry = s.configure[i]
      BY <1>1, <1>2
    <2>3. \A i \in 1 .. n3 : third[i].do = "insert" /\ third[i].entry = s.insert[i]
      BY <1>1, <1>2
    <2>4. /\ \A i \in 1 .. n1 : s.remove[i] \in Piping!Range(s.remove)
          /\ \A i \in 1 .. n2 : s.configure[i] \in Piping!Range(s.configure)
          /\ \A i \in 1 .. n3 : s.insert[i] \in Piping!Range(s.insert)
      BY <1>2 DEF Piping!Range
    <2>5. QED
      BY <1>3, <2>1, <2>2, <2>3, <2>4
  <1>5. /\ first \in Seq(T) /\ Len(first) = n1 /\ second \in Seq(T) /\ Len(second) = n2
        /\ third \in Seq(T) /\ Len(third) = n3
    <2>1. first \in [1 .. n1 -> T] /\ second \in [1 .. n2 -> T] /\ third \in [1 .. n3 -> T]
      <3>1. first = [i \in 1 .. n1 |-> first[i]] /\ second = [i \in 1 .. n2 |-> second[i]]
            /\ third = [i \in 1 .. n3 |-> third[i]]
        BY <1>1, <1>2
      <3>2. QED
        BY <1>4, <3>1
    <2>2. QED
      BY <2>1, FunctionIsList
  <1>6. PICK both : both = first \o second
    OBVIOUS
  <1>7. /\ both \in Seq(T) /\ Len(both) = n1 + n2
        /\ \A i \in 1 .. n1 + n2 : both[i] = IF i <= n1 THEN first[i] ELSE second[i - n1]
    BY <1>5, <1>6, ConcatProperties
  <1>8. PICK edits_ : edits_ = both \o third
    OBVIOUS
  <1>9. /\ edits_ \in Seq(T) /\ Len(edits_) = n1 + n2 + n3
        /\ \A i \in 1 .. n1 + n2 + n3 : edits_[i] = IF i <= n1 + n2 THEN both[i] ELSE third[i - (n1 + n2)]
    BY <1>5, <1>7, <1>8, ConcatProperties
  <1>10. edits_ = Piping!Plan(s)
    BY <1>1, <1>6, <1>8 DEF Piping!Plan
  <1>11. /\ DOMAIN edits_ = 1 .. n1 + n2 + n3 /\ IsList(edits_)
    BY <1>9, ListIs
  <1>12. ASSUME NEW i \in 1 .. n1 + n2 + n3
         PROVE  /\ i <= n1 => edits_[i] = first[i] /\ i \in 1 .. n1
                /\ i > n1 /\ i <= n1 + n2 => edits_[i] = second[i - n1] /\ i - n1 \in 1 .. n2
                /\ i > n1 + n2 => edits_[i] = third[i - (n1 + n2)] /\ i - (n1 + n2) \in 1 .. n3
    <2>1. CASE i <= n1
      <3>1. i \in 1 .. n1 + n2 /\ i <= n1 + n2 /\ i \in 1 .. n1 /\ ~(i > n1) /\ ~(i > n1 + n2)
        BY <2>1
      <3>2. edits_[i] = first[i]
        BY <1>7, <1>9, <2>1, <3>1
      <3>3. QED
        BY <3>1, <3>2
    <2>2. CASE i > n1 /\ i <= n1 + n2
      <3>1. i \in 1 .. n1 + n2 /\ ~(i <= n1) /\ i - n1 \in 1 .. n2 /\ ~(i > n1 + n2)
        BY <2>2
      <3>2. edits_[i] = second[i - n1]
        BY <1>7, <1>9, <2>2, <3>1
      <3>3. QED
        BY <3>1, <3>2
    <2>3. CASE i > n1 + n2
      <3>1. ~(i <= n1 + n2) /\ ~(i <= n1) /\ i - (n1 + n2) \in 1 .. n3
        BY <2>3
      <3>2. edits_[i] = third[i - (n1 + n2)]
        BY <1>9, <3>1
      <3>3. QED
        BY <3>1, <3>2
    <2>4. QED
      BY <2>1, <2>2, <2>3
  <1>13. ASSUME NEW i \in 1 .. n1 + n2 + n3
         PROVE  Asked(edits_[i], s) /\ (edits_[i].do = "remove" <=> i <= n1)
    <2>1. CASE i <= n1
      BY <1>4, <1>12, <2>1 DEF Asked
    <2>2. CASE i > n1 /\ i <= n1 + n2
      <3>1. edits_[i] = second[i - n1] /\ i - n1 \in 1 .. n2
        BY <1>12, <2>2
      <3>2. edits_[i].do = "configure" /\ edits_[i].entry \in Piping!Range(s.configure)
        BY <1>4, <3>1
      <3>3. QED
        BY <2>2, <3>2 DEF Asked
    <2>3. CASE i > n1 + n2
      <3>1. edits_[i] = third[i - (n1 + n2)] /\ i - (n1 + n2) \in 1 .. n3
        BY <1>12, <2>3
      <3>2. edits_[i].do = "insert" /\ edits_[i].entry \in Piping!Range(s.insert)
        BY <1>4, <3>1
      <3>3. ~(i <= n1)
        BY <2>3
      <3>4. QED
        BY <3>2, <3>3 DEF Asked
    <2>4. QED
      BY <2>1, <2>2, <2>3
  <1>14. ASSUME NEW f \in Piping!Range(s.configure)
         PROVE  Pending(f, edits_)
    <2>1. PICK i \in 1 .. n2 : f = s.configure[i]
      BY <1>2 DEF Piping!Range
    <2>2. /\ n1 + i \in 1 .. n1 + n2 + n3 /\ n1 + i > n1 /\ n1 + i <= n1 + n2 /\ n1 + i - n1 = i
      OBVIOUS
    <2>3. edits_[n1 + i] = second[i]
      BY <1>12, <2>2
    <2>4. edits_[n1 + i].do = "configure" /\ edits_[n1 + i].entry = f
      BY <1>4, <2>1, <2>3
    <2>5. QED
      BY <1>11, <2>2, <2>4 DEF Pending
  <1>15. \A j, k \in DOMAIN edits_ : j < k /\ edits_[k].do = "remove" => edits_[j].do = "remove"
    <2>1. SUFFICES ASSUME NEW j \in 1 .. n1 + n2 + n3, NEW k \in 1 .. n1 + n2 + n3, j < k, edits_[k].do = "remove"
                   PROVE  edits_[j].do = "remove"
      BY <1>11
    <2>2. k <= n1
      BY <1>13, <2>1
    <2>3. j <= n1
      BY <2>1, <2>2
    <2>4. QED
      BY <1>13, <2>3
  <1>16. IsPlan(edits_, s)
    BY <1>11, <1>13, <1>14, <1>15 DEF IsPlan
  <1>17. QED
    BY <1>10, <1>14, <1>16

(* One edit of the plan is made.                                           *)
LEMMA PlanShrinks ==
  ASSUME NEW s, NEW edits_, IsPlan(edits_, s), edits_ # <<>>
  PROVE  /\ IsPlan(Tail(edits_), s) /\ Head(edits_) = edits_[1] /\ Asked(edits_[1], s)
         /\ \A f : Pending(f, edits_) =>
              Pending(f, Tail(edits_)) \/ (edits_[1].do = "configure" /\ edits_[1].entry = f)
         /\ Removing(Tail(edits_)) => Removing(edits_) /\ edits_[1].do = "remove"
         /\ edits_[1].do = "remove" => Removing(edits_)
  <1>1. PICK T : T = {edits_[i] : i \in DOMAIN edits_}
    OBVIOUS
  <1>2. edits_ \in Seq(T)
    BY <1>1 DEF IsPlan, IsList
  <1>3. PICK n \in Nat : n = Len(edits_) /\ n >= 1 /\ DOMAIN edits_ = 1 .. n
    BY <1>2
  <1>4. PICK rest : rest = Tail(edits_)
    OBVIOUS
  <1>5. /\ rest \in Seq(T) /\ DOMAIN rest = 1 .. n - 1 /\ \A k \in 1 .. n - 1 : rest[k] = edits_[k + 1]
        /\ Head(edits_) = edits_[1]
    <2>1. /\ rest \in Seq(T) /\ Len(rest) = Len(edits_) - 1 /\ Head(edits_) = edits_[1]
          /\ \A k \in 1 .. Len(rest) : rest[k] = edits_[k + 1]
      BY <1>2, <1>4, HeadTailProperties
    <2>2. DOMAIN rest = 1 .. Len(rest) /\ Len(rest) = n - 1
      BY <1>3, <2>1
    <2>3. QED
      BY <2>1, <2>2
  <1>6. \A k \in 1 .. n - 1 : k + 1 \in 1 .. n
    BY <1>3
  <1>7. \A k \in 1 .. n : k = 1 \/ (k - 1 \in 1 .. n - 1 /\ k - 1 + 1 = k)
    BY <1>3
  <1>8. 1 \in 1 .. n
    BY <1>3
  <1>9. ASSUME Removing(rest)
        PROVE  Removing(edits_) /\ edits_[1].do = "remove"
    <2>1. PICK k \in 1 .. n - 1 : edits_[k + 1].do = "remove"
      BY <1>5, <1>9 DEF Removing
    <2>2. k + 1 \in DOMAIN edits_ /\ 1 \in DOMAIN edits_ /\ 1 < k + 1
      BY <1>3
    <2>3. QED
      BY <2>1, <2>2 DEF Removing, IsPlan
  <1>10. ASSUME NEW f, Pending(f, edits_), ~(edits_[1].do = "configure" /\ edits_[1].entry = f)
         PROVE  Pending(f, rest)
    <2>1. PICK k \in 1 .. n : edits_[k].do = "configure" /\ edits_[k].entry = f
      BY <1>3, <1>10 DEF Pending
    <2>2. k - 1 \in 1 .. n - 1 /\ k - 1 + 1 = k
      BY <1>7, <1>10, <2>1
    <2>3. rest[k - 1] = edits_[k]
      BY <1>5, <2>2
    <2>4. QED
      BY <1>5, <2>1, <2>2, <2>3 DEF Pending
  <1>11. IsPlan(rest, s)
    <2>1. IsList(rest)
      BY <1>5, ListIs
    <2>2. \A k \in DOMAIN rest : Asked(rest[k], s)
      BY <1>3, <1>5, <1>6 DEF IsPlan
    <2>3. \A j, k \in DOMAIN rest : j < k /\ rest[k].do = "remove" => rest[j].do = "remove"
      <3>1. SUFFICES ASSUME NEW j \in 1 .. n - 1, NEW k \in 1 .. n - 1, j < k, rest[k].do = "remove"
                     PROVE  rest[j].do = "remove"
        BY <1>5
      <3>2. j + 1 \in DOMAIN edits_ /\ k + 1 \in DOMAIN edits_ /\ j + 1 < k + 1
        BY <1>3, <1>6, <3>1
      <3>3. QED
        BY <1>5, <3>1, <3>2 DEF IsPlan
    <2>4. Removing(rest) => \A f \in Piping!Range(s.configure) : Pending(f, rest)
      <3>1. SUFFICES ASSUME Removing(rest), NEW f \in Piping!Range(s.configure)
                     PROVE  Pending(f, rest)
        OBVIOUS
      <3>2. Pending(f, edits_) /\ edits_[1].do = "remove"
        BY <1>9, <3>1 DEF IsPlan
      <3>3. QED
        BY <1>10, <3>2
    <2>5. QED
      BY <2>1, <2>2, <2>3, <2>4 DEF IsPlan
  <1>12. Asked(edits_[1], s) /\ (edits_[1].do = "remove" => Removing(edits_))
    BY <1>3, <1>8 DEF IsPlan, Removing
  <1>13. QED
    BY <1>4, <1>5, <1>9, <1>10, <1>11, <1>12

(* What holds of the steps of a section, when its steps are kept.          *)
LEMMA GatesStay ==
  ASSUME NEW list, NEW next, NEW removed, Gated(list, removed),
         \A i \in DOMAIN list : list[i].name \in {"acl_check", "approval_gate"} \ removed =>
           \E k \in DOMAIN next : next[k].name = list[i].name /\ next[k].gate = list[i].gate
  PROVE  Gated(next, removed)
  <1>1. SUFFICES ASSUME NEW g \in GateSteps, g.name \notin removed
                 PROVE  \E i \in DOMAIN next : next[i].name = g.name /\ next[i].gate = g.gate
    BY DEF Gated
  <1>2. PICK i \in DOMAIN list : list[i].name = g.name /\ list[i].gate = g.gate
    BY <1>1 DEF Gated
  <1>3. g.name \in {"acl_check", "approval_gate"}
    BY <1>1 DEF GateSteps
  <1>4. QED
    BY <1>1, <1>2, <1>3

LEMMA RemovalOfSection ==
  ASSUME NEW s \in Sections, NEW st, IsStrategy(st), InOrder(st.steps), Gated(st.steps, Piping!Range(s.remove)),
         NEW name \in Piping!Range(s.remove), Expendable(st.steps),
         NEW outcome, outcome = Piping!Removed(st, name), outcome.error = Nothing
  PROVE  /\ IsStrategy(outcome.strategy) /\ InOrder(outcome.strategy.steps)
         /\ Gated(outcome.strategy.steps, Piping!Range(s.remove)) /\ Expendable(outcome.strategy.steps)
  <1>1. PICK next : next = outcome.strategy
    OBVIOUS
  <1>2. /\ IsStrategy(next) /\ InOrder(next.steps) /\ Expendable(next.steps)
        /\ \A i \in DOMAIN st.steps : st.steps[i].name # name =>
              \E k \in DOMAIN next.steps : next.steps[k] = st.steps[i]
    BY <1>1, RemovedKeeps
  <1>3. Gated(next.steps, Piping!Range(s.remove))
    <2>1. \A i \in DOMAIN st.steps : st.steps[i].name \in {"acl_check", "approval_gate"} \ Piping!Range(s.remove) =>
            \E k \in DOMAIN next.steps : next.steps[k].name = st.steps[i].name /\ next.steps[k].gate = st.steps[i].gate
      BY <1>2
    <2>2. QED
      BY <2>1, GatesStay
  <1>4. QED
    BY <1>1, <1>2, <1>3

LEMMA ConfigurationOfSection ==
  ASSUME NEW s \in Sections, NEW st, IsStrategy(st), InOrder(st.steps), Gated(st.steps, Piping!Range(s.remove)),
         NEW f \in Piping!Range(s.configure),
         NEW outcome, outcome = Piping!Configured(st, f), outcome.error = Nothing
  PROVE  /\ IsStrategy(outcome.strategy) /\ InOrder(outcome.strategy.steps)
         /\ Gated(outcome.strategy.steps, Piping!Range(s.remove))
         /\ \A g \in Piping!Range(s.configure) :
              g.timeout # Nothing /\ (Timed(st.steps, g) \/ g = f) => Timed(outcome.strategy.steps, g)
  <1>1. PICK name, p, step, over : /\ name = f.step /\ p = st.index[name] /\ step = st.steps[p]
                                   /\ over = Piping!Overlaid(step, f)
    OBVIOUS
  <1>2. Piping!Holds(st, name) /\ outcome = Piping!WrappedIn(st, name, over)
    <2>1. ~("unknown" \in f.keys \/ ~Piping!Holds(st, f.step) \/ Piping!WeakeningKeys(step.gate, f))
      <3>1. CASE "unknown" \in f.keys \/ ~Piping!Holds(st, f.step) \/ Piping!WeakeningKeys(step.gate, f)
        <4>1. outcome.error = "configuration"
          BY <1>1, <3>1 DEF Piping!Configured, Piping!Refused
        <4>2. QED
          BY <4>1, StrategyAssumption
      <3>2. QED
        BY <3>1
    <2>2. QED
      BY <1>1, <2>1 DEF Piping!Configured
  <1>3. /\ p \in DOMAIN st.steps /\ step.name = name /\ Piping!IsStep(step) /\ ~Piping!Repeats(st.steps)
        /\ DOMAIN st.steps = 1 .. Len(st.steps)
        /\ \A i \in DOMAIN st.steps : st.steps[i].name = name => i = p
    <2>1. p \in 1 .. Len(st.steps) /\ step.name = name /\ DOMAIN st.steps = 1 .. Len(st.steps)
      BY <1>1, <1>2, StrategyIs
    <2>2. Piping!IsStep(step)
      BY <1>1, <2>1, StrategyIs
    <2>3. ~Piping!Repeats(st.steps)
      BY DEF InOrder
    <2>4. \A i \in DOMAIN st.steps : st.steps[i].name = name => i = p
      BY <1>1, <2>1, <2>3 DEF Piping!Repeats
    <2>5. QED
      BY <2>1, <2>2, <2>3, <2>4
  <1>4. {f.ignores, f.pure} \subseteq {Nothing} \cup BOOLEAN
    BY StrategyAssumption DEF Piping!Range
  <1>5. /\ Piping!IsStep(over) /\ over.name = name /\ over.gate = step.gate /\ over.removable = step.removable
        /\ over.requires = step.requires /\ over.provides = step.provides
        /\ f.timeout # Nothing => over.timeout = f.timeout
    <2>1. LET o == Piping!Overlaid(step, f) IN
          /\ Piping!IsStep(o) /\ o.name = step.name /\ o.gate = step.gate /\ o.removable = step.removable
          /\ o.requires = step.requires /\ o.provides = step.provides
          /\ f.timeout # Nothing => o.timeout = f.timeout
      BY <1>3, <1>4, OverlaidIs
    <2>2. QED
      BY <1>1, <1>3, <2>1
  <1>6. PICK placed :
           /\ Piping!IsStep(placed) /\ ~Piping!Weakened(placed)
           /\ Piping!WrappedIn(st, name, over).strategy =
                Piping!WithSteps(st, [st.steps EXCEPT ![st.index[name]] = placed])
           /\ Piping!WrappedIn(st, name, over).error = Nothing => placed = over
           /\ ~Piping!Weakened(over) => placed = over
    <2>1. Piping!Holds(st, name) /\ Piping!IsStep(over)
      BY <1>2, <1>5
    <2>2. QED
      BY <2>1, WrappedInIs
  <1>7. placed = over /\ ~Piping!Weakened(over) /\ Piping!Holds(st, name) /\ Piping!IsStep(over)
    BY <1>2, <1>5, <1>6
  <1>8. PICK next : next = outcome.strategy
    OBVIOUS
  <1>9. next = Piping!WithSteps(st, [st.steps EXCEPT ![st.index[name]] = over])
    BY <1>2, <1>6, <1>7, <1>8
  <1>10. /\ IsStrategy(next) /\ DOMAIN next.steps = DOMAIN st.steps /\ next.steps[p] = over
         /\ \A i \in DOMAIN st.steps : i # p => next.steps[i] = st.steps[i]
    <2>1. /\ IsStrategy(next) /\ DOMAIN next.steps = DOMAIN st.steps /\ next.steps[st.index[name]] = over
          /\ \A i \in DOMAIN st.steps : i # st.index[name] => next.steps[i] = st.steps[i]
      BY <1>7, <1>9, ExchangedIs
    <2>2. QED
      BY <1>1, <2>1
  <1>11. InOrder(next.steps)
    <2>1. name = "module_lookup" => over.provides = {"module"} /\ ~over.removable
      <3>1. PICK i \in DOMAIN st.steps :
              st.steps[i].name = "module_lookup" /\ st.steps[i].provides = {"module"} /\ ~st.steps[i].removable
        BY DEF InOrder, LooksUp
      <3>2. name = "module_lookup" => step.provides = {"module"} /\ ~step.removable
        BY <1>1, <1>3, <3>1
      <3>3. QED
        BY <1>5, <3>2
    <2>2. over.requires \subseteq st.steps[st.index[name]].requires
          /\ st.steps[st.index[name]].provides \subseteq over.provides
      BY <1>1, <1>5
    <2>3. QED
      BY <1>5, <1>7, <1>9, <2>1, <2>2, ExchangedIs
  <1>12. Gated(next.steps, Piping!Range(s.remove))
    <2>1. \A i \in DOMAIN st.steps : next.steps[i].name = st.steps[i].name /\ next.steps[i].gate = st.steps[i].gate
      BY <1>1, <1>3, <1>5, <1>10
    <2>2. \A i \in DOMAIN st.steps : \E k \in DOMAIN next.steps :
            next.steps[k].name = st.steps[i].name /\ next.steps[k].gate = st.steps[i].gate
      BY <1>10, <2>1
    <2>3. QED
      BY <2>2, GatesStay
  <1>13. ASSUME NEW g \in Piping!Range(s.configure), g.timeout # Nothing, Timed(st.steps, g) \/ g = f
         PROVE  Timed(next.steps, g)
    <2>1. CASE g = f
      <3>1. p \in DOMAIN next.steps /\ next.steps[p].name = g.step /\ next.steps[p].timeout = g.timeout
        BY <1>1, <1>3, <1>5, <1>10, <1>13, <2>1
      <3>2. QED
        BY <3>1 DEF Timed
    <2>2. CASE Timed(st.steps, g) /\ g # f
      <3>1. PICK i \in DOMAIN st.steps : st.steps[i].name = g.step /\ st.steps[i].timeout = g.timeout
        BY <2>2 DEF Timed
      <3>2. g.step # f.step
        <4>1. PICK j \in DOMAIN s.configure, k \in DOMAIN s.configure : g = s.configure[j] /\ f = s.configure[k]
          BY <1>13 DEF Piping!Range
        <4>2. QED
          BY <2>2, <4>1, StrategyAssumption
      <3>3. i # p
        BY <1>1, <1>3, <3>1, <3>2
      <3>4. QED
        BY <1>10, <3>1, <3>3 DEF Timed
    <2>3. QED
      BY <1>13, <2>1, <2>2
  <1>14. QED
    BY <1>8, <1>10, <1>11, <1>12, <1>13

LEMMA InsertionOfSection ==
  ASSUME NEW s \in Sections, NEW st, IsStrategy(st), InOrder(st.steps), Gated(st.steps, Piping!Range(s.remove)),
         stepTypes \subseteq DOMAIN Makes, NEW e \in Piping!Range(s.insert),
         NEW outcome, outcome = Piping!Added(st, e), outcome.error = Nothing
  PROVE  /\ IsStrategy(outcome.strategy) /\ InOrder(outcome.strategy.steps)
         /\ Gated(outcome.strategy.steps, Piping!Range(s.remove))
         /\ \A g : Timed(st.steps, g) => Timed(outcome.strategy.steps, g)
  <1>1. /\ e.type \in stepTypes /\ outcome = Piping!Inserted(st, e.at, e.anchor, Piping!Resolved(e))
    <2>1. CASE "unknown" \in e.keys \/ e.handler \/ e.type \notin stepTypes \/ e.at = "nowhere"
      <3>1. outcome.error = "configuration"
        BY <2>1 DEF Piping!Added, Piping!Refused
      <3>2. QED
        BY <3>1, StrategyAssumption
    <2>2. CASE ~("unknown" \in e.keys \/ e.handler \/ e.type \notin stepTypes \/ e.at = "nowhere")
      BY <2>2 DEF Piping!Added
    <2>3. QED
      BY <2>1, <2>2
  <1>2. {e.ignores, e.pure} \subseteq {Nothing} \cup BOOLEAN
    BY StrategyAssumption DEF Piping!Range
  <1>3. PICK step : step = Piping!Resolved(e)
    OBVIOUS
  <1>4. Piping!IsStep(step)
    BY <1>1, <1>2, <1>3, ResolvedIs
  <1>5. PICK next : next = outcome.strategy
    OBVIOUS
  <1>6. /\ IsStrategy(next) /\ InOrder(next.steps)
        /\ \A i \in DOMAIN st.steps : \E k \in DOMAIN next.steps : next.steps[k] = st.steps[i]
    BY <1>1, <1>3, <1>4, <1>5, InsertedKeeps
  <1>7. Gated(next.steps, Piping!Range(s.remove))
    <2>1. \A i \in DOMAIN st.steps : \E k \in DOMAIN next.steps :
            next.steps[k].name = st.steps[i].name /\ next.steps[k].gate = st.steps[i].gate
      BY <1>6
    <2>2. QED
      BY <2>1, GatesStay
  <1>8. ASSUME NEW g, Timed(st.steps, g)
        PROVE  Timed(next.steps, g)
    <2>1. PICK i \in DOMAIN st.steps : st.steps[i].name = g.step /\ st.steps[i].timeout = g.timeout
      BY <1>8 DEF Timed
    <2>2. PICK k \in DOMAIN next.steps : next.steps[k] = st.steps[i]
      BY <1>6
    <2>3. QED
      BY <2>1, <2>2 DEF Timed
  <1>9. QED
    BY <1>5, <1>6, <1>7, <1>8

-----------------------------------------------------------------------------
(* The steps of the strategies.                                            *)

(* A caller's strategy is edited, or a preset is taken: no section is      *)
(* there to be applied.                                                    *)
LEMMA CallersKeep ==
  ASSUME StrategyInv, section = Nothing, IsStrategy(strategy'), holder' \in {"caller", "executor"},
         UNCHANGED <<stepTypes, section, fellBack>>, rebound' \in BOOLEAN
  PROVE  StrategyInv'
  BY DEF StrategyInv

LEMMA AssembleKeeps ==
  ASSUME StrategyInv, Piping!Assemble
  PROVE  StrategyInv'
  <1>1. /\ holder = "nobody" /\ holder' = "caller"
        /\ UNCHANGED <<stepTypes, section, plan, fellBack, rebound, edits>>
    BY DEF Piping!Assemble
  <1>2. PICK list \in Lists : /\ Piping!Assembled("custom", list).error = Nothing
                              /\ strategy' = Piping!Assembled("custom", list).strategy
    BY DEF Piping!Assemble
  <1>3. IsList(list) /\ \A i \in DOMAIN list : Piping!IsStep(list[i])
    BY StrategyAssumption
  <1>4. IsStrategy(strategy')
    BY <1>2, <1>3, AssembledIs
  <1>5. section = Nothing /\ rebound' \in BOOLEAN
    BY <1>1 DEF StrategyInv
  <1>6. QED
    BY <1>1, <1>4, <1>5, CallersKeep

LEMMA UsePresetKeeps ==
  ASSUME StrategyInv, Piping!UsePreset
  PROVE  StrategyInv'
  <1>1. /\ holder = "nobody" /\ holder' \in {"caller", "executor"}
        /\ UNCHANGED <<stepTypes, section, plan, fellBack, rebound, edits>>
    BY DEF Piping!UsePreset
  <1>2. PICK p \in Piping!Presets : strategy' = Piping!PresetStrategies[p]
    BY DEF Piping!UsePreset
  <1>3. IsStrategy(strategy')
    BY <1>2, PresetsAre
  <1>4. section = Nothing /\ rebound' \in BOOLEAN
    BY <1>1 DEF StrategyInv
  <1>5. QED
    BY <1>1, <1>3, <1>4, CallersKeep

LEMMA EditKeeps ==
  ASSUME StrategyInv, Piping!Edit
  PROVE  StrategyInv'
  <1>1. /\ holder = "caller" /\ UNCHANGED <<stepTypes, holder, section, plan, fellBack, rebound>>
    BY DEF Piping!Edit
  <1>2. section = Nothing /\ IsStrategy(strategy) /\ rebound' \in BOOLEAN
    BY <1>1 DEF StrategyInv, SectionInv
  <1>3. PICK name : \/ strategy' = Piping!Removed(strategy, name).strategy
                    \/ \E step \in Given : \E side \in {"after", "before"} :
                         strategy' = Piping!Inserted(strategy, side, name, step).strategy
                    \/ \E step \in Given : strategy' = Piping!Replaced(strategy, name, step).strategy
                    \/ \E step : /\ Piping!IsStep(step)
                                 /\ strategy' = Piping!WrappedIn(strategy, name, step).strategy
    BY DEF Piping!Edit
  <1>4. CASE strategy' = Piping!Removed(strategy, name).strategy
    <2>1. IsStrategy(strategy')
      BY <1>2, <1>4, RemovedKeeps
    <2>2. QED
      BY <1>1, <1>2, <2>1, CallersKeep
  <1>5. CASE \E step \in Given : \E side \in {"after", "before"} :
               strategy' = Piping!Inserted(strategy, side, name, step).strategy
    <2>1. PICK step \in Given, side \in {"after", "before"} :
            strategy' = Piping!Inserted(strategy, side, name, step).strategy
      BY <1>5
    <2>2. Piping!IsStep(step)
      BY StrategyAssumption
    <2>3. IsStrategy(strategy')
      BY <1>2, <2>1, <2>2, InsertedKeeps
    <2>4. QED
      BY <1>1, <1>2, <2>3, CallersKeep
  <1>6. CASE \E step \in Given : strategy' = Piping!Replaced(strategy, name, step).strategy
    <2>1. PICK step \in Given : strategy' = Piping!Replaced(strategy, name, step).strategy
      BY <1>6
    <2>2. Piping!IsStep(step)
      BY StrategyAssumption
    <2>3. IsStrategy(strategy')
      BY <1>2, <2>1, <2>2, ReplacedKeeps
    <2>4. QED
      BY <1>1, <1>2, <2>3, CallersKeep
  <1>7. CASE \E step : Piping!IsStep(step) /\ strategy' = Piping!WrappedIn(strategy, name, step).strategy
    <2>1. PICK step : Piping!IsStep(step) /\ strategy' = Piping!WrappedIn(strategy, name, step).strategy
      BY <1>7
    <2>2. IsStrategy(strategy')
      BY <1>2, <2>1, WrappedInKeeps
    <2>3. QED
      BY <1>1, <1>2, <2>2, CallersKeep
  <1>8. QED
    BY <1>3, <1>4, <1>5, <1>6, <1>7

LEMMA HandOverKeeps ==
  ASSUME StrategyInv, Piping!HandOver
  PROVE  StrategyInv'
  <1>1. /\ holder = "caller" /\ holder' = "executor"
        /\ UNCHANGED <<strategy, stepTypes, section, plan, fellBack, rebound, edits>>
    BY DEF Piping!HandOver
  <1>2. section = Nothing /\ IsStrategy(strategy') /\ rebound' \in BOOLEAN
    BY <1>1 DEF StrategyInv, SectionInv
  <1>3. QED
    BY <1>1, <1>2, CallersKeep

(* The section is dropped, and the standard strategy runs.                 *)
LEMMA FallingBackKeeps ==
  ASSUME StrategyInv, Piping!FallBack, section' \in Sections, UNCHANGED <<stepTypes, rebound>>
  PROVE  StrategyInv'
  <1>1. strategy' = Piping!Standard /\ fellBack' = TRUE /\ holder' = "executor"
    BY DEF Piping!FallBack
  <1>2. /\ IsStrategy(strategy') /\ InOrder((strategy').steps) /\ Gated((strategy').steps, {})
    BY <1>1, StandardIs
  <1>3. SectionInv'
    BY <1>1, <1>2 DEF SectionInv
  <1>4. QED
    BY <1>1, <1>2, <1>3 DEF StrategyInv

LEMMA ReadSectionKeeps ==
  ASSUME StrategyInv, Piping!ReadSection
  PROVE  StrategyInv'
  <1>1. holder = "nobody" /\ UNCHANGED <<stepTypes, rebound, edits>> /\ ~fellBack /\ ~rebound
    BY DEF Piping!ReadSection, StrategyInv
  <1>2. PICK s \in Sections :
          /\ section' = s
          /\ \/ /\ strategy' = Piping!Standard /\ plan' = Piping!Plan(s) /\ holder' = "config"
                /\ UNCHANGED fellBack
             \/ Piping!FallBack
    BY DEF Piping!ReadSection
  <1>3. CASE Piping!FallBack
    BY <1>1, <1>2, <1>3, FallingBackKeeps
  <1>4. CASE strategy' = Piping!Standard /\ plan' = Piping!Plan(s) /\ holder' = "config" /\ UNCHANGED fellBack
    <2>1. /\ IsStrategy(strategy') /\ InOrder((strategy').steps) /\ Expendable((strategy').steps)
          /\ Gated((strategy').steps, {})
      BY <1>4, StandardIs
    <2>2. Gated((strategy').steps, Piping!Range(s.remove))
      BY <2>1 DEF Gated
    <2>3. IsPlan(plan', s) /\ \A f \in Piping!Range(s.configure) : Pending(f, plan')
      BY <1>4, PlanIs
    <2>4. fellBack' = FALSE /\ rebound' = FALSE
      BY <1>1, <1>4 DEF StrategyInv
    <2>5. SectionInv'
      BY <1>2, <1>4, <2>1, <2>2, <2>3, <2>4 DEF SectionInv
    <2>6. section' # Nothing
      BY <1>2, StrategyAssumption
    <2>7. QED
      BY <1>1, <1>4, <2>1, <2>4, <2>5, <2>6 DEF StrategyInv
  <1>5. QED
    BY <1>2, <1>3, <1>4

(* The next edit of the plan is made.                                      *)
LEMMA EditOfSectionKeeps ==
  ASSUME StrategyInv, holder = "config", plan # <<>>,
         NEW outcome, outcome = Piping!Outcome(strategy, Head(plan)), outcome.error = Nothing,
         strategy' = outcome.strategy, plan' = Tail(plan),
         UNCHANGED <<holder, fellBack, stepTypes, section, rebound>>
  PROVE  StrategyInv'
  <1>1. /\ IsStrategy(strategy) /\ SectionInv /\ stepTypes \subseteq DOMAIN Makes /\ section # Nothing
    BY DEF StrategyInv
  <1>2. /\ section \in Sections /\ InOrder(strategy.steps) /\ ~fellBack /\ ~rebound /\ IsPlan(plan, section)
        /\ Gated(strategy.steps, Piping!Range(section.remove))
        /\ Removing(plan) => Expendable(strategy.steps)
        /\ \A f \in Piping!Range(section.configure) :
              f.timeout = Nothing \/ Timed(strategy.steps, f) \/ Pending(f, plan)
    BY <1>1 DEF SectionInv
  <1>3. PICK s \in Sections : s = section
    BY <1>2
  <1>4. PICK edit, st, next : edit = plan[1] /\ st = strategy /\ next = outcome.strategy
    OBVIOUS
  <1>5. /\ IsPlan(plan', s) /\ Head(plan) = edit /\ Asked(edit, s)
        /\ \A f : Pending(f, plan) => Pending(f, plan') \/ (edit.do = "configure" /\ edit.entry = f)
        /\ Removing(plan') => Removing(plan) /\ edit.do = "remove"
        /\ edit.do = "remove" => Removing(plan)
    BY <1>2, <1>3, <1>4, PlanShrinks
  <1>6. SUFFICES /\ IsStrategy(next) /\ InOrder(next.steps) /\ Gated(next.steps, Piping!Range(s.remove))
                 /\ edit.do = "remove" => Expendable(next.steps)
                 /\ \A f \in Piping!Range(s.configure) :
                       f.timeout = Nothing \/ Timed(next.steps, f) \/ Pending(f, plan')
    <2>1. ASSUME /\ IsStrategy(next) /\ InOrder(next.steps) /\ Gated(next.steps, Piping!Range(s.remove))
                 /\ edit.do = "remove" => Expendable(next.steps)
                 /\ \A f \in Piping!Range(s.configure) :
                       f.timeout = Nothing \/ Timed(next.steps, f) \/ Pending(f, plan')
          PROVE  StrategyInv'
      <3>1. strategy' = next /\ section' = s /\ holder' = "config" /\ fellBack' = fellBack /\ rebound' = rebound
        BY <1>3, <1>4
      <3>2. SectionInv'
        BY <1>2, <1>5, <2>1, <3>1 DEF SectionInv
      <3>3. QED
        BY <1>1, <1>2, <1>3, <2>1, <3>1, <3>2 DEF StrategyInv
    <2>2. QED
      BY <2>1
  <1>7. IsStrategy(st) /\ InOrder(st.steps) /\ Gated(st.steps, Piping!Range(s.remove))
    BY <1>1, <1>2, <1>3, <1>4
  <1>8. CASE edit.do = "remove"
    <2>1. edit.entry \in Piping!Range(s.remove) /\ Expendable(st.steps)
      BY <1>2, <1>4, <1>5, <1>8 DEF Asked
    <2>2. outcome = Piping!Removed(st, edit.entry)
      BY <1>4, <1>5, <1>8 DEF Piping!Outcome
    <2>3. /\ IsStrategy(next) /\ InOrder(next.steps) /\ Gated(next.steps, Piping!Range(s.remove))
          /\ Expendable(next.steps)
      BY <1>4, <1>7, <2>1, <2>2, RemovalOfSection
    <2>4. \A f \in Piping!Range(s.configure) : Pending(f, plan)
      BY <1>2, <1>3, <1>5, <1>8 DEF IsPlan
    <2>5. \A f \in Piping!Range(s.configure) : Pending(f, plan')
      BY <1>5, <1>8, <2>4
    <2>6. QED
      BY <2>3, <2>5
  <1>9. CASE edit.do = "configure"
    <2>1. edit.entry \in Piping!Range(s.configure)
      BY <1>5, <1>9 DEF Asked
    <2>2. outcome = Piping!Configured(st, edit.entry)
      BY <1>4, <1>5, <1>9 DEF Piping!Outcome
    <2>3. /\ IsStrategy(next) /\ InOrder(next.steps) /\ Gated(next.steps, Piping!Range(s.remove))
          /\ \A g \in Piping!Range(s.configure) :
                g.timeout # Nothing /\ (Timed(st.steps, g) \/ g = edit.entry) => Timed(next.steps, g)
      BY <1>4, <1>7, <2>1, <2>2, ConfigurationOfSection
    <2>4. ASSUME NEW f \in Piping!Range(s.configure)
          PROVE  f.timeout = Nothing \/ Timed(next.steps, f) \/ Pending(f, plan')
      BY <1>2, <1>3, <1>4, <1>5, <2>3
    <2>5. QED
      BY <1>9, <2>3, <2>4
  <1>10. CASE edit.do = "insert"
    <2>1. edit.entry \in Piping!Range(s.insert)
      BY <1>5, <1>10 DEF Asked
    <2>2. outcome = Piping!Added(st, edit.entry)
      BY <1>4, <1>5, <1>10 DEF Piping!Outcome
    <2>3. /\ IsStrategy(next) /\ InOrder(next.steps) /\ Gated(next.steps, Piping!Range(s.remove))
          /\ \A g : Timed(st.steps, g) => Timed(next.steps, g)
      BY <1>1, <1>4, <1>7, <2>1, <2>2, InsertionOfSection
    <2>4. ASSUME NEW f \in Piping!Range(s.configure)
          PROVE  f.timeout = Nothing \/ Timed(next.steps, f) \/ Pending(f, plan')
      BY <1>2, <1>3, <1>4, <1>5, <1>10, <2>3
    <2>5. QED
      BY <1>10, <2>3, <2>4
  <1>11. QED
    BY <1>5, <1>8, <1>9, <1>10 DEF Asked

LEMMA ApplySectionKeeps ==
  ASSUME StrategyInv, Piping!ApplySection
  PROVE  StrategyInv'
  <1>1. holder = "config" /\ UNCHANGED <<stepTypes, section, rebound, edits>>
    BY DEF Piping!ApplySection
  <1>2. section \in Sections /\ section # Nothing
    BY <1>1 DEF StrategyInv, SectionInv
  <1>3. CASE plan = <<>>
    <2>1. holder' = "executor" /\ UNCHANGED <<strategy, plan, fellBack>>
      BY <1>3 DEF Piping!ApplySection
    <2>2. \A f : ~Pending(f, plan)
      BY <1>3 DEF Pending
    <2>3. SectionInv'
      BY <1>1, <1>2, <2>1, <2>2 DEF StrategyInv, SectionInv
    <2>4. QED
      BY <1>1, <1>2, <2>1, <2>3 DEF StrategyInv
  <1>4. CASE plan # <<>>
    <2>1. PICK outcome : outcome = Piping!Outcome(strategy, Head(plan))
      OBVIOUS
    <2>2. \/ outcome.error # Nothing /\ Piping!FallBack
          \/ /\ outcome.error = Nothing /\ strategy' = outcome.strategy /\ plan' = Tail(plan)
             /\ UNCHANGED <<holder, fellBack>>
      BY <1>4, <2>1 DEF Piping!ApplySection
    <2>3. CASE Piping!FallBack
      BY <1>1, <1>2, <2>3, FallingBackKeeps
    <2>4. CASE /\ outcome.error = Nothing /\ strategy' = outcome.strategy /\ plan' = Tail(plan)
               /\ UNCHANGED <<holder, fellBack>>
      BY <1>1, <1>4, <2>1, <2>4, EditOfSectionKeeps
    <2>5. QED
      BY <2>2, <2>3, <2>4
  <1>5. QED
    BY <1>3, <1>4

(* The lookup step of a section's strategy is one of a kind, so that a new *)
(* one takes its place and no other.                                       *)
LEMMA SetToggleStateKeeps ==
  ASSUME StrategyInv, Piping!SetToggleState
  PROVE  StrategyInv'
  <1>1. /\ holder = "executor" /\ rebound = FALSE
        /\ strategy' = Piping!WrappedIn(strategy, "module_lookup", Piping!ModuleLookupStep).strategy
        /\ rebound' = Piping!Holds(strategy, "module_lookup")
        /\ UNCHANGED <<stepTypes, holder, section, plan, fellBack, edits>>
    BY DEF Piping!SetToggleState, StrategyInv
  <1>2. IsStrategy(strategy)
    BY <1>1 DEF StrategyInv
  <1>3. IsStrategy(strategy')
    BY <1>1, <1>2, LookupStepIs, WrappedInKeeps
  <1>4. rebound' \in BOOLEAN
    BY <1>1 DEF Piping!Holds
  <1>5. CASE section = Nothing
    BY <1>1, <1>3, <1>4, <1>5, CallersKeep
  <1>6. CASE section # Nothing
    <2>1. PICK st, next, p, step : /\ st = strategy /\ next = strategy' /\ p = strategy.index["module_lookup"]
                                   /\ step = Piping!ModuleLookupStep
      OBVIOUS
    <2>2. SectionInv /\ InOrder(st.steps)
      BY <1>6, <2>1 DEF StrategyInv, SectionInv
    <2>3. PICK i \in DOMAIN st.steps :
            st.steps[i].name = "module_lookup" /\ st.steps[i].provides = {"module"} /\ ~st.steps[i].removable
      BY <2>2 DEF InOrder, LooksUp
    <2>4. Piping!Holds(st, "module_lookup") /\ DOMAIN st.steps = 1 .. Len(st.steps)
      <3>1. IsStrategy(st)
        BY <1>2, <2>1
      <3>2. DOMAIN st.steps = 1 .. Len(st.steps)
        BY <3>1, StrategyIs
      <3>3. ~Piping!Holds(st, "module_lookup") => \A k \in 1 .. Len(st.steps) : st.steps[k].name # "module_lookup"
        BY <3>1, StrategyIs
      <3>4. QED
        BY <2>3, <3>2, <3>3
    <2>5. PICK placed :
           /\ Piping!IsStep(placed) /\ ~Piping!Weakened(placed)
           /\ Piping!WrappedIn(st, "module_lookup", step).strategy =
                Piping!WithSteps(st, [st.steps EXCEPT ![st.index["module_lookup"]] = placed])
           /\ Piping!WrappedIn(st, "module_lookup", step).error = Nothing => placed = step
           /\ ~Piping!Weakened(step) => placed = step
      <3>1. Piping!IsStep(step) /\ IsStrategy(st)
        BY <1>2, <2>1, LookupStepIs
      <3>2. QED
        BY <2>4, <3>1, WrappedInIs
    <2>6. /\ placed = step /\ Piping!IsStep(step) /\ ~Piping!Weakened(step) /\ step.name = "module_lookup"
          /\ step.requires = {} /\ step.provides = {"module"} /\ ~step.removable
      BY <2>1, <2>5, LookupStepIs
    <2>7. next = Piping!WithSteps(st, [st.steps EXCEPT ![st.index["module_lookup"]] = step]) /\ IsStrategy(st)
      BY <1>1, <1>2, <2>1, <2>5, <2>6
    <2>8. /\ DOMAIN next.steps = DOMAIN st.steps /\ p \in DOMAIN st.steps /\ st.steps[p].name = "module_lookup"
          /\ next.steps[p] = step /\ \A k \in DOMAIN st.steps : k # p => next.steps[k] = st.steps[k]
      <3>0. Piping!Holds(st, "module_lookup") /\ Piping!IsStep(step) /\ ~Piping!Weakened(step)
        BY <2>4, <2>6
      <3>1. /\ DOMAIN next.steps = DOMAIN st.steps /\ st.index["module_lookup"] \in DOMAIN st.steps
            /\ st.steps[st.index["module_lookup"]].name = "module_lookup"
            /\ next.steps[st.index["module_lookup"]] = step
            /\ \A k \in DOMAIN st.steps : k # st.index["module_lookup"] => next.steps[k] = st.steps[k]
        BY <2>7, <3>0, ExchangedIs
      <3>2. QED
        BY <2>1, <3>1
    <2>9. i = p
      BY <2>2, <2>3, <2>8 DEF InOrder, Piping!Repeats
    <2>10. InOrder(next.steps)
      <3>1. /\ step.requires \subseteq st.steps[st.index["module_lookup"]].requires
            /\ st.steps[st.index["module_lookup"]].provides \subseteq step.provides
        BY <2>1, <2>3, <2>6, <2>9
      <3>2. QED
        BY <2>2, <2>4, <2>6, <2>7, <3>1, ExchangedIs
    <2>11. ASSUME NEW removed, Gated(st.steps, removed)
           PROVE  Gated(next.steps, removed)
      <3>1. \A k \in DOMAIN st.steps : st.steps[k].name \in {"acl_check", "approval_gate"} \ removed =>
              \E j \in DOMAIN next.steps : next.steps[j].name = st.steps[k].name /\ next.steps[j].gate = st.steps[k].gate
        BY <2>8
      <3>2. QED
        BY <2>11, <3>1, GatesStay
    <2>12. ASSUME NEW f, f.step # "module_lookup", Timed(st.steps, f)
           PROVE  Timed(next.steps, f)
      <3>1. PICK k \in DOMAIN st.steps : st.steps[k].name = f.step /\ st.steps[k].timeout = f.timeout
        BY <2>12 DEF Timed
      <3>2. k # p
        BY <2>8, <2>12, <3>1
      <3>3. QED
        BY <2>8, <3>1, <3>2 DEF Timed
    <2>13. rebound' = TRUE
      BY <1>1, <2>1, <2>4 DEF Piping!Holds
    <2>14. SectionInv'
      <3>1. section' \in Sections /\ holder' \in {"config", "executor"} /\ holder' # "config"
        BY <1>1, <2>2 DEF SectionInv
      <3>2. Gated(next.steps, IF fellBack' THEN {} ELSE Piping!Range((section').remove))
        BY <1>1, <2>1, <2>2, <2>11 DEF SectionInv
      <3>3. ASSUME ~fellBack', NEW f \in Piping!Range((section').configure)
            PROVE  f.timeout = Nothing \/ f.step = "module_lookup" \/ Timed(next.steps, f)
        BY <1>1, <2>1, <2>2, <2>12, <3>3 DEF SectionInv
      <3>4. QED
        BY <2>1, <2>10, <2>13, <3>1, <3>2, <3>3 DEF SectionInv
    <2>15. QED
      BY <1>1, <1>3, <1>4, <1>6, <2>14 DEF StrategyInv
  <1>7. QED
    BY <1>5, <1>6

LEMMA TypesMoveKeeps ==
  ASSUME StrategyInv, Piping!RegisterStepType \/ Piping!UnregisterStepType
  PROVE  StrategyInv'
  <1>1. UNCHANGED <<strategy, holder, section, plan, fellBack, rebound, edits>>
    BY DEF Piping!RegisterStepType, Piping!UnregisterStepType
  <1>2. stepTypes' \subseteq DOMAIN Makes
    BY DEF Piping!RegisterStepType, Piping!UnregisterStepType, StrategyInv
  <1>3. SectionInv' <=> SectionInv
    BY <1>1 DEF SectionInv
  <1>4. QED
    BY <1>1, <1>2, <1>3 DEF StrategyInv

LEMMA StrategyStep ==
  ASSUME StrategyInv, Piping!Next \/ UNCHANGED strategyVars
  PROVE  StrategyInv'
  <1>1. CASE UNCHANGED strategyVars
    <2>1. UNCHANGED <<strategy, stepTypes, holder, section, plan, fellBack, rebound, edits>>
      BY <1>1 DEF strategyVars
    <2>2. SectionInv' <=> SectionInv
      BY <2>1 DEF SectionInv
    <2>3. QED
      BY <2>1, <2>2 DEF StrategyInv
  <1>2. CASE Piping!Assemble
    BY <1>2, AssembleKeeps
  <1>3. CASE Piping!UsePreset
    BY <1>3, UsePresetKeeps
  <1>4. CASE Piping!ReadSection
    BY <1>4, ReadSectionKeeps
  <1>5. CASE Piping!ApplySection
    BY <1>5, ApplySectionKeeps
  <1>6. CASE Piping!Edit
    BY <1>6, EditKeeps
  <1>7. CASE Piping!HandOver
    BY <1>7, HandOverKeeps
  <1>8. CASE Piping!SetToggleState
    BY <1>8, SetToggleStateKeeps
  <1>9. CASE Piping!RegisterStepType \/ Piping!UnregisterStepType
    BY <1>9, TypesMoveKeeps
  <1>10. QED
    BY <1>1, <1>2, <1>3, <1>4, <1>5, <1>6, <1>7, <1>8, <1>9 DEF Piping!Next

LEMMA StrategyStarts ==
  ASSUME Piping!Init
  PROVE  StrategyInv
  BY StrategyAssumption DEF Piping!Init, StrategyInv

(* A gate that is wired bites.                                             *)
LEMMA ProtectionNow ==
  ASSUME StrategyInv
  PROVE  Piping!ProtectionIsReal
  <1>1. SUFFICES ASSUME holder = "executor", NEW acl \in BOOLEAN, NEW handler \in BOOLEAN, NEW strict \in BOOLEAN,
                        NEW allGated \in BOOLEAN, ~Piping!Unprotected(acl, handler, strict, allGated)
                 PROVE  \E i \in DOMAIN strategy.steps :
                          /\ Piping!Bites(strategy.steps[i])
                          /\ \/ acl /\ strategy.steps[i].gate = "acl"
                             \/ allGated /\ (handler \/ strict) /\ strategy.steps[i].gate = "approval"
    BY DEF Piping!ProtectionIsReal
  <1>2. ASSUME NEW gate \in {"acl", "approval"}, Piping!Wired(gate)
        PROVE  \E i \in DOMAIN strategy.steps :
                 Piping!Bites(strategy.steps[i]) /\ strategy.steps[i].gate = gate
    <2>1. PICK i \in DOMAIN strategy.steps : strategy.steps[i].gate = gate
      BY <1>2 DEF Piping!Wired
    <2>2. ~Piping!Weakened(strategy.steps[i]) /\ gate # Nothing
      BY <1>1, StrategyAssumption DEF StrategyInv, IsStrategy
    <2>3. Piping!Bites(strategy.steps[i])
      BY <2>1, <2>2 DEF Piping!Weakened, Piping!Bites
    <2>4. QED
      BY <2>1, <2>3
  <1>3. CASE acl /\ Piping!Wired("acl")
    BY <1>2, <1>3
  <1>4. CASE Piping!Wired("approval") /\ allGated /\ (handler \/ strict)
    BY <1>2, <1>4
  <1>5. QED
    BY <1>1, <1>3, <1>4 DEF Piping!Unprotected

LEMMA SectionNow ==
  ASSUME StrategyInv
  PROVE  Piping!SectionIsApplied
  <1>1. SUFFICES ASSUME holder = "executor", section # Nothing
                 PROVE  Piping!SectionIsApplied
    BY DEF Piping!SectionIsApplied
  <1>2. SectionInv /\ IsStrategy(strategy)
    BY <1>1 DEF StrategyInv
  <1>3. ~Piping!Unmet(strategy.steps) /\ ~Piping!Repeats(strategy.steps)
    BY <1>2 DEF SectionInv, InOrder
  <1>4. ASSUME NEW i \in DOMAIN Piping!StandardSteps, Piping!StandardSteps[i].gate # Nothing,
               ~Piping!Wired(Piping!StandardSteps[i].gate)
        PROVE  ~fellBack /\ Piping!StandardSteps[i].name \in Piping!Range(section.remove)
    <2>1. i = 4 \/ i = 5
      <3>1. i = 1 \/ i = 2 \/ i = 3 \/ i = 4 \/ i = 5 \/ i = 6 \/ i = 7 \/ i = 8 \/ i = 9 \/ i = 10 \/ i = 11
        BY StandardListIs
      <3>2. QED
        BY <1>4, <3>1, StandardStepsAre
    <2>2. PICK g \in GateSteps : g.name = Piping!StandardSteps[i].name /\ g.gate = Piping!StandardSteps[i].gate
      BY <2>1, StandardStepsAre DEF GateSteps
    <2>3. Gated(strategy.steps, IF fellBack THEN {} ELSE Piping!Range(section.remove))
      BY <1>2 DEF SectionInv
    <2>4. g.name \in (IF fellBack THEN {} ELSE Piping!Range(section.remove))
      BY <1>4, <2>2, <2>3 DEF Gated, Piping!Wired
    <2>5. QED
      BY <2>2, <2>4
  <1>5. ASSUME ~fellBack, NEW i \in DOMAIN section.configure, NEW f, f = section.configure[i],
               f.timeout # Nothing, ~(rebound /\ f.step = "module_lookup")
        PROVE  strategy.steps[strategy.index[f.step]].timeout = f.timeout
    <2>1. f \in Piping!Range(section.configure)
      BY <1>5 DEF Piping!Range
    <2>2. Timed(strategy.steps, f)
      BY <1>1, <1>2, <1>5, <2>1 DEF SectionInv
    <2>3. PICK j \in DOMAIN strategy.steps : strategy.steps[j].name = f.step /\ strategy.steps[j].timeout = f.timeout
      BY <2>2 DEF Timed
    <2>4. DOMAIN strategy.steps = 1 .. Len(strategy.steps)
      BY <1>2, StrategyIs
    <2>5. Piping!Holds(strategy, f.step)
      <3>1. ~Piping!Holds(strategy, f.step) => \A k \in 1 .. Len(strategy.steps) : strategy.steps[k].name # f.step
        BY <1>2, StrategyIs
      <3>2. QED
        BY <2>3, <2>4, <3>1
    <2>6. strategy.index[f.step] \in DOMAIN strategy.steps /\ strategy.steps[strategy.index[f.step]].name = f.step
      BY <1>2, <2>4, <2>5, StrategyIs
    <2>7. strategy.index[f.step] = j
      BY <1>3, <2>3, <2>6 DEF Piping!Repeats
    <2>8. QED
      BY <2>3, <2>7
  <1>6. QED
    BY <1>3, <1>4, <1>5 DEF Piping!SectionIsApplied

(* Whoever assembled, configured or edited the strategy that an executor   *)
(* runs, a gate that governance_state() counts as wired bites, and a       *)
(* section is applied as it reads (pipeline.rs, pipeline_config.rs,        *)
(* executor.rs); and whatever the bodies and the hooks of the steps do,    *)
(* the engine closes every layer it opened, runs no body twice or out of   *)
(* order, and traces the run as it was (pipeline.rs).                      *)
THEOREM PipelinesAreSound == Spec => []PipelineIsSound
  <1> DEFINE Kept == /\ focus = "strategy" => StrategyInv
                     /\ focus = "engine" => EngineInv
  <1>1. Init => Kept
    BY StrategyStarts, EngineStarts DEF Init
  <1>2. Kept /\ [Next]_vars => Kept'
    BY OneMoves, StrategyStep, EngineStep
  <1>3. Kept => PipelineIsSound
    BY ProtectionNow, SectionNow, EngineIsSound DEF PipelineIsSound, Piping!StrategyIsSound
  <1>4. QED
    <2> HIDE DEF Kept
    <2>1. QED
      BY <1>1, <1>2, <1>3, PTL DEF Spec
=============================================================================
