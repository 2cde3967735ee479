------------------------- MODULE CancelTokensProofs -------------------------
(***************************************************************************)
(* Proofs about CancelTokens, for any tree of scopes, any executions and   *)
(* any callers, however their steps overlap.                               *)
(***************************************************************************)
EXTENDS CancelTokens, TLAPS

USE TokensOK DEF TokensOK, CallerPcs, Goto

Working == {"flag", "mark", "send", "enable", "check", "wait"}

(* A caller at work has a scope; a registration that is being dropped has  *)
(* a scope left to leave.                                                  *)
Placed ==
  /\ \A c \in Callers : pc[c] \in Working => scope[c] # None
  /\ \A e \in Executions : task[e] \in {"removing", "notifying"} => leaving[e] # None

(* A record of a scope under abort is asked, unless the abort has yet to   *)
(* go through the records.                                                 *)
RecordAsked(s, e) == <<s, e>> \in asked \/ \E c \in Callers : scope[c] = s /\ pc[c] = "mark"
AllAsked == \A s \in abortFlag, e \in Executions : <<s, e>> \in records => RecordAsked(s, e)

(* An execution has no task before it is launched, and keeps one after.    *)
Launched ==
  /\ \A e \in Executions : spawner[e] # "attach" => task[e] = "none"
  /\ \A c \in Callers : \A e \in due[c] : task[e] # "none"

(* What a drain owes: those still running are in the records it looks at.  *)
Owed ==
  \A c \in Callers : pc[c] \in Working =>
    \A e \in due[c] : task[e] = "running" => <<scope[c], e>> \in records

Types == TypeOK /\ Placed

-----------------------------------------------------------------------------
(* Types.                                                                  *)

LEMMA InitTypes == Init => Types
  BY DEF Init, Types, TypeOK, Placed, Working

LEMMA SpawningTypes ==
  ASSUME Types, NEW e \in Executions, Spawning(e)
  PROVE  Types'
  <1>1. CASE Spawn(e)
    BY <1>1 DEF Types, TypeOK, Placed, Working, Spawn, books, tasks, calls
  <1>2. CASE Insert(e)
    BY <1>2 DEF Types, TypeOK, Placed, Working, Insert, tasks, calls
  <1>3. CASE Launch(e)
    BY <1>3 DEF Types, TypeOK, Placed, Working, Launch, books, calls
  <1>4. CASE Attach(e)
    BY <1>4 DEF Types, TypeOK, Placed, Working, Attach, tasks, calls
  <1>5. QED
    BY <1>1, <1>2, <1>3, <1>4 DEF Spawning

LEMMA EndingTypes ==
  ASSUME Types, NEW e \in Executions, Ending(e)
  PROVE  Types'
  <1>1. CASE End(e)
    BY <1>1 DEF Types, TypeOK, Placed, Working, End, books, spawns, calls
  <1>2. CASE Remove(e)
    BY <1>2 DEF Types, TypeOK, Placed, Working, Remove, spawns, calls
  <1>3. CASE NotifyWaiters(e)
    BY <1>3 DEF Types, TypeOK, Placed, Working, NotifyWaiters, books, spawns
  <1>4. QED
    BY <1>1, <1>2, <1>3 DEF Ending

LEMMA CallerTypes ==
  ASSUME Types, NEW c \in Callers,
         (\E s \in Scopes : Call(c, s)) \/ Aborting(c) \/ Draining(c) \/ Dropped(c)
  PROVE  Types'
  <1>1. ASSUME NEW s \in Scopes, Call(c, s) PROVE Types'
    BY <1>1 DEF Types, TypeOK, Placed, Working, Call, books, spawns, tasks
  <1>2. CASE SetFlag(c)
    BY <1>2 DEF Types, TypeOK, Placed, Working, SetFlag, books, spawns, tasks
  <1>3. CASE Mark(c)
    BY <1>3 DEF Types, TypeOK, Placed, Working, Mark, spawns, tasks
  <1>4. CASE Send(c)
    BY <1>4 DEF Types, TypeOK, Placed, Working, Send, books, spawns, tasks
  <1>5. CASE Enable(c)
    BY <1>5 DEF Types, TypeOK, Placed, Working, Enable, books, spawns, tasks
  <1>6. CASE Check(c)
    BY <1>6 DEF Types, TypeOK, Placed, Working, Check, books, spawns, tasks
  <1>7. CASE Return(c)
    BY <1>7 DEF Types, TypeOK, Placed, Working, Return, books, spawns, tasks
  <1>8. CASE Wake(c)
    BY <1>8 DEF Types, TypeOK, Placed, Working, Wake, books, spawns, tasks
  <1>9. CASE Dropped(c)
    BY <1>9 DEF Types, TypeOK, Placed, Working, Dropped, books, spawns, tasks
  <1>10. QED
    BY <1>1, <1>2, <1>3, <1>4, <1>5, <1>6, <1>7, <1>8, <1>9 DEF Aborting, Draining

(* Every step keeps the types.                                             *)
LEMMA StepTypes == Types /\ [Next]_vars => Types'
  <1>1. SUFFICES ASSUME Types, [Next]_vars PROVE Types'
    OBVIOUS
  <1>2. CASE UNCHANGED vars
    BY <1>1, <1>2 DEF Types, TypeOK, Placed, Working, vars, books, spawns, tasks, calls
  <1>3. CASE Next
    BY <1>1, <1>3, SpawningTypes, EndingTypes, CallerTypes DEF Next
  <1>4. QED
    BY <1>1, <1>2, <1>3

(* Type correctness of cancel.rs's bookkeeping: records, handles, tasks    *)
(* and callers stay well typed, whatever the tree of tokens.               *)
THEOREM TypesHold == Spec => []TypeOK
  <1>1. Types => TypeOK
    BY DEF Types
  <1>2. QED
    BY <1>1, InitTypes, StepTypes, PTL DEF Spec

-----------------------------------------------------------------------------
(* Aborts.                                                                 *)

AbortInv == AllAsked /\ AbortReaches

LEMMA SpawningAborts ==
  ASSUME Types, AbortInv, NEW e \in Executions, Spawning(e) \/ Ending(e)
  PROVE  AbortInv'
  <1> USE DEF AbortInv, AllAsked, RecordAsked, AbortReaches
  <1>1. CASE Spawn(e)
    BY <1>1 DEF Spawn, books, calls
  <1>2. CASE Insert(e)
    BY <1>2 DEF Insert, calls
  <1>3. CASE Launch(e)
    BY <1>3 DEF Launch, books, calls
  <1>4. CASE Attach(e)
    BY <1>4 DEF Attach, calls, Types, TypeOK
  <1>5. CASE End(e)
    BY <1>5 DEF End, books, calls
  <1>6. CASE Remove(e)
    BY <1>6 DEF Remove, calls
  <1>7. CASE NotifyWaiters(e)
    BY <1>7 DEF NotifyWaiters, books
  <1>8. QED
    BY <1>1, <1>2, <1>3, <1>4, <1>5, <1>6, <1>7 DEF Spawning, Ending

LEMMA CallerAborts ==
  ASSUME Types, AbortInv, NEW c \in Callers,
         (\E s \in Scopes : Call(c, s)) \/ Aborting(c) \/ Draining(c) \/ Dropped(c)
  PROVE  AbortInv'
  <1> USE DEF AbortInv, AllAsked, RecordAsked, AbortReaches, Types, TypeOK
  <1>1. ASSUME NEW s \in Scopes, Call(c, s) PROVE AbortInv'
    BY <1>1 DEF Call, books, spawns, tasks
  <1>2. CASE SetFlag(c)
    BY <1>2 DEF SetFlag, books, spawns, tasks
  <1>3. CASE Mark(c)
    BY <1>3 DEF Mark, spawns, tasks
  <1>4. CASE Send(c)
    BY <1>4 DEF Send, books, spawns, tasks
  <1>5. CASE Enable(c)
    BY <1>5 DEF Enable, books, spawns, tasks
  <1>6. CASE Check(c)
    BY <1>6 DEF Check, books, spawns, tasks
  <1>7. CASE Return(c)
    BY <1>7 DEF Return, books, spawns, tasks
  <1>8. CASE Wake(c)
    BY <1>8 DEF Wake, books, spawns, tasks
  <1>9. CASE Dropped(c)
    BY <1>9 DEF Dropped, books, spawns, tasks
  <1>10. QED
    BY <1>1, <1>2, <1>3, <1>4, <1>5, <1>6, <1>7, <1>8, <1>9 DEF Aborting, Draining

(* abort_owned_executions misses nobody: an execution that is fully        *)
(* registered in a scope under abort has been told, or the abort that has  *)
(* its handle is about to tell it.                                         *)
THEOREM NobodySlips == Spec => []AbortReaches
  <1>1. Init => AbortInv
    BY DEF Init, AbortInv, AllAsked, AbortReaches
  <1>2. Types /\ AbortInv /\ [Next]_vars => AbortInv'
    <2>1. SUFFICES ASSUME Types, AbortInv, [Next]_vars PROVE AbortInv'
      OBVIOUS
    <2>2. CASE UNCHANGED vars
      BY <2>1, <2>2 DEF AbortInv, AllAsked, RecordAsked, AbortReaches, vars, books, spawns, tasks, calls
    <2>3. CASE Next
      BY <2>1, <2>3, SpawningAborts, CallerAborts DEF Next
    <2>4. QED
      BY <2>1, <2>2, <2>3
  <1>3. AbortInv => AbortReaches
    BY DEF AbortInv
  <1>4. QED
    BY <1>1, <1>2, <1>3, InitTypes, StepTypes, PTL DEF Spec

-----------------------------------------------------------------------------
(* Drains.                                                                 *)

DrainInv == Launched /\ Owed /\ DrainIsPhysical

LEMMA SpawningDrains ==
  ASSUME Types, DrainInv, NEW e \in Executions, Spawning(e) \/ Ending(e)
  PROVE  DrainInv'
  <1> USE DEF DrainInv, Launched, Owed, DrainIsPhysical, Working, Types, TypeOK
  <1>1. CASE Spawn(e)
    BY <1>1 DEF Spawn, books, tasks, calls
  <1>2. CASE Insert(e)
    BY <1>2 DEF Insert, tasks, calls
  <1>3. CASE Launch(e)
    BY <1>3 DEF Launch, books, calls
  <1>4. CASE Attach(e)
    BY <1>4 DEF Attach, tasks, calls
  <1>5. CASE End(e)
    BY <1>5 DEF End, books, spawns, calls
  <1>6. CASE Remove(e)
    BY <1>6 DEF Remove, spawns, calls
  <1>7. CASE NotifyWaiters(e)
    BY <1>7 DEF NotifyWaiters, books, spawns
  <1>8. QED
    BY <1>1, <1>2, <1>3, <1>4, <1>5, <1>6, <1>7 DEF Spawning, Ending

LEMMA CallerDrains ==
  ASSUME Types, DrainInv, NEW c \in Callers,
         (\E s \in Scopes : Call(c, s)) \/ Aborting(c) \/ Draining(c) \/ Dropped(c)
  PROVE  DrainInv'
  <1> USE DEF DrainInv, Launched, Owed, DrainIsPhysical, Working, Types, TypeOK
  <1>1. ASSUME NEW s \in Scopes, Call(c, s) PROVE DrainInv'
    BY <1>1 DEF Call, books, spawns, tasks
  <1>2. CASE SetFlag(c)
    BY <1>2 DEF SetFlag, books, spawns, tasks
  <1>3. CASE Mark(c)
    BY <1>3 DEF Mark, spawns, tasks
  <1>4. CASE Send(c)
    BY <1>4 DEF Send, books, spawns, tasks
  <1>5. CASE Enable(c)
    BY <1>5 DEF Enable, books, spawns, tasks
  <1>6. CASE Check(c)
    BY <1>6 DEF Check, books, spawns, tasks
  <1>7. CASE Return(c)
    BY <1>7 DEF Return, Empty, books, spawns, tasks
  <1>8. CASE Wake(c)
    BY <1>8 DEF Wake, books, spawns, tasks
  <1>9. CASE Dropped(c)
    BY <1>9 DEF Dropped, books, spawns, tasks
  <1>10. QED
    BY <1>1, <1>2, <1>3, <1>4, <1>5, <1>6, <1>7, <1>8, <1>9 DEF Aborting, Draining

(* drain() is physical: when it returns, the executions that ran in its    *)
(* scope have dropped what their modules owned.                            *)
THEOREM DrainWaits == Spec => []DrainIsPhysical
  <1>1. Init => DrainInv
    BY DEF Init, DrainInv, Launched, Owed, DrainIsPhysical, Working
  <1>2. Types /\ DrainInv /\ [Next]_vars => DrainInv'
    <2>1. SUFFICES ASSUME Types, DrainInv, [Next]_vars PROVE DrainInv'
      OBVIOUS
    <2>2. CASE UNCHANGED vars
      BY <2>1, <2>2 DEF DrainInv, Launched, Owed, DrainIsPhysical, Working, vars, books, spawns, tasks, calls
    <2>3. CASE Next
      BY <2>1, <2>3, SpawningDrains, CallerDrains DEF Next
    <2>4. QED
      BY <2>1, <2>2, <2>3
  <1>3. DrainInv => DrainIsPhysical
    BY DEF DrainInv
  <1>4. QED
    BY <1>1, <1>2, <1>3, InitTypes, StepTypes, PTL DEF Spec
=============================================================================
