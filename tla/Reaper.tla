------------------------------- MODULE Reaper -------------------------------
(***************************************************************************)
(* The control of the background reaper of AsyncTaskManager                *)
(* (src/src/async_task.rs): start_reaper, stop_reaper, ReaperHandle::stop  *)
(* and a dropped handle, around one `running` flag and one slot for the    *)
(* stop sender.  A step is one atomic operation, one lock or one await.    *)
(* What a sweep deletes is part of AsyncTasks.                             *)
(***************************************************************************)
EXTENDS Naturals, FiniteSets

CONSTANTS
  Reapers,      \* the calls of start_reaper, and the loops they spawn
  NoReaper,
  Disciplined   \* one control call at a time, and stop() only on the handle
                \* of a reaper that stop_reaper has not stopped already

VARIABLES
  running,   \* reaper_running
  slot,      \* reaper_stop: whose sender it holds
  told,      \* reapers whose channel holds true
  starting,  \* where each start_reaper is
  handle,    \* where the ReaperHandle is
  loop,      \* where the sweep loop is
  stopper    \* where the call of stop_reaper is

vars == <<running, slot, told, starting, handle, loop, stopper>>

Init ==
  /\ running = FALSE /\ slot = NoReaper /\ told = {}
  /\ starting = [r \in Reapers |-> "idle"]
  /\ handle = [r \in Reapers |-> "none"]
  /\ loop = [r \in Reapers |-> "none"]
  /\ stopper = "idle"

Live(r) == loop[r] \in {"waiting", "sweeping"}

(* No other control call is under way.                                     *)
Calm ==
  /\ stopper = "idle"
  /\ \A r \in Reapers : /\ starting[r] \in {"idle", "returned"}
                        /\ handle[r] \in {"none", "held", "gone"}

(* The channel of a live loop still has a sender.                          *)
HasSender(r) ==
  \/ starting[r] = "spawned" \/ slot = r
  \/ handle[r] \in {"held", "joining", "clearing", "flag"}

-----------------------------------------------------------------------------
(* start_reaper: the compare-and-swap, the spawned loop, the slot.         *)
StartReaper(r) ==
  /\ starting[r] = "idle" /\ (Disciplined => Calm)
  /\ starting' = [starting EXCEPT ![r] = IF running THEN "returned" ELSE "won"]
  /\ running' = TRUE
  /\ UNCHANGED <<slot, told, handle, loop, stopper>>

SpawnLoop(r) ==
  /\ starting[r] = "won"
  /\ starting' = [starting EXCEPT ![r] = "spawned"]
  /\ loop' = [loop EXCEPT ![r] = "waiting"]
  /\ UNCHANGED <<running, slot, told, handle, stopper>>

StoreSender(r) ==
  /\ starting[r] = "spawned"
  /\ starting' = [starting EXCEPT ![r] = "returned"]
  /\ slot' = r
  /\ handle' = [handle EXCEPT ![r] = "held"]
  /\ UNCHANGED <<running, told, loop, stopper>>

-----------------------------------------------------------------------------
(* stop_reaper takes the sender and signals, then clears the flag.         *)
StopReaper ==
  /\ stopper = "idle" /\ (Disciplined => Calm)
  /\ stopper' = "taken"
  /\ told' = told \cup ({slot} \ {NoReaper})
  /\ slot' = NoReaper
  /\ UNCHANGED <<running, starting, handle, loop>>

StopReaperClears ==
  /\ stopper = "taken" /\ stopper' = "idle"
  /\ running' = FALSE
  /\ UNCHANGED <<slot, told, starting, handle, loop>>

(* ReaperHandle::stop signals, joins the loop, takes the slot, clears.     *)
HandleStop(r) ==
  /\ handle[r] = "held" /\ (Disciplined => Calm /\ r \notin told)
  /\ handle' = [handle EXCEPT ![r] = "joining"]
  /\ told' = told \cup {r}
  /\ UNCHANGED <<running, slot, starting, loop, stopper>>

HandleJoined(r) ==
  /\ handle[r] = "joining" /\ loop[r] = "over"
  /\ handle' = [handle EXCEPT ![r] = "clearing"]
  /\ UNCHANGED <<running, slot, told, starting, loop, stopper>>

HandleTakesSlot(r) ==
  /\ handle[r] = "clearing"
  /\ handle' = [handle EXCEPT ![r] = "flag"]
  /\ slot' = NoReaper
  /\ UNCHANGED <<running, told, starting, loop, stopper>>

HandleClears(r) ==
  /\ handle[r] = "flag"
  /\ handle' = [handle EXCEPT ![r] = "gone"]
  /\ running' = FALSE
  /\ UNCHANGED <<slot, told, starting, loop, stopper>>

(* Mutant: dropping the handle clears the flag.                            *)
DropClearsFlag(r) ==
  /\ handle[r] = "held" /\ (Disciplined => Calm)
  /\ handle' = [handle EXCEPT ![r] = "gone"]
  /\ running' = FALSE
  /\ UNCHANGED <<slot, told, starting, loop, stopper>>

(* There is no Drop: the loop is detached and the flag stays.              *)
DropHandle(r) ==
  /\ handle[r] = "held" /\ (Disciplined => Calm)
  /\ handle' = [handle EXCEPT ![r] = "gone"]
  /\ UNCHANGED <<running, slot, told, starting, loop, stopper>>

-----------------------------------------------------------------------------
(* The loop: a biased select on the stop channel and the interval.  With   *)
(* all senders gone changed() fails at once, each time: it never sweeps.   *)
Sweep(r) ==
  /\ loop[r] = "waiting" /\ r \notin told /\ HasSender(r)
  /\ loop' = [loop EXCEPT ![r] = "sweeping"]
  /\ UNCHANGED <<running, slot, told, starting, handle, stopper>>

SweepEnds(r) ==
  /\ loop[r] = "sweeping"
  /\ loop' = [loop EXCEPT ![r] = "waiting"]
  /\ UNCHANGED <<running, slot, told, starting, handle, stopper>>

LoopEnds(r) ==
  /\ loop[r] = "waiting" /\ r \in told
  /\ loop' = [loop EXCEPT ![r] = "over"]
  /\ UNCHANGED <<running, slot, told, starting, handle, stopper>>

Next ==
  \/ StopReaper \/ StopReaperClears
  \/ \E r \in Reapers :
       \/ StartReaper(r) \/ SpawnLoop(r) \/ StoreSender(r)
       \/ HandleStop(r) \/ HandleJoined(r) \/ HandleTakesSlot(r) \/ HandleClears(r)
       \/ DropHandle(r)
       \/ Sweep(r) \/ SweepEnds(r) \/ LoopEnds(r)

Spec == Init /\ [][Next]_vars

-----------------------------------------------------------------------------
(* At most one loop runs that was not told to stop, it is the one that     *)
(* stop_reaper reaches through the slot, its channel still has a sender,   *)
(* and the flag keeps other reapers from starting.                         *)
OneReaper ==
  \A r \in Reapers : Live(r) /\ r \notin told =>
    /\ running /\ HasSender(r)
    /\ starting[r] = "returned" => slot = r
    /\ \A q \in Reapers : Live(q) /\ q \notin told => q = r
=============================================================================
