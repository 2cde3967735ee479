---------------------------- MODULE RegistryWatch ----------------------------
(***************************************************************************)
(* Hot reload of a Registry (src/src/registry/registry.rs): watch() and    *)
(* unwatch() over the slots of the watcher and of its task, the loop that  *)
(* gathers file events, the discoverer that is lent to one discovery at a  *)
(* time, and the extension roots.  What a batch does to one id is in       *)
(* Registry.                                                               *)
(***************************************************************************)
EXTENDS Naturals, Sequences, FiniteSets

CONSTANTS
  Watchers,      \* calls of watch(), and the watcher and loop of each
  Unwatchers,    \* calls of unwatch()
  Searches,      \* calls of discover_internal() or reload()
  FileEvents, Relevant,     \* events the platform reports, and those of the kinds looked at
  MaxReports,               \* bound: events of one watcher
  Discoverers, First,       \* discoverers, and the one set at first
  None

VARIABLES
  roots, explicit,          \* extension_roots, and whether set_extension_roots was called
  configuring,              \* set_extension_roots_from_config: "idle", "write", "done"
  watchCall, unwatchCall,   \* where each call stands
  watcherSlot, handleSlot,
  feed,                     \* the channel of each watcher
  watchLoop,                \* where each loop stands, and the paths of its burst
  discovererSlot, latest,   \* what the slot holds, and the last discoverer set
  lent,                     \* the discoverer each search or loop has taken
  marked,                   \* loops whose drain left its mark on an id
  reported, applied, missed \* the events each loop was sent, has applied, has given up

vars == <<roots, explicit, configuring, watchCall, unwatchCall, watcherSlot, handleSlot, feed, watchLoop,
          discovererSlot, latest, lent, marked, reported, applied, missed>>

Init ==
  /\ roots = "none" /\ explicit = FALSE /\ configuring = "idle"
  /\ watchCall = [w \in Watchers |-> "idle"] /\ unwatchCall = [u \in Unwatchers |-> "idle"]
  /\ watcherSlot = None /\ handleSlot = None
  /\ feed = [w \in Watchers |-> [open |-> FALSE, queue |-> <<>>]]
  /\ watchLoop = [w \in Watchers |-> [at |-> "none", paths |-> {}]]
  /\ discovererSlot = First /\ latest = First /\ lent = [x \in Watchers \cup Searches |-> None]
  /\ marked = {}
  /\ reported = [w \in Watchers |-> {}] /\ applied = reported /\ missed = reported

RootVars      == <<roots, explicit, configuring>>
WatchVars     == <<watchCall, unwatchCall, watcherSlot, handleSlot>>
SearchVars    == <<discovererSlot, latest, lent>>
EventVars     == <<reported, applied, missed>>

-----------------------------------------------------------------------------
(* The roots: explicit ones, and those of a config where none are set.     *)
SetExtensionRoots ==
  /\ ~explicit /\ explicit' = TRUE /\ roots' = "explicit"
  /\ UNCHANGED <<configuring, feed, watchLoop, marked, WatchVars, SearchVars, EventVars>>

RootsFromConfig ==
  /\ \/ configuring = "idle" /\ configuring' = (IF roots = "none" THEN "write" ELSE "done") /\ UNCHANGED roots
     \/ configuring = "write" /\ configuring' = "done" /\ roots' = "config"
  /\ UNCHANGED <<explicit, feed, watchLoop, marked, WatchVars, SearchVars, EventVars>>

-----------------------------------------------------------------------------
(* watch(): the slot is looked at, and written only when the watcher runs. *)
WatchCheck(w) ==
  /\ watchCall[w] = "idle"
  /\ watchCall' = [watchCall EXCEPT ![w] = IF watcherSlot # None THEN "done" ELSE "start"]
  /\ UNCHANGED <<unwatchCall, watcherSlot, handleSlot, feed, watchLoop, marked, RootVars, SearchVars, EventVars>>

(* Without roots there is nothing to watch; the platform may refuse.       *)
WatchStart(w) ==
  /\ watchCall[w] = "start"
  /\ \/ watchCall' = [watchCall EXCEPT ![w] = "done"] /\ UNCHANGED <<feed, watchLoop>>
     \/ /\ roots # "none"
        /\ watchCall' = [watchCall EXCEPT ![w] = "store"]
        /\ feed' = [feed EXCEPT ![w].open = TRUE]
        /\ watchLoop' = [watchLoop EXCEPT ![w].at = "waiting"]
  /\ UNCHANGED <<unwatchCall, watcherSlot, handleSlot, marked, RootVars, SearchVars, EventVars>>

(* The watcher in a slot is dropped when the slot is written: its channel  *)
(* closes.                                                                 *)
Dropped(w) == IF w = None THEN feed ELSE [feed EXCEPT ![w].open = FALSE]

WatchStore(w) ==
  /\ watchCall[w] = "store" /\ watchCall' = [watchCall EXCEPT ![w] = "handle"]
  /\ watcherSlot' = w /\ feed' = Dropped(watcherSlot)
  /\ UNCHANGED <<unwatchCall, handleSlot, watchLoop, marked, RootVars, SearchVars, EventVars>>

(* The handle that was in the slot is detached, its loop goes on.          *)
WatchHandle(w) ==
  /\ watchCall[w] = "handle" /\ watchCall' = [watchCall EXCEPT ![w] = "done"]
  /\ handleSlot' = w
  /\ UNCHANGED <<unwatchCall, watcherSlot, feed, watchLoop, marked, RootVars, SearchVars, EventVars>>

Unwatch(u) ==
  /\ unwatchCall[u] = "idle" /\ unwatchCall' = [unwatchCall EXCEPT ![u] = "abort"]
  /\ watcherSlot' = None /\ feed' = Dropped(watcherSlot)
  /\ UNCHANGED <<watchCall, handleSlot, watchLoop, marked, RootVars, SearchVars, EventVars>>

Restored(x) == IF lent[x] # None /\ discovererSlot = None THEN lent[x] ELSE discovererSlot

(* DiscovererRestoreGuard: the slot gets the discoverer back unless        *)
(* another one was set.                                                    *)
GiveBack(x) ==
  /\ discovererSlot' = Restored(x) /\ lent' = [lent EXCEPT ![x] = None]
  /\ UNCHANGED latest

(* The task is aborted at an await: its guards run, its drain leaves its   *)
(* mark.                                                                   *)
UnwatchAbort(u) ==
  /\ unwatchCall[u] = "abort" /\ unwatchCall' = [unwatchCall EXCEPT ![u] = "done"]
  /\ handleSlot' = None
  /\ IF handleSlot = None THEN UNCHANGED <<watchLoop, missed, SearchVars>>
     ELSE LET i == handleSlot IN
          /\ watchLoop' = [watchLoop EXCEPT ![i] = [at |-> "over", paths |-> {}]]
          /\ missed' = [missed EXCEPT ![i] = reported[i] \ applied[i]]
          /\ GiveBack(i)
  /\ UNCHANGED <<watchCall, watcherSlot, feed, marked, reported, applied, RootVars>>

-----------------------------------------------------------------------------
(* The platform reports an event to every open watcher, at most MaxReports *)
(* to each.                                                                *)
Report(e) ==
  LET told == {w \in Watchers : feed[w].open} IN
  /\ told # {} /\ \A w \in told : e \notin reported[w] /\ Cardinality(reported[w]) < MaxReports
  /\ feed' = [w \in Watchers |-> IF w \in told THEN [feed[w] EXCEPT !.queue = Append(@, e)] ELSE feed[w]]
  /\ reported' = [w \in Watchers |-> IF w \in told THEN reported[w] \cup {e} ELSE reported[w]]
  /\ UNCHANGED <<watchLoop, marked, applied, missed, RootVars, WatchVars, SearchVars>>

(* watch_loop: the first relevant event opens a burst, every event that    *)
(* comes before a pause belongs to it.                                     *)
Receive(i) ==
  /\ watchLoop[i].at \in {"waiting", "gathering"} /\ feed[i].queue # <<>>
  /\ feed' = [feed EXCEPT ![i].queue = Tail(@)]
  /\ watchLoop' = IF Head(feed[i].queue) \in Relevant
                  THEN [watchLoop EXCEPT ![i] = [at |-> "gathering", paths |-> @.paths \cup {Head(feed[i].queue)}]]
                  ELSE watchLoop
  /\ UNCHANGED <<marked, RootVars, WatchVars, SearchVars, EventVars>>

Loop(i, at) == watchLoop' = [watchLoop EXCEPT ![i] = [at |-> at, paths |-> IF at = "waiting" THEN {} ELSE @.paths]]
GiveUp(i)   == missed' = [missed EXCEPT ![i] = @ \cup watchLoop[i].paths] /\ Loop(i, "waiting")

(* run_discoverer takes the discoverer out of its slot; while another      *)
(* discovery has it there is none, and the batch is given up.              *)
Quiet(i) ==
  /\ watchLoop[i].at = "gathering" /\ feed[i].queue = <<>>
  /\ IF discovererSlot = None THEN GiveUp(i) /\ UNCHANGED SearchVars
     ELSE /\ lent' = [lent EXCEPT ![i] = discovererSlot] /\ discovererSlot' = None
          /\ Loop(i, "searching") /\ UNCHANGED <<latest, missed>>
  /\ UNCHANGED <<feed, marked, reported, applied, RootVars, WatchVars>>

Apply(i) == applied' = [applied EXCEPT ![i] = @ \cup watchLoop[i].paths] /\ Loop(i, "waiting")

(* The discovery fails, or the batch is applied at once, or it drains an   *)
(* id first.                                                               *)
Found(i) ==
  /\ watchLoop[i].at = "searching" /\ GiveBack(i)
  /\ \/ GiveUp(i) /\ UNCHANGED <<applied, marked>>
     \/ Apply(i) /\ UNCHANGED <<missed, marked>>
     \/ Loop(i, "draining") /\ marked' = marked \cup {i} /\ UNCHANGED <<applied, missed>>
  /\ UNCHANGED <<feed, reported, RootVars, WatchVars>>

(* The replacement behind the drain may still fail.                        *)
Drained(i) ==
  /\ watchLoop[i].at = "draining" /\ marked' = marked \ {i}
  /\ (Apply(i) /\ UNCHANGED missed) \/ (GiveUp(i) /\ UNCHANGED applied)
  /\ UNCHANGED <<feed, reported, RootVars, WatchVars, SearchVars>>

LoopEnds(i) ==
  /\ watchLoop[i].at = "waiting" /\ feed[i] = [open |-> FALSE, queue |-> <<>>]
  /\ Loop(i, "over")
  /\ UNCHANGED <<feed, marked, RootVars, WatchVars, SearchVars, EventVars>>

-----------------------------------------------------------------------------
SetDiscoverer(d) ==
  /\ d # latest /\ latest = First
  /\ discovererSlot' = d /\ latest' = d
  /\ UNCHANGED <<lent, feed, watchLoop, marked, RootVars, WatchVars, EventVars>>

(* discover_internal and reload; without a discoverer they refuse.         *)
Search(s) ==
  /\ lent[s] = None /\ discovererSlot # None
  /\ lent' = [lent EXCEPT ![s] = discovererSlot] /\ discovererSlot' = None
  /\ UNCHANGED <<latest, feed, watchLoop, marked, RootVars, WatchVars, EventVars>>

SearchEnds(s) ==
  /\ lent[s] # None /\ GiveBack(s)
  /\ UNCHANGED <<feed, watchLoop, marked, RootVars, WatchVars, EventVars>>

Next ==
  \/ SetExtensionRoots \/ RootsFromConfig
  \/ \E w \in Watchers :
       \/ WatchCheck(w) \/ WatchStart(w) \/ WatchStore(w) \/ WatchHandle(w)
       \/ Receive(w) \/ Quiet(w) \/ Found(w) \/ Drained(w) \/ LoopEnds(w)
  \/ \E u \in Unwatchers : Unwatch(u) \/ UnwatchAbort(u)
  \/ \E e \in FileEvents : Report(e)
  \/ \E d \in Discoverers : SetDiscoverer(d)
  \/ \E s \in Searches : Search(s) \/ SearchEnds(s)

-----------------------------------------------------------------------------
(* No watcher reports behind the back of unwatch(): one that does is in    *)
(* the slot or about to be put there, whatever calls of watch() overlap.   *)
WatchersAreHeld ==
  \A w \in Watchers : feed[w].open => watcherSlot = w \/ watchCall[w] = "store"

(* Every relevant event a loop was sent waits, is in its burst, was        *)
(* applied, or was given up for a failed or refused discovery or an abort. *)
EventsAccounted ==
  \A w \in Watchers : \A e \in reported[w] \cap Relevant :
    \/ \E i \in DOMAIN feed[w].queue : feed[w].queue[i] = e
    \/ e \in watchLoop[w].paths \cup applied[w] \cup missed[w]

(* The discoverer is in its slot or lent, whatever discovery failed or was *)
(* aborted.                                                                *)
DiscovererKept == discovererSlot # None \/ \E x \in DOMAIN lent : lent[x] # None

WatchIsSound == WatchersAreHeld /\ EventsAccounted /\ DiscovererKept

(* Observations, not checked: a discoverer set during two discoveries may  *)
(* be lost to the older one, roots of a config may overwrite explicit ones *)
(* set between its look and its write, an aborted drain keeps refusing     *)
(* acquire(), and an event is missed when another discovery runs.          *)
NewestWins       == (\A x \in DOMAIN lent : lent[x] = None) => discovererSlot = latest
ExplicitWins     == explicit /\ configuring # "write" => roots = "explicit"
MarksAreTaken    == \A i \in marked : watchLoop[i].at = "draining"
NothingMissed    == \A w \in Watchers : unwatchCall = [u \in Unwatchers |-> "idle"] => missed[w] = {}
=============================================================================
