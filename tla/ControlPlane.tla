---------------------------- MODULE ControlPlane ----------------------------
(***************************************************************************)
(* The control plane (sys_modules): register_sys_modules at start-up, then *)
(* update_config, toggle_feature and reload_module called concurrently,    *)
(* the overrides they persist, the events and audit entries they leave,    *)
(* and a crash of the process between any two steps.  A cell is what an    *)
(* override is about: <<"config", key>> or <<"toggle", module>>.           *)
(***************************************************************************)
EXTENDS Integers, Sequences, FiniteSets

CONSTANTS
  ControlCalls,
  Asks,            \* the requests a call may make
  Keys, Base,      \* the configuration keys, and their values on disk (Nothing if none)
  Legal(_, _),     \* validate_key_constraint accepts the value for the key
  Restricted,      \* RESTRICTED_KEYS
  Sensitive,       \* the keys is_sensitive_key recognises
  Truthy,          \* the values that read as true
  Plain,           \* the registered modules that are not system modules
  DependsOn,
  TakenGroups,     \* the groups whose module ids are taken already
  Persistences, Strictness,  \* the options of register_sys_modules
  MaxStarts,
  Nothing, Null, Masked      \* no value, JSON null, the redaction sentinel

VARIABLES
  process,     \* [up, persistence, strict, starts]
  live,        \* the shared Config: key -> value
  overrides,   \* the file, or the store: cell -> value
  disabled,    \* ToggleState
  loaded,      \* the registered modules: which instance of each
  installed,   \* the groups of system modules that are registered
  desk,        \* the calls
  trail, wire, \* the audit entries, the events
  lineage,     \* history: the values a key had, in order
  refreshed,   \* history: cells whose live value a config reload took back
  bereft       \* history: modules whose restoration was refused

vars == <<process, live, overrides, disabled, loaded, installed, desk, trail, wire, lineage,
          refreshed, bereft>>

IdleCall == [at |-> "idle", ask |-> [op |-> "none"], before |-> Nothing, copy |-> <<>>, wrote |-> FALSE,
             earlier |-> {}, todo |-> {}, gone |-> {}, kept |-> <<>>, back |-> {}]

Cells == ({"config"} \X Keys) \cup ({"toggle"} \X Plain)
Writers == {c \in ControlCalls : desk[c].ask.op \in {"update", "toggle"}}
On_(cell) == {c \in Writers : desk[c].ask.cell = cell}
Ended == {"done", "failed", "lost"}
Insert(map, cell, value) == [x \in DOMAIN map \cup {cell} |-> IF x = cell THEN value ELSE map[x]]

(* is_sensitive_key and the redaction of old and new value.                *)
Shown(cell, value) == IF cell[1] = "config" /\ cell[2] \in Sensitive THEN Masked ELSE value

Step(c, record) == desk' = [desk EXCEPT ![c] = record]
Go(c, place) == Step(c, [desk[c] EXCEPT !.at = place])

(* load_overrides: unchecked, over the base configuration.                 *)
Restored(config, saved) ==
  [k \in Keys |-> IF <<"config", k>> \in DOMAIN saved THEN saved[<<"config", k>>] ELSE config[k]]
RestoredToggles(saved) ==
  {m \in Plain : <<"toggle", m>> \in DOMAIN saved /\ saved[<<"toggle", m>>] \notin Truthy}

(* The group flags narrow, `events` activates the control modules; both    *)
(* are read after the overrides, `enabled` before them.                    *)
Flag(config, key) == config[key] = Nothing \/ config[key] \in Truthy
Groups == <<"health", "manifest", "usage", "control">>
Selected(config) ==
  SelectSeq(Groups, LAMBDA g : /\ g \in Keys => Flag(config, g)
                               /\ g = "control" => config["events"] \in Truthy)

(* register_internal of each; fail_on_error stops at the first refusal and *)
(* leaves what was registered before it.                                   *)
Installable(selected, strict) ==
  LET refused == {i \in DOMAIN selected : selected[i] \in TakenGroups}
  IN {selected[i] : i \in {j \in DOMAIN selected \ refused : strict => \A r \in refused : j < r}}

Init ==
  /\ process = [up |-> FALSE, persistence |-> "none", strict |-> FALSE, starts |-> 0]
  /\ live = [k \in Keys |-> Nothing] /\ overrides = <<>> /\ disabled = {}
  /\ loaded = [m \in Plain |-> "absent"] /\ installed = {}
  /\ desk = [c \in ControlCalls |-> IdleCall]
  /\ trail = {} /\ wire = {}
  /\ lineage = [k \in Keys |-> <<>>] /\ refreshed = {} /\ bereft = {}

RegisterSysModules(persistence, strict) ==
  LET saved == IF persistence = "file" THEN overrides ELSE <<>>
      config == IF Base["enabled"] \in Truthy THEN Restored(Base, saved) ELSE Base
  IN
  /\ ~process.up /\ process.starts < MaxStarts
  /\ process.starts > 0 => persistence = process.persistence /\ strict = process.strict
  /\ process' = [up |-> TRUE, persistence |-> persistence, strict |-> strict, starts |-> process.starts + 1]
  /\ live' = config
  /\ disabled' = IF Base["enabled"] \in Truthy THEN RestoredToggles(saved) ELSE {}
  /\ installed' = IF Base["enabled"] \in Truthy THEN Installable(Selected(config), strict) ELSE {}
  /\ loaded' = [m \in Plain |-> "original"]
  /\ lineage' = [k \in Keys |-> <<config[k]>>] /\ refreshed' = {} /\ bereft' = {}
  /\ UNCHANGED <<overrides, desk, trail, wire>>

(* Everything but the file is gone.                                        *)
Crash ==
  /\ process.up /\ process.persistence = "file"
  /\ process' = [process EXCEPT !.up = FALSE]
  /\ desk' = [c \in ControlCalls |-> IF desk[c].at \in Ended \cup {"idle"} THEN desk[c]
                                     ELSE [desk[c] EXCEPT !.at = "lost"]]
  /\ installed' = {}
  /\ UNCHANGED <<live, overrides, disabled, loaded, trail, wire, lineage, refreshed, bereft>>

(* execute of the three modules: the answer to a bad request comes first.  *)
Refusable(ask) ==
  \/ ask.op = "update" /\ ask.cell[2] \in Restricted
  \/ ask.op = "toggle" /\ loaded[ask.cell[2]] = "absent"
  \/ ask.op = "reload" /\ ask.modules = {} /\ ~ask.refresh

Begin(c, ask) ==
  /\ desk[c].at = "idle" /\ "control" \in installed
  /\ Step(c, [IdleCall EXCEPT
       !.ask = ask,
       !.earlier = IF ask.op = "reload" THEN {} ELSE {d \in On_(ask.cell) : desk[d].at \in Ended},
       !.at = CASE Refusable(ask) -> "failed"
                [] ask.op = "reload" -> IF ask.refresh THEN "refresh" ELSE "match"
                [] OTHER -> "set"])
  /\ UNCHANGED <<process, live, overrides, disabled, loaded, installed, trail, wire, lineage, refreshed, bereft>>

Persisting == CASE process.persistence = "file" -> "write"
                [] process.persistence = "store" -> "load"
                [] OTHER -> "notify"

(* Mutant: the old value is read before the lock is taken to write.        *)
UpdateReadsEarly(c) ==
  LET key == desk[c].ask.cell[2] IN
  /\ desk[c].at = "set" /\ desk[c].ask.op = "update" /\ Legal(key, desk[c].ask.value)
  /\ IF desk[c].before = Nothing
     THEN Step(c, [desk[c] EXCEPT !.before = live[key]]) /\ UNCHANGED <<live, lineage>>
     ELSE /\ live' = [live EXCEPT ![key] = desk[c].ask.value]
          /\ lineage' = [lineage EXCEPT ![key] = Append(@, desk[c].ask.value)]
          /\ Go(c, Persisting)
  /\ UNCHANGED <<process, overrides, disabled, loaded, installed, trail, wire, refreshed, bereft>>

(* update_config under the configuration's lock: read, set, check, and set *)
(* back; where there was no value, null stays.                             *)
Update(c) ==
  LET key == desk[c].ask.cell[2]
      value == desk[c].ask.value
      after == IF Legal(key, value) THEN value ELSE IF live[key] = Nothing THEN Null ELSE live[key]
  IN
  /\ desk[c].at = "set" /\ desk[c].ask.op = "update"
  /\ live' = [live EXCEPT ![key] = after]
  /\ lineage' = [lineage EXCEPT ![key] = IF after = live[key] /\ ~Legal(key, value) THEN @ ELSE Append(@, after)]
  /\ refreshed' = IF Legal(key, value) THEN refreshed \ {desk[c].ask.cell} ELSE refreshed
  /\ Step(c, [desk[c] EXCEPT !.before = live[key],
                             !.at = IF Legal(key, value) THEN Persisting ELSE "failed"])
  /\ UNCHANGED <<process, overrides, disabled, loaded, installed, trail, wire, bereft>>

(* toggle_feature reads and writes the toggles in two accesses.            *)
ReadToggle(c) ==
  /\ desk[c].at = "set" /\ desk[c].ask.op = "toggle"
  /\ Step(c, [desk[c] EXCEPT !.before = IF desk[c].ask.cell[2] \in disabled THEN "false" ELSE "true", !.at = "toggle"])
  /\ UNCHANGED <<process, live, overrides, disabled, loaded, installed, trail, wire, lineage, refreshed, bereft>>

Toggle(c) ==
  LET m == desk[c].ask.cell[2] IN
  /\ desk[c].at = "toggle" /\ Go(c, Persisting)
  /\ disabled' = IF desk[c].ask.value \in Truthy THEN disabled \ {m} ELSE disabled \cup {m}
  /\ UNCHANGED <<process, live, overrides, loaded, installed, trail, wire, lineage, refreshed, bereft>>

(* write_override: the whole file under the lock of its path, replaced at  *)
(* once; an error is logged and the call goes on.                          *)
WriteOverride(c) ==
  /\ desk[c].at = "write"
  /\ \E wrote \in BOOLEAN :
       /\ overrides' = IF wrote THEN Insert(overrides, desk[c].ask.cell, desk[c].ask.value) ELSE overrides
       /\ Step(c, [desk[c] EXCEPT !.wrote = wrote, !.at = "notify"])
  /\ UNCHANGED <<process, live, disabled, loaded, installed, trail, wire, lineage, refreshed, bereft>>

(* persist_one through a store: its load and its save are two calls, and a *)
(* failing load counts as empty.                                           *)
LoadStore(c) ==
  /\ desk[c].at = "load"
  /\ \E map \in {overrides, <<>>} : Step(c, [desk[c] EXCEPT !.copy = map, !.at = "save"])
  /\ UNCHANGED <<process, live, overrides, disabled, loaded, installed, trail, wire, lineage, refreshed, bereft>>

SaveStore(c) ==
  /\ desk[c].at = "save"
  /\ \E wrote \in BOOLEAN :
       /\ overrides' = IF wrote THEN Insert(desk[c].copy, desk[c].ask.cell, desk[c].ask.value) ELSE overrides
       /\ Step(c, [desk[c] EXCEPT !.wrote = wrote, !.copy = <<>>, !.at = "notify"])
  /\ UNCHANGED <<process, live, disabled, loaded, installed, trail, wire, lineage, refreshed, bereft>>

Report(c, target, before, after) == [call |-> c, target |-> target, before |-> before, after |-> after]
Change(c) ==
  LET ask == desk[c].ask IN Report(c, ask.cell, Shown(ask.cell, desk[c].before), Shown(ask.cell, ask.value))

Notify(c) ==
  /\ desk[c].at = "notify"
  /\ wire' = wire \cup {Change(c)} /\ Go(c, "audit")
  /\ UNCHANGED <<process, live, overrides, disabled, loaded, installed, trail, lineage, refreshed, bereft>>

RecordAudit(c) ==
  /\ desk[c].at = "audit"
  /\ trail' = trail \cup {Change(c)} /\ Go(c, "done")
  /\ UNCHANGED <<process, live, overrides, disabled, loaded, installed, wire, lineage, refreshed, bereft>>

(* reload_module.  reload_config first: the file as it is, without the     *)
(* overrides; a failure is logged.                                         *)
Refresh(c) ==
  /\ desk[c].at = "refresh"
  /\ \/ /\ live' = Base /\ lineage' = [k \in Keys |-> Append(lineage[k], Base[k])]
        /\ refreshed' = refreshed \cup ({"config"} \X Keys)
        /\ wire' = wire \cup {Report(c, <<"config">>, Nothing, Nothing)}
     \/ UNCHANGED <<live, lineage, refreshed, wire>>
  /\ Go(c, IF desk[c].ask.modules = {} THEN "done" ELSE "match")
  /\ UNCHANGED <<process, overrides, disabled, loaded, installed, trail, bereft>>

(* execute_bulk: the registered modules that match, and their instances.   *)
Match(c) ==
  LET found == {m \in desk[c].ask.modules : loaded[m] # "absent"} IN
  /\ desk[c].at = "match"
  /\ Step(c, [desk[c] EXCEPT !.todo = found, !.kept = [m \in found |-> loaded[m]], !.at = "withdraw"])
  /\ UNCHANGED <<process, live, overrides, disabled, loaded, installed, trail, wire, lineage, refreshed, bereft>>

(* Dependencies before dependents; a cycle is taken in any order.          *)
Foremost(todo) ==
  LET free == {m \in todo : DependsOn[m] \cap todo \subseteq {m}} IN IF free = {} THEN todo ELSE free

Withdraw(c) ==
  /\ desk[c].at = "withdraw" /\ desk[c].todo # {}
  /\ \E m \in Foremost(desk[c].todo), refused \in BOOLEAN :
       LET out == loaded[m] # "absent" /\ ~refused IN
       /\ loaded' = IF out THEN [loaded EXCEPT ![m] = "absent"] ELSE loaded
       /\ Step(c, [desk[c] EXCEPT !.todo = @ \ {m}, !.gone = IF out THEN @ \cup {m} ELSE @])
  /\ UNCHANGED <<process, live, overrides, disabled, installed, trail, wire, lineage, refreshed, bereft>>

(* One discovery for all; it may fail, or bring back some.                 *)
Rediscover(c) ==
  /\ desk[c].at = "withdraw" /\ desk[c].todo = {}
  /\ \/ /\ Step(c, [desk[c] EXCEPT !.todo = desk[c].gone, !.at = "restore"]) /\ UNCHANGED loaded
     \/ \E found \in SUBSET {m \in Plain : loaded[m] = "absent"} :
          /\ loaded' = [m \in Plain |-> IF m \in found THEN "discovered" ELSE loaded[m]]
          /\ Go(c, "verify")
  /\ UNCHANGED <<process, live, overrides, disabled, installed, trail, wire, lineage, refreshed, bereft>>

(* verify_and_emit_reloaded, one module at a time.                         *)
Verify(c) ==
  /\ desk[c].at = "verify"
  /\ IF desk[c].gone = {}
     THEN /\ Go(c, IF desk[c].todo = {} THEN "audits" ELSE "restore") /\ UNCHANGED wire
     ELSE \E m \in desk[c].gone :
            /\ Step(c, [desk[c] EXCEPT !.gone = @ \ {m},
                          !.back = IF loaded[m] # "absent" THEN @ \cup {m} ELSE @,
                          !.todo = IF loaded[m] # "absent" THEN @ ELSE @ \cup {m}])
            /\ wire' = IF loaded[m] # "absent" THEN wire \cup {Report(c, <<"module", m>>, desk[c].kept[m], loaded[m])} ELSE wire
  /\ UNCHANGED <<process, live, overrides, disabled, loaded, installed, trail, lineage, refreshed, bereft>>

(* restore_each_after_failed_reload: the kept instance, unless the id is   *)
(* there again; a refusal is logged.                                       *)
Restore(c) ==
  /\ desk[c].at = "restore"
  /\ IF desk[c].todo = {}
     THEN Go(c, "failed") /\ UNCHANGED <<loaded, bereft>>
     ELSE \E m \in desk[c].todo, refused \in BOOLEAN :
            /\ Step(c, [desk[c] EXCEPT !.todo = @ \ {m}, !.gone = @ \ {m}])
            /\ IF loaded[m] # "absent" THEN UNCHANGED <<loaded, bereft>>
               ELSE IF refused THEN bereft' = bereft \cup {m} /\ UNCHANGED loaded
               ELSE loaded' = [loaded EXCEPT ![m] = desk[c].kept[m]] /\ UNCHANGED bereft
  /\ UNCHANGED <<process, live, overrides, disabled, installed, trail, wire, lineage, refreshed>>

(* One entry per module, with one correlation id: the call.                *)
AuditReload(c) ==
  /\ desk[c].at = "audits"
  /\ trail' = trail \cup {Report(c, <<"module", m>>, Null, m) : m \in desk[c].back} /\ Go(c, "done")
  /\ UNCHANGED <<process, live, overrides, disabled, loaded, installed, wire, lineage, refreshed, bereft>>

Act(c) ==
  \/ Update(c) \/ ReadToggle(c) \/ Toggle(c) \/ WriteOverride(c) \/ LoadStore(c) \/ SaveStore(c)
  \/ Notify(c) \/ RecordAudit(c)
  \/ Refresh(c) \/ Match(c) \/ Withdraw(c) \/ Rediscover(c) \/ Verify(c) \/ Restore(c) \/ AuditReload(c)

Next ==
  \/ \E p \in Persistences, s \in Strictness : RegisterSysModules(p, s)
  \/ Crash
  \/ process.up /\ \E c \in ControlCalls : Act(c) \/ \E ask \in Asks[c] : Begin(c, ask)

Spec == Init /\ [][Next]_vars

(* In the file, a cell holds the value of a call that wrote it and that no *)
(* later call superseded, whatever overlapped and wherever a crash fell.   *)
Wrote(cell) == {c \in On_(cell) : desk[c].wrote}
LatestIsKept ==
  process.persistence = "file" =>
    \A cell \in Cells :
      /\ Wrote(cell) # {} =>
           cell \in DOMAIN overrides
           /\ \E c \in Wrote(cell) :
                /\ overrides[cell] = desk[c].ask.value
                /\ \A d \in Wrote(cell) : c \notin desk[d].earlier
      /\ cell \in DOMAIN overrides => \E c \in Wrote(cell) : overrides[cell] = desk[c].ask.value

(* Calls on a cell that did not overlap leave memory and file agreed, over *)
(* a crash too, unless a write failed or a config reload took memory back. *)
Sequential(cell) ==
  \A c, d \in On_(cell) : c = d \/ c \in desk[d].earlier \/ d \in desk[c].earlier
Agrees(cell) ==
  IF cell[1] = "config" THEN live[cell[2]] = overrides[cell]
  ELSE (cell[2] \in disabled) = (overrides[cell] \notin Truthy)
MemoryIsPersisted ==
  process.up /\ process.persistence = "file" /\ "control" \in installed =>
    \A cell \in DOMAIN overrides :
      (/\ Sequential(cell) /\ cell \notin refreshed
       /\ \A c \in On_(cell) : desk[c].at = "failed" \/ desk[c].wrote \/ desk[c].at = "lost")
      => Agrees(cell)

(* Every change that was answered is in the trail once, with the value     *)
(* that preceded it, and no secret leaves.                                 *)
Follows(list, before, after) == \E i \in 1 .. Len(list) - 1 : list[i] = before /\ list[i + 1] = after
TrailIsTrue ==
  /\ \A c \in Writers : desk[c].at = "done" <=> \E entry \in trail : entry.call = c
  /\ \A c \in ControlCalls \ Writers :
       desk[c].at = "done" => {e.target[2] : e \in {x \in trail : x.call = c}} = desk[c].back
  /\ process.up => \A c \in Writers :
       desk[c].ask.op = "update" /\ desk[c].at \in {"write", "load", "save", "notify", "audit"} =>
         Follows(lineage[desk[c].ask.cell[2]], desk[c].before, desk[c].ask.value)
  /\ \A entry \in trail \cup wire : \A k \in Sensitive :
       entry.target = <<"config", k>> => entry.before = Masked /\ entry.after = Masked

(* A module that a reload took out comes back, new or old, unless loading  *)
(* the old one was refused too.                                            *)
NothingIsLost ==
  process.up => \A m \in Plain :
    loaded[m] # "absent" \/ m \in bereft
    \/ \E c \in ControlCalls :
         \/ desk[c].at \in {"withdraw", "verify", "restore"} /\ m \in desk[c].gone
         \/ desk[c].at \in {"verify", "restore"} /\ m \in desk[c].todo
=============================================================================
