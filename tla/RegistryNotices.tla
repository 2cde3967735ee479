--------------------------- MODULE RegistryNotices ---------------------------
(***************************************************************************)
(* What a Registry (src/src/registry/registry.rs) tells of ONE module id:  *)
(* callbacks of on(), hooks of on_load_failed(), the events it emits and   *)
(* the deprecation warnings of get_definition().  All of them run after    *)
(* the core lock was left, so those of several calls interleave.  Which    *)
(* registrations exclude each other is in Registry; one that is refused    *)
(* tells nobody, at whatever point.                                        *)
(***************************************************************************)
EXTENDS Naturals, Sequences, FiniteSets, SequencesExt

CONSTANTS
  Old,                  \* the instance that is registered at first
  Changes,              \* calls of register, register_versioned, unregister
  KindsOf,              \* the kinds each may be: "register", "version", "remove"
  VersionOf, NoticeOf,  \* of the instance each brings: its version, x-deprecation or None
  Listeners, WantedBy,  \* callbacks, and the events each may be given to on() for
  Subscribed,           \* the listeners of each event at first
  FailHooks,            \* callbacks for on_load_failed()
  Readers,              \* calls of get_definition()
  Ephemeral,            \* whether the id is of the ephemeral namespace
  None

Events == {"register", "unregister"}

VARIABLES
  visible, coexisting,  \* core.modules and core.versions
  published,            \* the changes that took place
  change,               \* where each stands, its kind and those it still has to call
  callbacks, failCallbacks, offered, \* the lists, and the callbacks that were once given
  heard, failHeard,     \* what each callback was called with
  wired, emitted, errorLog,\* event_emitter, the events given to it, load failures logged instead
  due,                  \* listeners each change has to tell: there at its publication and ever since
  reading,              \* where each reader stands, and the descriptor it has
  deprecationWarned, warnings      \* deprecation_warned, and the warnings logged

vars == <<visible, coexisting, published, change, callbacks, failCallbacks, offered, heard, failHeard, wired, emitted,
          errorLog, due, reading, deprecationWarned, warnings>>
Modules  == <<visible, coexisting, published>>
Listening == <<callbacks, failCallbacks, offered>>
Emitted  == <<wired, emitted, errorLog>>
Reads    == <<reading, deprecationWarned, warnings>>

Init ==
  /\ visible = Old /\ coexisting = {Old} /\ published = {}
  /\ change = [c \in Changes |-> [at |-> "idle", kind |-> None, to |-> <<>>]]
  /\ callbacks = Subscribed /\ failCallbacks = <<>>
  /\ offered = UNION {ToSet(Subscribed[e]) : e \in Events}
  /\ heard = [l \in Listeners |-> <<>>] /\ failHeard = [h \in FailHooks |-> <<>>]
  /\ wired \in BOOLEAN /\ emitted = {} /\ errorLog = {}
  /\ due = [c \in Changes |-> {}]
  /\ reading = [r \in Readers |-> [at |-> "idle", of |-> None]] /\ deprecationWarned = {} /\ warnings = <<>>

Move(c, at)    == change' = [change EXCEPT ![c].at = at]
EventOf(kind)  == IF kind = "remove" THEN "unregister" ELSE "register"
SnapshotCallbacks(event) == callbacks[event]

-----------------------------------------------------------------------------
(* register_versioned falls back to a registration while the id is free.   *)
Begin(c, kind) ==
  /\ change[c].at = "idle"
  /\ change' = [change EXCEPT ![c] =
       [at |-> IF kind = "remove" THEN "publish" ELSE "load",
        kind |-> IF kind = "version" /\ visible = None THEN "register" ELSE kind, to |-> <<>>]]
  /\ UNCHANGED <<Modules, Listening, heard, failHeard, Emitted, due, Reads>>

(* on_load runs before anything is visible.  Its failure is told to the    *)
(* hooks, except for a further version, and emitted.                       *)
Load(c) ==
  /\ change[c].at = "load"
  /\ \/ Move(c, "publish")
     \/ change' = [change EXCEPT ![c].at = "failed",
                                 ![c].to = IF change[c].kind = "version" THEN <<>> ELSE failCallbacks]
  /\ UNCHANGED <<Modules, Listening, heard, failHeard, Emitted, due, Reads>>

CallFailed(c) ==
  /\ change[c].at = "failed" /\ change[c].to # <<>>
  /\ change' = [change EXCEPT ![c].to = Tail(@)]
  /\ failHeard' = [failHeard EXCEPT ![Head(change[c].to)] = Append(@, c)]
  /\ UNCHANGED <<Modules, Listening, heard, Emitted, due, Reads>>

EmitModuleLoadFailed(c) ==
  /\ change[c].at = "failed" /\ change[c].to = <<>> /\ Move(c, "unloaded")
  /\ emitted' = IF wired THEN emitted \cup {<<"module_load_failed", c>>} ELSE emitted
  /\ errorLog' = IF wired THEN errorLog ELSE errorLog \cup {c}
  /\ UNCHANGED <<Modules, Listening, heard, failHeard, wired, due, Reads>>

-----------------------------------------------------------------------------
Latest(S) == CHOOSE i \in S : \A k \in S : VersionOf[k] <= VersionOf[i]

Changed(c) ==
  /\ published' = published \cup {c} /\ Move(c, "told")
  /\ due' = [due EXCEPT ![c] = ToSet(callbacks[EventOf(change[c].kind)])]
Refused(c) == Move(c, "done") /\ UNCHANGED <<Modules, due>>

PublishFirst(c) ==
  /\ change[c].kind = "register"
  /\ IF visible # None THEN Refused(c)
     ELSE Changed(c) /\ visible' = c /\ coexisting' = {c}

(* add_version, which registers when the id was freed meanwhile.           *)
PublishVersion(c) ==
  /\ change[c].kind = "version"
  /\ \/ /\ visible = None /\ UNCHANGED <<Modules, due>>
        /\ change' = [change EXCEPT ![c].at = "load", ![c].kind = "register"]
     \/ /\ \E i \in coexisting : VersionOf[i] = VersionOf[c]
        /\ Refused(c)
     \/ /\ visible # None /\ \A i \in coexisting : VersionOf[i] # VersionOf[c]
        /\ Changed(c)
        /\ coexisting' = coexisting \cup {c} /\ visible' = Latest(coexisting')

PublishRemoval(c) ==
  /\ change[c].kind = "remove"
  /\ IF visible = None THEN Refused(c)
     ELSE Changed(c) /\ visible' = None /\ coexisting' = {}

Publish(c) ==
  /\ change[c].at = "publish"
  /\ PublishFirst(c) \/ PublishVersion(c) \/ PublishRemoval(c)
  /\ UNCHANGED <<Listening, heard, failHeard, Emitted, Reads>>

Snapshot(c) ==
  /\ change[c].at = "told"
  /\ change' = [change EXCEPT ![c].at = "calling", ![c].to = SnapshotCallbacks(EventOf(change[c].kind))]
  /\ UNCHANGED <<Modules, Listening, heard, failHeard, Emitted, due, Reads>>

Call(c) ==
  /\ change[c].at = "calling" /\ change[c].to # <<>>
  /\ change' = [change EXCEPT ![c].to = Tail(@)]
  /\ heard' = [heard EXCEPT ![Head(change[c].to)] = Append(@, <<EventOf(change[c].kind), c>>)]
  /\ UNCHANGED <<Modules, Listening, failHeard, Emitted, due, Reads>>

(* emit_ephemeral_event; a further version emits none.                     *)
Finish(c) ==
  /\ change[c].at = "calling" /\ change[c].to = <<>> /\ Move(c, "done")
  /\ emitted' = IF Ephemeral /\ wired /\ change[c].kind # "version"
             THEN emitted \cup {<<EventOf(change[c].kind), c>>} ELSE emitted
  /\ UNCHANGED <<Modules, Listening, heard, failHeard, wired, errorLog, due, Reads>>

-----------------------------------------------------------------------------
(* A handle is issued once, and off() takes it for good.                   *)
On(l, event) ==
  /\ l \notin offered /\ offered' = offered \cup {l}
  /\ callbacks' = [callbacks EXCEPT ![event] = Append(@, l)]
  /\ UNCHANGED <<Modules, change, failCallbacks, heard, failHeard, Emitted, due, Reads>>

Off(l) ==
  /\ \E e \in Events : l \in ToSet(callbacks[e])
  /\ callbacks' = [e \in Events |-> Remove(callbacks[e], l)]
  /\ due' = [c \in Changes |-> due[c] \ {l}]
  /\ UNCHANGED <<Modules, change, failCallbacks, offered, heard, failHeard, Emitted, Reads>>

OnLoadFailed(h) ==
  /\ h \notin offered /\ offered' = offered \cup {h}
  /\ failCallbacks' = Append(failCallbacks, h)
  /\ UNCHANGED <<Modules, change, callbacks, heard, failHeard, Emitted, due, Reads>>

-----------------------------------------------------------------------------
(* get_definition looks the id up, copies the descriptor under another     *)
(* acquisition, and warns once for each version and notice.                *)
Key(i) == <<VersionOf[i], NoticeOf[i]>>

GetDefinition(r) ==
  /\ reading[r].at = "idle"
  /\ reading' = [reading EXCEPT ![r].at = IF visible = None THEN "done" ELSE "found"]
  /\ UNCHANGED <<Modules, change, Listening, heard, failHeard, Emitted, due, deprecationWarned, warnings>>

Descriptor(r) ==
  /\ reading[r].at = "found"
  /\ reading' = [reading EXCEPT ![r] =
       [at |-> IF visible = None \/ (visible # None /\ NoticeOf[visible] = None) THEN "done" ELSE "warning",
        of |-> visible]]
  /\ UNCHANGED <<Modules, change, Listening, heard, failHeard, Emitted, due, deprecationWarned, warnings>>

WarnIfDeprecated(r) ==
  /\ reading[r].at = "warning"
  /\ deprecationWarned' = deprecationWarned \cup {Key(reading[r].of)}
  /\ reading' = [reading EXCEPT ![r].at = IF Key(reading[r].of) \in deprecationWarned THEN "done" ELSE "logging"]
  /\ UNCHANGED <<Modules, change, Listening, heard, failHeard, Emitted, due, warnings>>

LogDeprecationWarning(r) ==
  /\ reading[r].at = "logging" /\ reading' = [reading EXCEPT ![r].at = "done"]
  /\ warnings' = Append(warnings, Key(reading[r].of))
  /\ UNCHANGED <<Modules, change, Listening, heard, failHeard, Emitted, due, deprecationWarned>>

Next ==
  \/ \E c \in Changes :
       \/ \E kind \in KindsOf[c] : Begin(c, kind)
       \/ Load(c) \/ CallFailed(c) \/ EmitModuleLoadFailed(c)
       \/ Publish(c) \/ Snapshot(c) \/ Call(c) \/ Finish(c)
  \/ \E l \in Listeners : Off(l) \/ \E e \in WantedBy[l] : On(l, e)
  \/ \E h \in FailHooks : OnLoadFailed(h)
  \/ \E r \in Readers : GetDefinition(r) \/ Descriptor(r) \/ WarnIfDeprecated(r) \/ LogDeprecationWarning(r)

-----------------------------------------------------------------------------
(* A callback hears of a change at most once, and only of one that took    *)
(* place; on a load that failed it hears nothing.                          *)
NoticesAreTrue ==
  \A l \in Listeners :
    /\ IsInjective(heard[l])
    /\ \A n \in ToSet(heard[l]) : n[2] \in published /\ n[1] = EventOf(change[n[2]].kind)

(* A callback that was there when the registry changed, and still is, has  *)
(* heard of it when the call returns, whatever was added or removed since. *)
ListenersHear ==
  \A c \in Changes : change[c].at = "done" =>
    \A l \in due[c] : <<EventOf(change[c].kind), c>> \in ToSet(heard[l])

(* A failed on_load is emitted or logged and publishes nothing; a change of *)
(* an ephemeral id is emitted, but for a further version.                  *)
FailuresAreTold ==
  \A c \in Changes :
    /\ change[c].at = "unloaded" =>
         /\ c \notin published
         /\ c \in errorLog \/ <<"module_load_failed", c>> \in emitted
    /\ change[c].at = "done" /\ c \in published /\ Ephemeral /\ wired /\ change[c].kind # "version" =>
         <<EventOf(change[c].kind), c>> \in emitted

(* Each version and notice is warned of once, and a deprecated definition  *)
(* that was read has been warned of, by its reader or one before the log.  *)
DeprecationIsTold ==
  /\ IsInjective(warnings)
  /\ \A r \in Readers :
       LET i == reading[r].of IN
       reading[r].at = "done" /\ i # None /\ NoticeOf[i] # None =>
         \/ Key(i) \in ToSet(warnings)
         \/ \E s \in Readers : reading[s].at = "logging" /\ Key(reading[s].of) = Key(i)

NoticesAreSound == NoticesAreTrue /\ ListenersHear /\ FailuresAreTold /\ DeprecationIsTold

(* Observations, not checked: a removal's notice may follow that of the    *)
(* registration that came after it, a callback is called after off(),      *)
(* "unregister" never precedes the removal, and the failed load of a       *)
(* further version is not told to the hooks.                               *)
LastHeardIsTrue ==
  \A l \in Listeners : heard[l] # <<>> /\ (\A c \in Changes : change[c].at \notin {"told", "calling"}) =>
    (Last(heard[l])[1] = "register") = (visible # None)
SilentAfterOff  == \A c \in Changes : ToSet(change[c].to) \cap Listeners \subseteq UNION {ToSet(callbacks[e]) : e \in Events}
ToldBeforeRemoval == \A l \in Listeners : \A n \in ToSet(heard[l]) : n[1] = "unregister" => visible # None
HooksHear       == \A c \in Changes : change[c].at = "unloaded" => \A h \in ToSet(failCallbacks) : c \in ToSet(failHeard[h])
=============================================================================
