---------------------------- MODULE Middlewares ----------------------------
(***************************************************************************)
(* The registrations of MiddlewareManager (src/src/middleware/manager.rs): *)
(* three parallel lists behind three locks, and the identities that        *)
(* duplicate detection has seen.  A step ends where a lock is given back   *)
(* or awaited.  What the hooks do is part of Calls.                        *)
(***************************************************************************)
EXTENDS Naturals, Sequences, SequencesExt

CONSTANTS
  Registrations,    \* the calls of add, each its own middleware and handle
  PriorityOf, NameOf, IdentityOf,
  NoIdentity,       \* registered without duplicate detection
  MaxPriority,
  ByHandleAlone     \* no other call overlaps remove_handle

VARIABLES
  middlewares, handleList, identities,   \* the lists; a middleware is its registration
  registered,    \* registered_identities
  listLock,      \* remove holds `middlewares`, remove_handle holds `handles`
  entry,         \* where the call that adds or removes each registration is
  at             \* the index a removal works on

lists == <<middlewares, handleList, identities>>
vars  == <<lists, registered, listLock, entry, at>>

Init ==
  /\ middlewares = <<>> /\ handleList = <<>> /\ identities = <<>>
  /\ registered = {} /\ listLock = "free"
  /\ entry = [r \in Registrations |-> "new"] /\ at = [r \in Registrations |-> 0]

Goto(r, p) == entry' = [entry EXCEPT ![r] = p]
Removing(r) == entry[r] \in {"forget_handle", "forget_middleware", "forget_identity"}
(* A remove_handle is under way; nothing else is.                          *)
ByHandle == \E q \in Registrations :
  entry[q] = "forget_middleware" \/ (entry[q] = "forget_identity" /\ listLock = "free")
Calm == \A q \in Registrations : entry[q] # "noted" /\ ~Removing(q)

-----------------------------------------------------------------------------
(* insert: the priority, then note_identity, then the three lists.         *)
Reject(r) ==
  /\ entry[r] = "new" /\ PriorityOf[r] > MaxPriority /\ Goto(r, "rejected")
  /\ UNCHANGED <<lists, registered, listLock, at>>

NoteIdentity(r) ==
  /\ entry[r] = "new" /\ PriorityOf[r] <= MaxPriority /\ (ByHandleAlone => ~ByHandle) /\ Goto(r, "noted")
  /\ registered' = registered \cup ({IdentityOf[r]} \ {NoIdentity})
  /\ UNCHANGED <<lists, listLock, at>>

(* Before the first of a lower priority, so after its equals.              *)
Position(r) ==
  LET lower == {i \in DOMAIN middlewares : PriorityOf[middlewares[i]] < PriorityOf[r]} IN
  IF lower = {} THEN Len(middlewares) + 1 ELSE CHOOSE i \in lower : \A j \in lower : i <= j

Insert(r) ==
  /\ entry[r] = "noted" /\ listLock = "free" /\ Goto(r, "in")
  /\ middlewares' = InsertAt(middlewares, Position(r), r)
  /\ handleList' = InsertAt(handleList, Position(r), r)
  /\ identities' = InsertAt(identities, Position(r), IdentityOf[r])
  /\ UNCHANGED <<registered, listLock, at>>

-----------------------------------------------------------------------------
(* remove by name: the first in pipeline order, `middlewares` held.        *)
Named(n) == {i \in DOMAIN middlewares : NameOf[middlewares[i]] = n}

RemoveNamed(r) ==
  /\ entry[r] = "in" /\ listLock = "free" /\ (ByHandleAlone => ~ByHandle)
  /\ \E i \in Named(NameOf[r]) :
       /\ \A j \in Named(NameOf[r]) : i <= j
       /\ middlewares[i] = r
       /\ middlewares' = RemoveAt(middlewares, i) /\ handleList' = RemoveAt(handleList, i)
       /\ at' = [at EXCEPT ![r] = i]
  /\ listLock' = "middlewares" /\ Goto(r, "forget_identity")
  /\ UNCHANGED <<identities, registered>>

(* forget_identity_at: the entry at the index, and the identity with the   *)
(* last registration that holds it.                                        *)
ForgetIdentity(r) ==
  LET i == at[r] left == RemoveAt(identities, i) IN
  /\ entry[r] = "forget_identity" /\ Goto(r, "gone")
  /\ IF i \in DOMAIN identities
     THEN /\ identities' = left
          /\ registered' = IF Contains(left, identities[i]) THEN registered
                           ELSE registered \ {identities[i]}
     ELSE UNCHANGED <<identities, registered>>
  /\ listLock' = IF listLock = "middlewares" THEN "free" ELSE listLock
  /\ UNCHANGED <<middlewares, handleList, at>>

(* remove_handle: `handles` is held while `middlewares` is awaited, and    *)
(* given back before the identity is forgotten.                            *)
RemoveHandle(r) ==
  /\ entry[r] = "in" /\ listLock = "free" /\ (ByHandleAlone => Calm)
  /\ at' = [at EXCEPT ![r] = CHOOSE i \in DOMAIN handleList : handleList[i] = r]
  /\ handleList' = RemoveAt(handleList, at'[r])
  /\ listLock' = "handles" /\ Goto(r, "forget_middleware")
  /\ UNCHANGED <<middlewares, identities, registered>>

RemoveHandleRest(r) ==
  /\ entry[r] = "forget_middleware" /\ Goto(r, "forget_identity")
  /\ middlewares' = RemoveAt(middlewares, at[r])
  /\ listLock' = "free"
  /\ UNCHANGED <<handleList, identities, registered, at>>

Next == \E r \in Registrations :
  \/ Reject(r) \/ NoteIdentity(r) \/ Insert(r)
  \/ RemoveNamed(r) \/ RemoveHandle(r) \/ RemoveHandleRest(r) \/ ForgetIdentity(r)

Spec == Init /\ [][Next]_vars

-----------------------------------------------------------------------------
(* Between calls the three lists describe the same registrations, higher   *)
(* priorities first and equal ones in the order of their insertion, and    *)
(* duplicate detection remembers no identity that nobody holds.            *)
ListsParallel ==
  (\A r \in Registrations : ~Removing(r)) =>
    /\ handleList = middlewares
    /\ identities = [i \in DOMAIN middlewares |-> IdentityOf[middlewares[i]]]
    /\ \A i, j \in DOMAIN middlewares : i < j => PriorityOf[middlewares[i]] >= PriorityOf[middlewares[j]]
    /\ registered \subseteq {IdentityOf[r] : r \in {q \in Registrations : entry[q] \in {"noted", "in"}}}
=============================================================================
