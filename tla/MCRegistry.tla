----------------------------- MODULE MCRegistry -----------------------------
(* Instances of Registry for TLC.                                          *)
EXTENDS Registry, TLC

CONSTANTS a, b, c, u, v, old

MCVersion == (a :> 2) @@ (b :> 3) @@ (c :> 2) @@ (old :> 1)

(* Registrations overlap with each other and with one removal at a time;   *)
(* discovery, reload and the watcher's batch run alone.                    *)
Alone    == {"discover", "reload", "watch"}
Removals == {"unregister", "safe"}
MCOverlap ==
  [p \in Jobs \X Jobs |->
     /\ p[1] \notin Alone /\ p[2] \notin Alone
     /\ ~(p[1] \in Removals /\ p[2] \in Removals)]

(* a and c declare the same version; a tie never reaches Latest, since two *)
(* instances of one version are never registered together.                 *)
Symmetry == Permutations({a, c}) \cup Permutations({u, v})

Overlapping == [p \in Jobs \X Jobs |-> TRUE]
=============================================================================
