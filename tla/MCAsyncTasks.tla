---------------------------- MODULE MCAsyncTasks ----------------------------
(* Instances of AsyncTasks for TLC: two tasks of one manager.              *)
EXTENDS AsyncTasks, TLC

CONSTANTS t1, t2, m1

MCHome == [t \in {t1, t2} |-> m1]

(* Both tasks have the same home, so they are interchangeable.             *)
Symmetry == Permutations({t1, t2})
=============================================================================
