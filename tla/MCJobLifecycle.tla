-------------------------- MODULE MCJobLifecycle ---------------------------
(* Instances of JobLifecycle for TLC.                                      *)
EXTENDS JobLifecycle, TLC
CONSTANTS j1, j2, e1, e2, r1, r2

\* j2 overtakes j1 in the queue
MCPriority == [j \in Jobs |-> IF j = j1 THEN 0 ELSE 1]

ExecRequestSymmetry == Permutations(Execs) \cup Permutations(Requests)
=============================================================================
