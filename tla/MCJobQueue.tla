----------------------------- MODULE MCJobQueue -----------------------------
(***************************************************************************)
(* Small instances of the job queue for TLC.                               *)
(***************************************************************************)
EXTENDS JobQueue, TLC

CONSTANTS j1, j2

\* j2 needs the success of j1.
DependsOnSuccess == [j \in Jobs |-> IF j = j2 THEN {j1} ELSE {}]

Independent == [j \in Jobs |-> {}]

Symmetry == Permutations(Workers)
=============================================================================
