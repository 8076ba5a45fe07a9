---------------------------- MODULE MC_FileLock ----------------------------
(***************************************************************************)
(* Processes that contend for one lock file, under both protocols, on a    *)
(* platform with boot ids and on one without.                              *)
(***************************************************************************)
EXTENDS FileLock, TLC

CONSTANTS p1, p2, p3

Tokens == 1..(Cardinality(Process) + 2)

\* Liveness is checked without symmetry; the other properties allow it.
Pids == Permutations(Process)
==============================================================================
