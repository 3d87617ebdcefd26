------------------------------ MODULE MCThreads ------------------------------
(* Instances of Threads for TLC: main and up to three other threads. *)
EXTENDS Threads, TLC

CONSTANTS m, a, b, c

(* No action tells the threads other than main apart. *)
Symmetry == Permutations({a, b, c})
=============================================================================
