------------------------------ MODULE MCStorage ------------------------------
(* Storage for TLC. *)
EXTENDS Storage, TLC

CONSTANTS p1, p2, a1, a2

Anywhere == Steps
OnceDurable == Steps \ {"written", "flushed"}

Symmetric == Permutations(Procs) \cup Permutations(Actors)
=============================================================================
