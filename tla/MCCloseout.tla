----------------------------- MODULE MCCloseout -----------------------------
(* Closeout for TLC. *)
EXTENDS Closeout, TLC

CONSTANTS j1, j2, g1, g2, p1, p2

(* A process that has only read so far leaves nothing behind when it dies: *)
(* it might as well not have begun.                                        *)
ReadsOnly == {"read", "sweep", "write", "jobs", "handoff", "dir", "gates"}
Midway == Points \ ReadsOnly

Symmetric == Permutations(Jobs) \cup Permutations(Gates)
=============================================================================
