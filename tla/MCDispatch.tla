----------------------------- MODULE MCDispatch -----------------------------
(* Dispatch for TLC: the commands and the crash points of the runs. *)
EXTENDS Dispatch, TLC

CONSTANTS p1, p2, g1, g2, g3

RunCommands == {"run", "recover"}
GateCommands == {"run", "recover", "approve", "reject"}

Anywhere == Points
NotInRemove == Points \ {"rmtree", "rmbranch"}
Nowhere == {}

DecisionApart == {{"recover", "approve"}}
RedispatchApart == {{"recover", "approve"}, {"prune", "approve"}}

Symmetric == Permutations(Procs) \cup Permutations(Gates)
=============================================================================
