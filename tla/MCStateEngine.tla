---------------------------- MODULE MCStateEngine ----------------------------
(* StateEngine for TLC: clocks, operations and transition targets of the runs. *)
EXTENDS StateEngine, TLC

CONSTANTS j1, g1, g2, t1, p1, p2

Separate == {1}         \* a clock that separates commits
Ties == {0, 1}          \* commits may share a millisecond
AnyClock == {-1, 1}     \* the clock may be set back; a tie sorts as one or the other

JobOps == {"create", "move", "recover", "resolve", "extend", "rebuild"}
JobTargets == {"running", "completed", "needs-human"}

ClockOps == {"create", "move", "recover"}

GateOps == {"create", "move", "open", "settle"}
PhaseTargets == {"research"}

(* For safety properties only. *)
ProcSymmetry == Permutations(Procs)
==============================================================================
