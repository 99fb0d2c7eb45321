---------------------------- MODULE HarnessModel ----------------------------
(***************************************************************************)
(* The entities of a harness session and the rules their statuses obey:    *)
(* internal/model/entities.go and the legality tables of                   *)
(* internal/state/engine.go.  Jobs, tasks and gates are materialized as    *)
(* views; here every view has one shape, and a field an entity does not    *)
(* have keeps its neutral value.                                           *)
(***************************************************************************)
EXTENDS Integers

CONSTANTS
  Jobs,        \* job ids
  Tasks,       \* task ids
  Gates,       \* gate ids the engine may draw for a new gate
  Reasons,     \* why a gate is opened for a job
  Globs,       \* globs a human may add to a job's allowed scope
  MaxRetries,  \* recover's retry cap (maxRecoverRetries in cli/recover.go)
  None         \* "no value": a field that does not apply, an id not set

ASSUME EntitiesDistinct ==
  /\ Jobs \cap Tasks = {} /\ Jobs \cap Gates = {} /\ Tasks \cap Gates = {}
  /\ None \notin Jobs \cup Tasks \cup Gates \cup Reasons \cup Globs
ASSUME MaxRetriesIsNat == MaxRetries \in Nat

Entities == Jobs \cup Tasks \cup Gates

JobStatus  == {"created", "running", "completed", "failed", "needs-human",
               "timeout", "cancelled"}
TaskPhase  == {"intake", "research", "plan", "delegate", "implement",
               "verify", "integrate", "handoff", "done"}
GateStatus == {"open", "approved", "rejected"}
Status     == JobStatus \cup TaskPhase \cup GateStatus

ASSUME NoneIsNoStatus == None \notin Status

(* Terminal statuses of a job that a human has not settled yet. *)
Unfinished == {"failed", "needs-human", "timeout"}

JobLegal == { <<"created", "running">> } \cup
            ({"running"} \X {"completed", "failed", "needs-human", "timeout"})

PhaseLegal ==
  { <<"intake", "research">>,     <<"research", "plan">>,
    <<"plan", "delegate">>,       <<"delegate", "implement">>,
    <<"implement", "verify">>,    <<"verify", "integrate">>,
    <<"verify", "implement">>,    <<"integrate", "handoff">>,
    <<"handoff", "done">> }

(* What a CAS-checked transition may do, per kind of entity. *)
Legal(e, from, to) == IF e \in Tasks THEN <<from, to>> \in PhaseLegal
                                     ELSE <<from, to>> \in JobLegal

(* What a gate decision may do to its job (ResolveJob). *)
Resolvable(from, to) == \/ to = "cancelled" /\ from \in Unfinished \cup {"completed"}
                        \/ to = "created" /\ from \in Unfinished

(* MUTANT: the retry cap is off by one. *)
RecoverTarget_OneMore(rc) == IF rc > MaxRetries + 1 THEN "needs-human" ELSE "created"

(* Where recovery sends a stale running job whose count becomes rc. *)
RecoverTarget(rc) == IF rc > MaxRetries THEN "needs-human" ELSE "created"

(* What a view file says of its entity. *)
Image == [st : Status, rev : Nat, rc : Nat, allowed : SUBSET Globs,
          job : Jobs \cup {None}, reason : Reasons \cup {None}]
Absent == [st |-> None, rev |-> 0, rc |-> 0, allowed |-> {},
           job |-> None, reason |-> None]

FreshStatus(e) == IF e \in Tasks THEN "intake" ELSE "created"
(* MUTANT: a create that does not set the initial status. *)
Fresh_NoStatus(e) == [Absent EXCEPT !.rev = 1]

Fresh(e) == [Absent EXCEPT !.st = FreshStatus(e), !.rev = 1]
OpenedGate(j, r) == [Absent EXCEPT !.st = "open", !.job = j, !.reason = r]
=============================================================================
