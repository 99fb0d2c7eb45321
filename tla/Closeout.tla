------------------------------ MODULE Closeout ------------------------------
(***************************************************************************)
(* How a task is brought to its end: `harness integrate`, `verify`,        *)
(* `handoff` and the orchestrator's stop hook (cli and integrate           *)
(* packages), while jobs are still delegated and run, gates are decided    *)
(* and a recover sweeps worktrees.  All jobs here are write jobs of one    *)
(* task.  Engine operations are the steps of EntityStore.                  *)
(***************************************************************************)
EXTENDS HarnessModel, FiniteSets

CONSTANTS
  Procs,         \* processes running harness commands
  Integrators,   \* BOUND: the processes that run integrate
  Hooks,         \* BOUND: the processes that run the stop hook
  CrashAt        \* where a process may die

Points == {"read", "rmbranch", "add", "merge", "teardown", "drop", "report",
           "gate", "sweep", "write", "resolve",
           "jobs", "handoff", "dir", "gates"}

ASSUME IntegratorsAreProcs == Integrators \subseteq Procs
ASSUME HooksAreProcs == Hooks \subseteq Procs
ASSUME CrashAtPoints == CrashAt \subseteq Points
ASSUME ConflictIsReason == "conflict" \in Reasons
ASSUME NoneIsNoHandoff == None \notin {"branch", "no branch"}
ASSUME NoneIsNoBranch == \A S \in SUBSET Jobs : S # None

VARIABLES
  ent,           \* views of jobs and gates, as EntityStore has them
  tree,          \* is .worktrees/__int__<tid> there?
  tmp,           \* branch harness/integration/<tid>-tmp: the jobs on it, or None
  delivery,      \* branch harness/integration/<tid>: the jobs on it, or None
  reported,      \* is there an integrate.completed event?
  verified,      \* does verification.json say passed? (it may be missing)
  handoff,       \* handoff.md: None, or whether it names a delivery branch
  at,            \* where each process is
  cmd            \* its command and what it has read

git == <<tree, tmp, delivery>>
files == <<reported, verified, handoff>>
vars == <<ent, git, files, at, cmd>>

Store == INSTANCE EntityStore

-----------------------------------------------------------------------------
NoCmd == [op |-> None, list |-> {}, todo |-> {}, job |-> None, ok |-> FALSE]

Begin(p, step, c) ==
  /\ at[p] = "idle"
  /\ at' = [at EXCEPT ![p] = step]
  /\ cmd' = [cmd EXCEPT ![p] = c]

Goto(p, step, c) ==
  /\ at' = [at EXCEPT ![p] = step]
  /\ cmd' = [cmd EXCEPT ![p] = c]

Exit(p) == Goto(p, "idle", NoCmd)

(* The entities of S whose views a directory lists (os.ReadDir). *)
Listed(S) == {e \in S : ent[e] # Absent}

-----------------------------------------------------------------------------
(* Jobs, meanwhile *)

Delegate(j) ==
  /\ Store!Create(j)
  /\ UNCHANGED <<git, files, at, cmd>>

(* What Adapter.Run does to the job of a process not modelled here. *)
RunJob(j) ==
  /\ \E to \in {"running", "completed", "failed"} : Store!Move(j, to)
  /\ UNCHANGED <<git, files, at, cmd>>

-----------------------------------------------------------------------------
(* harness integrate *)

(* BOUND: one gate id per integrator stays free. *)
Room == Cardinality({g \in Gates : ent[g] = Absent}) >= Cardinality(Integrators)

(* jobsForTask lists the directory of the job views, *)
IntegrateList(p) ==
  /\ p \in Integrators /\ Room
  /\ Begin(p, "read", [NoCmd EXCEPT !.op = "integrate", !.todo = Listed(Jobs)])
  /\ UNCHANGED <<ent, git, files>>

(* MUTANT: integrate takes every job that has ended. *)
Completed_Ended(j) == ent[j].st \in Unfinished \cup {"completed"}

Completed(j) == ent[j].st = "completed"

(* and reads one view after the other, without a lock. *)
IntegrateRead(p) ==
  /\ at[p] = "read"
  /\ \E j \in cmd[p].todo :
       Goto(p, "read", [cmd[p] EXCEPT !.todo = @ \ {j},
                                      !.list = IF Completed(j) THEN @ \cup {j} ELSE @])
  /\ UNCHANGED <<ent, git, files>>

(* IntegrateTask is called with the completed ones, all yet to be merged. *)
CallIntegrateTask(p) == Goto(p, "rmbranch", [cmd[p] EXCEPT !.todo = cmd[p].list])

(* MUTANT: setup does not remove the worktree of an earlier integrate. *)
SetupTree_Skipped(p) ==
  /\ at[p] = "read" /\ cmd[p].todo = {}
  /\ CallIntegrateTask(p)
  /\ UNCHANGED <<ent, git, files>>

(* setupWorktree: git worktree remove --force and prune, *)
SetupTree(p) ==
  /\ at[p] = "read" /\ cmd[p].todo = {}
  /\ tree' = FALSE
  /\ CallIntegrateTask(p)
  /\ UNCHANGED <<ent, tmp, delivery, files>>

(* branch -D, which git refuses while a worktree has the branch, *)
DropTmp == tmp' = IF tree THEN tmp ELSE None

SetupBranch(p) ==
  /\ at[p] = "rmbranch"
  /\ DropTmp
  /\ Goto(p, "add", cmd[p])
  /\ UNCHANGED <<ent, tree, delivery, files>>

(* and worktree add -b, off the HEAD of the main worktree. *)
SetupAdd(p) ==
  /\ at[p] = "add"
  /\ IF ~tree /\ tmp = None
     THEN tree' = TRUE /\ tmp' = {} /\ Goto(p, "merge", cmd[p])
     ELSE Exit(p) /\ UNCHANGED <<tree, tmp>>
  /\ UNCHANGED <<ent, delivery, files>>

(* MUTANT: a job that is refused is skipped, the rest is merged. *)
Merge_SkipsRefused(p) ==
  /\ at[p] = "merge"
  /\ \E j \in cmd[p].todo :
       \/ /\ Goto(p, "merge", [cmd[p] EXCEPT !.todo = @ \ {j}])
          /\ UNCHANGED tmp
       \/ /\ tree
          /\ tmp' = tmp \cup {j}
          /\ Goto(p, "merge", [cmd[p] EXCEPT !.todo = @ \ {j}])
  /\ UNCHANGED <<ent, tree, delivery, files>>

(* A branch is merged, or refused: out of scope, in conflict, or because   *)
(* the integration worktree is gone.                                       *)
Merge(p) ==
  /\ at[p] = "merge"
  /\ \E j \in cmd[p].todo :
       \/ /\ Goto(p, "teardown", [cmd[p] EXCEPT !.job = j])
          /\ UNCHANGED tmp
       \/ /\ tree
          /\ tmp' = tmp \cup {j}
          /\ Goto(p, "merge", [cmd[p] EXCEPT !.todo = @ \ {j}])
  /\ UNCHANGED <<ent, tree, delivery, files>>

(* git branch -f <delivery> <tmp>; without a tmp branch it fails. *)
Promote(p) ==
  /\ at[p] = "merge" /\ cmd[p].todo = {}
  /\ delivery' = IF tmp = None THEN delivery ELSE tmp
  /\ Goto(p, "teardown", [cmd[p] EXCEPT !.ok = tmp # None])
  /\ UNCHANGED <<ent, tree, tmp, files>>

Teardown(p) ==
  /\ at[p] = "teardown"
  /\ tree' = FALSE
  /\ Goto(p, "drop", cmd[p])
  /\ UNCHANGED <<ent, tmp, delivery, files>>

(* MUTANT: what IntegrateTask refused is not looked at. *)
Return_IgnoresRefusal(p) == Goto(p, "report", cmd[p])

(* What Integrate does with IntegrateTask's answer. *)
Return(p) ==
  IF cmd[p].job # None THEN Goto(p, "gate", cmd[p])
  ELSE IF cmd[p].ok THEN Goto(p, "report", cmd[p]) ELSE Exit(p)

DropBranch(p) ==
  /\ at[p] = "drop"
  /\ DropTmp
  /\ Return(p)
  /\ UNCHANGED <<ent, tree, delivery, files>>

(* OpenGateForJob on the refused job. *)
OpenGate(p) ==
  LET j == cmd[p].job
  IN  /\ at[p] = "gate"
      /\ IF \E g \in Gates : ent[g] = OpenedGate(j, "conflict")
         THEN UNCHANGED ent
         ELSE \E g \in Gates : Store!OpenGate(g, j, "conflict")
      /\ Exit(p)
      /\ UNCHANGED <<git, files>>

(* The integrate.completed event. *)
Report(p) ==
  /\ at[p] = "report"
  /\ reported' = TRUE
  /\ Exit(p)
  /\ UNCHANGED <<ent, git, verified, handoff>>

-----------------------------------------------------------------------------
(* harness recover: integration worktrees are always swept *)

RecoverList(p) ==
  /\ tree
  /\ Begin(p, "sweep", [NoCmd EXCEPT !.op = "recover"])
  /\ UNCHANGED <<ent, git, files>>

RecoverSweep(p) ==
  /\ at[p] = "sweep"
  /\ tree' = FALSE
  /\ Exit(p)
  /\ UNCHANGED <<ent, tmp, delivery, files>>

-----------------------------------------------------------------------------
(* harness gate approve, gate reject; approving a gate of a completed job  *)
(* only settles the gate.                                                  *)
GateDecide(p) ==
  /\ \E g \in Gates, to \in {"approved", "rejected"} :
       /\ Store!ResolveGate(g, to)
       /\ IF to = "rejected"
          THEN Begin(p, "resolve", [NoCmd EXCEPT !.op = "reject", !.job = ent[g].job])
          ELSE at[p] = "idle" /\ UNCHANGED <<at, cmd>>
  /\ UNCHANGED <<git, files>>

GateResolve(p) ==
  LET j == cmd[p].job
  IN  /\ at[p] = "resolve"
      /\ IF Resolvable(ent[j].st, "cancelled")
         THEN Store!Resolve(j, "cancelled")
         ELSE UNCHANGED ent
      /\ Exit(p)
      /\ UNCHANGED <<git, files>>

-----------------------------------------------------------------------------
(* harness verify, harness handoff *)

(* Do the commands pass?  They run wherever the caller says, in a checkout *)
(* the model knows nothing of; without a command verify does not pass.     *)
VerifyResults == BOOLEAN

VerifyTask(p) ==
  /\ at[p] = "idle"
  /\ verified' \in VerifyResults
  /\ UNCHANGED <<ent, git, reported, handoff, at, cmd>>

(* The delivery branch is named when an integrate.completed event is found. *)
HandoffRead(p) ==
  /\ Begin(p, "write", [NoCmd EXCEPT !.op = "handoff", !.ok = reported])
  /\ UNCHANGED <<ent, git, files>>

HandoffWrite(p) ==
  /\ at[p] = "write"
  /\ handoff' = IF cmd[p].ok THEN "branch" ELSE "no branch"
  /\ Exit(p)
  /\ UNCHANGED <<ent, git, reported, verified>>

-----------------------------------------------------------------------------
(* harness hook task-stop --role orchestrator: ComputeContract *)

StopList(p) ==
  /\ p \in Hooks
  /\ Begin(p, "jobs", [NoCmd EXCEPT !.op = "stop", !.list = Listed(Jobs),
                                    !.todo = Listed(Jobs), !.ok = TRUE])
  /\ UNCHANGED <<ent, git, files>>

(* Once something is missing the answer is no: the rest of the reads only  *)
(* adds to its message, and is left out.                                   *)
Pursue(p, step, c) == IF c.ok THEN Goto(p, step, c) ELSE Exit(p)

(* MUTANT: any terminal job counts as done. *)
Fine_Terminal(j) == ent[j].st \in Unfinished \cup {"completed", "cancelled"}

(* A cancelled job is passed over, any other has to be completed. *)
Fine(j) == ent[j].st \in {"completed", "cancelled"}

(* The views of the jobs are read one after the other; the cancelled ones  *)
(* are off the list.                                                       *)
StopJob(p) ==
  /\ at[p] = "jobs"
  /\ \E j \in cmd[p].todo :
       Pursue(p, "jobs", [cmd[p] EXCEPT !.todo = @ \ {j}, !.ok = @ /\ Fine(j),
                                        !.list = IF ent[j].st = "cancelled" THEN @ \ {j} ELSE @])
  /\ UNCHANGED <<ent, git, files>>

(* verification.json: one job at least has to be there. *)
StopVerification(p) ==
  /\ at[p] = "jobs" /\ cmd[p].todo = {}
  /\ Pursue(p, "handoff", [cmd[p] EXCEPT !.ok = @ /\ cmd[p].list # {} /\ verified])
  /\ UNCHANGED <<ent, git, files>>

StopHandoff(p) ==
  /\ at[p] = "handoff"
  /\ Pursue(p, "dir", [cmd[p] EXCEPT !.ok = @ /\ handoff # None])
  /\ UNCHANGED <<ent, git, files>>

(* countOpenGates lists the gates and reads one after the other. *)
StopDir(p) ==
  /\ at[p] = "dir"
  /\ Goto(p, "gates", [cmd[p] EXCEPT !.list = @ \cup Listed(Gates), !.todo = Listed(Gates)])
  /\ UNCHANGED <<ent, git, files>>

StopGate(p) ==
  /\ at[p] = "gates"
  /\ \E g \in cmd[p].todo :
       Pursue(p, "gates", [cmd[p] EXCEPT !.todo = @ \ {g}, !.ok = @ /\ ent[g].st # "open"])
  /\ UNCHANGED <<ent, git, files>>

(* The hook answers: the contract is satisfied. *)
StopAnswer(p) ==
  /\ at[p] = "gates" /\ cmd[p].todo = {}
  /\ Exit(p)
  /\ UNCHANGED <<ent, git, files>>

Stop(p) ==
  \/ StopList(p) \/ StopJob(p) \/ StopVerification(p) \/ StopHandoff(p)
  \/ StopDir(p) \/ StopGate(p) \/ StopAnswer(p)

-----------------------------------------------------------------------------
(* The process is killed. *)
Die(p) ==
  /\ at[p] \in CrashAt
  /\ Exit(p)
  /\ UNCHANGED <<ent, git, files>>

Init ==
  /\ ent = [e \in Entities |-> Absent]
  /\ tree = FALSE /\ tmp = None /\ delivery = None
  /\ reported = FALSE /\ verified = FALSE /\ handoff = None
  /\ at = [p \in Procs |-> "idle"]
  /\ cmd = [p \in Procs |-> NoCmd]

Integrate(p) ==
  \/ IntegrateList(p) \/ IntegrateRead(p)
  \/ SetupTree(p) \/ SetupBranch(p) \/ SetupAdd(p) \/ Merge(p)
  \/ Promote(p) \/ Teardown(p) \/ DropBranch(p) \/ OpenGate(p) \/ Report(p)

Next ==
  \/ \E j \in Jobs : Delegate(j) \/ RunJob(j)
  \/ \E p \in Procs :
       \/ Integrate(p) \/ RecoverList(p) \/ RecoverSweep(p)
       \/ GateDecide(p) \/ GateResolve(p)
       \/ VerifyTask(p) \/ HandoffRead(p) \/ HandoffWrite(p)
       \/ Stop(p) \/ Die(p)

Spec == Init /\ [][Next]_vars

-----------------------------------------------------------------------------
(* Properties *)

(* Types, and that what a process has read fits where it is: it opens a    *)
(* gate or rejects only for a job, it reports and promotes only an         *)
(* integrate that nothing refused.                                         *)
TypeOK ==
  /\ ent \in [Entities -> Image \cup {Absent}]
  /\ {tree, reported, verified} \subseteq BOOLEAN
  /\ {tmp, delivery} \subseteq (SUBSET Jobs) \cup {None}
  /\ handoff \in {None, "branch", "no branch"}
  /\ at \in [Procs -> Points \cup {"idle"}]
  /\ \A p \in Procs :
       /\ cmd[p].list \cup cmd[p].todo \subseteq Jobs \cup Gates
       /\ at[p] # "read" => cmd[p].todo \subseteq cmd[p].list
       /\ at[p] = "idle" => cmd[p] = NoCmd
       /\ at[p] \in {"gate", "resolve"} => cmd[p].job \in Jobs
       /\ at[p] = "report" => cmd[p].job = None /\ cmd[p].todo = {}

(* The delivery branch only ever becomes one whole integration: exactly    *)
(* the jobs the promoting integrate had found completed when it read them, *)
(* one after the other, none that an                                       *)
(* earlier, killed integrate left on the temporary branch, and none        *)
(* missing because a recover swept the worktree in the middle.             *)
DeliversItsList ==
  [][delivery' # delivery =>
       \E p \in Procs : at[p] = "merge" /\ cmd[p].todo = {} /\ delivery' = cmd[p].list]_vars

(* What a killed integrate leaves behind never blocks the next one: setup  *)
(* has always cleared the way for worktree add -b.                         *)
LeftoversNeverBlock == \A p \in Procs : at[p] = "add" => ~tree /\ tmp = None

(* What is on the delivery branch, or being gathered for it, was done: its *)
(* jobs are completed, or were rejected since.  Nothing that failed, was   *)
(* given up before it was done or will run again ever gets there, however  *)
(* integrates, recovers, deaths and gate decisions interleave.             *)
DeliveredWereDone ==
  \A S \in {tmp, delivery} \ {None} : \A j \in S : ent[j].st \in {"completed", "cancelled"}

(* Seen from outside, integrate looks at one job after the other, takes    *)
(* those that are done when it looks, and delivers them in one step, or    *)
(* nothing: no job that was done before it began and was not rejected is   *)
(* missing.  No other command moves the branch, and a handoff never names  *)
(* it too early.                                                           *)
Decided ==
  [j \in Jobs |-> IF ent[j].st = "completed" THEN "done"
                  ELSE IF ent[j].st = "cancelled" THEN "rejected" ELSE "open"]

Taken ==
  [p \in Integrators |->
     IF at[p] \in {"read", "rmbranch", "add", "merge"} THEN cmd[p].list ELSE None]

Unseen == [p \in Integrators |-> IF at[p] = "read" THEN cmd[p].todo ELSE {}]

Promised == INSTANCE Delivery WITH decided <- Decided, taken <- Taken, unseen <- Unseen,
                                   named <- (handoff = "branch")

ImplementsDelivery == Promised!Spec

(* A handoff that names the delivery branch is right: it is there.         *)
HandoffTruthful == handoff = "branch" => delivery # None

(* The stop hook lists jobs and gates and reads jobs, files and gates one  *)
(* after the other while others change them.  What it has let pass still   *)
(* is so when it answers: every job it listed is completed, or was         *)
(* rejected, a handoff is there, and no gate it listed is open.  (A job    *)
(* delegated or a gate opened behind its back is not covered: the code     *)
(* does not look again.)                                                   *)
StopSound ==
  \A p \in Procs : at[p] = "gates" /\ cmd[p].todo = {} /\ cmd[p].ok =>
    /\ \A j \in cmd[p].list \cap Jobs : ent[j].st \in {"completed", "cancelled"}
    /\ handoff # None
    /\ \A g \in cmd[p].list \cap Gates : ent[g].st # "open"
=============================================================================
