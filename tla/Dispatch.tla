------------------------------ MODULE Dispatch ------------------------------
(***************************************************************************)
(* The commands that drive a job and its worktree: `harness run` (adapter  *)
(* and worktree packages), `recover`, `gate approve|reject`, `prune` and   *)
(* `integrate` (cli package), each in a process of its own.  Every engine  *)
(* operation is one atomic step of EntityStore, which StateEngine          *)
(* implements; between two of them, and between two git commands, any      *)
(* other process may run, and a process may die.                           *)
(***************************************************************************)
EXTENDS HarnessModel

CONSTANTS
  WriteJobs,   \* jobs whose role writes, which run in a worktree
  Procs,       \* processes running harness commands
  Commands,    \* commands this run exercises
  CrashAt,     \* where a process may die
  GitFails,    \* git commands of a run that may fail
  Outliving,   \* when a process of the runtime may outlive its harness run
  Apart,       \* BOUND: pairs of commands that are never under way together
  MaxRev       \* BOUND: no command starts on a job past this revision

AllCommands == {"run", "recover", "approve", "reject", "prune", "integrate"}
Points == {"add", "mark", "work", "commit", "decide", "finish", "gate",
           "reap", "reset", "prune", "extend", "reread", "settle", "resolve",
           "rmtree", "rmbranch", "merge", "gc"}

ASSUME WriteJobsAreJobs == WriteJobs \subseteq Jobs
ASSUME CommandsAreKnown == Commands \subseteq AllCommands
ASSUME CrashAtPoints == CrashAt \subseteq Points
ASSUME GitFailures == GitFails \subseteq {"status", "commit", "diff"}
ASSUME WaysToOutlive == Outliving \subseteq {"killed", "returned"}
ASSUME ApartPairs == Apart \subseteq SUBSET AllCommands
ASSUME ReasonsAreKnown == {"review", "exhausted", "conflict"} \subseteq Reasons
ASSUME NoneIsNoProc == None \notin Procs
ASSUME NoneIsNoCommand == None \notin AllCommands

VARIABLES
  ent,        \* views of jobs and gates, as EntityStore has them
  tree,       \* the checkout .worktrees/<jid>: none, clean or dirty
  branch,     \* the branch job/<jid>: none, base or work
  orphan,     \* jobs of which a runtime process lives on, its run being over
  worker,     \* the live process a running job's worker stamp names
  at,         \* where each process is
  cmd,        \* its command, arguments and what it has read
  reclock,    \* who holds recover.lock
  delivered,  \* jobs merged into the task's delivery branch
  made,       \* history: completed jobs whose run committed work
  sweep       \* history: alone, done: a recover no other command overlapped

git == <<tree, branch>>
vars == <<ent, tree, branch, orphan, worker, at, cmd, reclock, delivered, made, sweep>>

Store == INSTANCE EntityStore

-----------------------------------------------------------------------------
(* Processes *)

NoCmd == [op |-> None, job |-> None, gate |-> None, rev |-> 0, seen |-> None,
          result |-> None, todo |-> {}, kept |-> {}, live |-> {}]

Begin(p, step, c) ==
  /\ at[p] = "idle" /\ c.op \in Commands
  /\ \A q \in Procs : {c.op, cmd[q].op} \notin Apart
  /\ at' = [at EXCEPT ![p] = step]
  /\ cmd' = [cmd EXCEPT ![p] = c]

Goto(p, step, c) ==
  /\ at' = [at EXCEPT ![p] = step]
  /\ cmd' = [cmd EXCEPT ![p] = c]
  /\ UNCHANGED <<worker, reclock, sweep>>

(* MUTANT: recover.lock is not released. *)
Exit_KeepsLock(p) ==
  /\ at' = [at EXCEPT ![p] = "idle"]
  /\ cmd' = [q \in Procs |-> IF q = p THEN NoCmd
                             ELSE [cmd[q] EXCEPT !.live = {j \in @ : worker[j] # p}]]
  /\ worker' = [j \in Jobs |-> IF worker[j] = p THEN None ELSE worker[j]]
  /\ reclock' = reclock
  /\ sweep' = "no"

(* The process ends, however it does: its pid is dead, also for a recover  *)
(* that has read it from a worker stamp, and its locks are free.           *)
Exit(p) ==
  /\ at' = [at EXCEPT ![p] = "idle"]
  /\ cmd' = [q \in Procs |-> IF q = p THEN NoCmd
                             ELSE [cmd[q] EXCEPT !.live = {j \in @ : worker[j] # p}]]
  /\ worker' = [j \in Jobs |-> IF worker[j] = p THEN None ELSE worker[j]]
  /\ reclock' = IF reclock = p THEN None ELSE reclock
  /\ sweep' = IF cmd[p].op # "recover" THEN sweep
              ELSE IF at[p] = "prune" /\ cmd[p].todo = {} /\ sweep = "alone"
                   THEN "done" ELSE "no"

(* OpenGateForJob: a gate that is open for the job and reason is reused.   *)
(* (BOUND: with no gate id left, the command goes no further.)             *)
OpenGateForJob(j, r) ==
  IF \E g \in Gates : ent[g] = OpenedGate(j, r)
  THEN UNCHANGED ent
  ELSE \E g \in Gates : Store!OpenGate(g, j, r)

-----------------------------------------------------------------------------
(* harness run: Adapter.Run *)

RunLoad(p) ==
  /\ \E j \in Jobs :
       /\ ent[j].st = "created" /\ ent[j].rev < MaxRev
       /\ Begin(p, IF j \in WriteJobs THEN "add" ELSE "mark",
                [NoCmd EXCEPT !.op = "run", !.job = j, !.rev = ent[j].rev])
  /\ sweep' = "no"
  /\ UNCHANGED <<ent, git, orphan, worker, reclock, delivered, made>>

(* MUTANT: the job's old branch is checked out again. *)
AddTree_Reuses(p) ==
  LET j == cmd[p].job
  IN  /\ at[p] = "add"
      /\ IF tree[j] = "none"
         THEN /\ tree' = [tree EXCEPT ![j] = "clean"]
              /\ branch' = [branch EXCEPT ![j] = IF @ = "none" THEN "base" ELSE @]
              /\ Goto(p, "mark", cmd[p])
         ELSE Exit(p) /\ UNCHANGED git
      /\ UNCHANGED <<ent, orphan, delivered, made>>

(* git worktree add -b refuses when the checkout or the branch exists. *)
AddTree(p) ==
  LET j == cmd[p].job
  IN  /\ at[p] = "add"
      /\ IF tree[j] = "none" /\ branch[j] = "none"
         THEN /\ tree' = [tree EXCEPT ![j] = "clean"]
              /\ branch' = [branch EXCEPT ![j] = "base"]
              /\ Goto(p, "mark", cmd[p])
         ELSE Exit(p) /\ UNCHANGED git
      /\ UNCHANGED <<ent, orphan, delivered, made>>

(* The CAS on the revision this process last saw. *)
Current(p) == ent[cmd[p].job].rev = cmd[p].rev

(* TransitionJobRunning stamps this process as the job's worker. *)
MarkRunning(p) ==
  LET j == cmd[p].job
  IN  /\ at[p] = "mark"
      /\ IF Current(p)
         THEN /\ Store!Move(j, "running")
              /\ worker' = [worker EXCEPT ![j] = p]
              /\ at' = [at EXCEPT ![p] = "work"]
              /\ cmd' = [cmd EXCEPT ![p].rev = @ + 1]
              /\ UNCHANGED <<reclock, sweep>>
         ELSE Exit(p) /\ UNCHANGED ent
      /\ UNCHANGED <<git, orphan, delivered, made>>

MayEdit(j) == j \in WriteJobs /\ tree[j] # "none"

(* The runtime edits the checkout; once the result is in hand, its repair  *)
(* call and the verification commands may still do so.                     *)
Edit(p) ==
  LET j == cmd[p].job
  IN  /\ at[p] \in {"work", "decide"}
      /\ MayEdit(j) /\ tree[j] # "dirty"
      /\ tree' = [tree EXCEPT ![j] = "dirty"]
      /\ UNCHANGED <<ent, branch, orphan, worker, at, cmd, reclock, delivered, made, sweep>>

(* The runtime's process group ends or is killed by the watchdog, and the  *)
(* artifacts are written.  What left the group's pipes stays alive.        *)
Work(p) ==
  /\ at[p] = "work"
  /\ Goto(p, "commit", cmd[p])
  /\ \/ UNCHANGED orphan
     \/ "returned" \in Outliving /\ orphan' = orphan \cup {cmd[p].job}
  /\ UNCHANGED <<ent, git, delivered, made>>

(* MUTANT: a commit that fails is taken for one that had nothing to do. *)
Commit_FailureIgnored(p) ==
  LET j == cmd[p].job
  IN  /\ at[p] = "commit"
      /\ \/ /\ \/ tree[j] # "dirty"
               \/ GitFails \cap {"status", "commit"} # {}
            /\ Goto(p, "decide", cmd[p])
            /\ UNCHANGED git
         \/ /\ tree[j] = "dirty"
            /\ tree' = [tree EXCEPT ![j] = "clean"]
            /\ branch' = [branch EXCEPT ![j] = "work"]
            /\ Goto(p, "decide", cmd[p])
      /\ UNCHANGED <<ent, orphan, delivered, made>>

(* commitWorktree, when git status reports changes; a git status that      *)
(* fails reports none, and the commit may fail.                            *)
Commit(p) ==
  LET j == cmd[p].job
  IN  /\ at[p] = "commit"
      /\ \/ /\ tree[j] # "dirty" \/ "status" \in GitFails
            /\ Goto(p, "decide", cmd[p])
            /\ UNCHANGED git
         \/ /\ tree[j] = "dirty"
            /\ tree' = [tree EXCEPT ![j] = "clean"]
            /\ branch' = [branch EXCEPT ![j] = "work"]
            /\ Goto(p, "decide", cmd[p])
         \/ /\ tree[j] = "dirty" /\ "commit" \in GitFails
            /\ Goto(p, "finish", [cmd[p] EXCEPT !.result = "needs-human"])
            /\ UNCHANGED git
      /\ UNCHANGED <<ent, orphan, delivered, made>>

(* HEAD of the checkout has left the base commit. *)
HasWork(j) == tree[j] # "none" /\ branch[j] = "work"

(* What decide tells apart: how the runtime ended, whether its result       *)
(* stands, the scope review, the verification commands.                    *)
Results == {"timeout", "exec-failed", "torn", "invalid", "review", "verify-failed", "ok"}

Verdict(j, r) ==
  CASE r = "timeout" -> "timeout"
    [] r \in {"exec-failed", "torn"} -> IF HasWork(j) THEN "needs-human" ELSE "failed"
    [] r \in {"invalid", "verify-failed"} -> "failed"
    [] r = "review" -> IF MayEdit(j) THEN "needs-human" ELSE "completed"
    [] r = "ok" -> "completed"

Decide(p) ==
  /\ at[p] = "decide"
  /\ \E r \in Results :
       Goto(p, "finish", [cmd[p] EXCEPT !.result = Verdict(cmd[p].job, r)])
  /\ UNCHANGED <<ent, git, orphan, delivered, made>>

(* finish: the terminal CAS, then the gate of a job that needs a human. *)
Finish(p) ==
  LET j == cmd[p].job
      to == cmd[p].result
  IN  /\ at[p] = "finish"
      /\ IF Current(p)
         THEN /\ Store!Move(j, to)
              /\ made' = IF to = "completed" /\ branch[j] = "work" THEN made \cup {j} ELSE made
              /\ IF to = "needs-human" THEN Goto(p, "gate", cmd[p]) ELSE Exit(p)
         ELSE Exit(p) /\ UNCHANGED <<ent, made>>
      /\ UNCHANGED <<git, orphan, delivered>>

OpenGate(p) ==
  /\ at[p] = "gate"
  /\ CASE cmd[p].op = "run" -> OpenGateForJob(cmd[p].job, "review") /\ Exit(p)
       [] cmd[p].op = "integrate" -> OpenGateForJob(cmd[p].job, "conflict") /\ Exit(p)
       [] cmd[p].op = "recover" -> /\ OpenGateForJob(cmd[p].job, "exhausted")
                                   /\ Goto(p, "reap", cmd[p])
  /\ UNCHANGED <<git, orphan, delivered, made>>

-----------------------------------------------------------------------------
(* worktree.Remove and RemoveWorktreeOnly *)

(* worktree remove --force and prune, then branch -D, which git refuses    *)
(* while a checkout has the branch.                                        *)
RemoveTree(p) ==
  /\ at[p] = "rmtree"
  /\ tree' = [tree EXCEPT ![cmd[p].job] = "none"]
  /\ Goto(p, "rmbranch", cmd[p])
  /\ UNCHANGED <<ent, branch, orphan, delivered, made>>

RemoveBranch(p) ==
  LET j == cmd[p].job
  IN  /\ at[p] = "rmbranch"
      /\ branch' = IF tree[j] = "none" THEN [branch EXCEPT ![j] = "none"] ELSE branch
      /\ CASE cmd[p].op \in {"approve", "reject"} -> Exit(p)
           [] cmd[p].op = "recover" /\ j \in cmd[p].todo -> Goto(p, "reset", cmd[p])
           [] OTHER -> Goto(p, "prune", cmd[p])
      /\ UNCHANGED <<ent, tree, orphan, delivered, made>>

-----------------------------------------------------------------------------
(* harness recover *)

Alone(p) == \A q \in Procs \ {p} : at[q] = "idle"

(* MUTANT: a second recover does not stop at recover.lock. *)
LockFree_NoLock == TRUE

LockFree == reclock = None

(* TryLock, RebuildViews (which changes no view here), and the job views. *)
RecoverStart(p) ==
  /\ LockFree
  /\ reclock' = p
  /\ LET running == {j \in Jobs : ent[j].st = "running"}
     IN  Begin(p, "reap", [NoCmd EXCEPT !.op = "recover", !.todo = running,
                                        !.live = {j \in running : worker[j] # None}])
  /\ sweep' = IF Alone(p) THEN "alone" ELSE "no"
  /\ UNCHANGED <<ent, git, orphan, worker, delivered, made>>

(* MUTANT: every running job is taken for stale. *)
Alive_Never(p, j) == FALSE

(* processAlive on the pid and boot id of the worker stamp p has read. *)
Alive(p, j) == j \in cmd[p].live

Reap(p) ==
  /\ at[p] = "reap"
  /\ \E j \in cmd[p].todo :
       IF Alive(p, j)
       THEN Goto(p, "reap", [cmd[p] EXCEPT !.todo = @ \ {j}, !.kept = @ \cup {j}])
       ELSE Goto(p, IF j \in WriteJobs THEN "rmtree" ELSE "reset",
                 [cmd[p] EXCEPT !.job = j])
  /\ UNCHANGED <<ent, git, orphan, delivered, made>>

(* MUTANT: the job that has no retry left gets no gate. *)
Reset_NoGate(p) ==
  LET j == cmd[p].job
  IN  /\ at[p] = "reset"
      /\ IF ent[j].st = "running" THEN Store!Recover(j) ELSE UNCHANGED ent
      /\ Goto(p, "reap", [cmd[p] EXCEPT !.todo = @ \ {j}])
      /\ UNCHANGED <<git, orphan, delivered, made>>

(* RecoverJob has no CAS: it resets the job if it still is running, and    *)
(* returns it as it then is.                                               *)
Reset(p) ==
  LET j == cmd[p].job
  IN  /\ at[p] = "reset"
      /\ IF ent[j].st = "running" THEN Store!Recover(j) ELSE UNCHANGED ent
      /\ Goto(p, IF ent'[j].st = "needs-human" THEN "gate" ELSE "reap",
              [cmd[p] EXCEPT !.todo = @ \ {j}])
      /\ UNCHANGED <<git, orphan, delivered, made>>

(* MUTANT: only the checkouts of settled jobs are orphans. *)
Orphans_Settled(p) == {j \in Jobs : tree[j] # "none" /\ ent[j].st # "created"}

(* MUTANT: every checkout is an orphan. *)
Orphans_All(p) == {j \in Jobs : tree[j] # "none"}

(* The checkouts no running job with a live worker owns. *)
Orphans(p) == {j \in Jobs : tree[j] # "none"} \ cmd[p].kept

(* pruneOrphanWorktrees asks git for the checkouts. *)
ListOrphans(p) ==
  /\ at[p] = "reap" /\ cmd[p].todo = {}
  /\ Goto(p, "prune", [cmd[p] EXCEPT !.todo = Orphans(p)])
  /\ UNCHANGED <<ent, git, orphan, delivered, made>>

PruneOrphan(p) ==
  /\ at[p] = "prune"
  /\ \E j \in cmd[p].todo :
       /\ tree' = [tree EXCEPT ![j] = "none"]
       /\ Goto(p, "rmbranch", [cmd[p] EXCEPT !.job = j, !.todo = @ \ {j}])
  /\ UNCHANGED <<ent, branch, orphan, delivered, made>>

RecoverEnd(p) ==
  /\ at[p] = "prune" /\ cmd[p].todo = {}
  /\ Exit(p)
  /\ UNCHANGED <<ent, git, orphan, delivered, made>>

-----------------------------------------------------------------------------
(* harness gate approve, gate reject *)

(* The gate and its job, read from their views; approve may extend the     *)
(* job's scope first.                                                      *)
GateLoad(p) ==
  /\ \E g \in Gates, op \in {"approve", "reject"} :
       LET j == ent[g].job
       IN  /\ ent[g] # Absent
           /\ \E step \in {"settle", "extend"} :
                /\ step = "extend" => op = "approve" /\ Globs # {} /\ ent[j].rev < MaxRev
                /\ Begin(p, step, [NoCmd EXCEPT !.op = op, !.job = j, !.gate = g,
                                               !.rev = ent[j].rev, !.seen = ent[j].st])
  /\ sweep' = "no"
  /\ UNCHANGED <<ent, git, orphan, worker, reclock, delivered, made>>

ExtendScope(p) ==
  /\ at[p] = "extend"
  /\ IF Current(p)
     THEN /\ \E x \in Globs : Store!Extend(cmd[p].job, x)
          /\ Goto(p, "reread", cmd[p])
     ELSE Exit(p) /\ UNCHANGED ent
  /\ UNCHANGED <<git, orphan, delivered, made>>

Reread(p) ==
  /\ at[p] = "reread"
  /\ Goto(p, "settle", [cmd[p] EXCEPT !.seen = ent[cmd[p].job].st])
  /\ UNCHANGED <<ent, git, orphan, delivered, made>>

(* ResolveGate accepts a gate that was resolved before. *)
Settle(p) ==
  LET approve == cmd[p].op = "approve"
  IN  /\ at[p] = "settle"
      /\ Store!ResolveGate(cmd[p].gate, IF approve THEN "approved" ELSE "rejected")
      /\ IF approve /\ cmd[p].seen \notin Unfinished
         THEN Exit(p)
         ELSE Goto(p, "resolve", cmd[p])
      /\ UNCHANGED <<git, orphan, delivered, made>>

(* MUTANT: a job is resolved whatever its status is by then. *)
ResolveJob_AnyStatus(p) ==
  LET j == cmd[p].job
      to == IF cmd[p].op = "approve" THEN "created" ELSE "cancelled"
  IN  /\ at[p] = "resolve"
      /\ Store!Put(j, Store!Advance(ent[j], to))
      /\ made' = made \ {j}
      /\ Goto(p, "rmtree", cmd[p])
      /\ UNCHANGED <<git, orphan, delivered>>

ResolveJob(p) ==
  LET j == cmd[p].job
      to == IF cmd[p].op = "approve" THEN "created" ELSE "cancelled"
  IN  /\ at[p] = "resolve"
      /\ IF Resolvable(ent[j].st, to)
         THEN /\ Store!Resolve(j, to)
              /\ made' = made \ {j}
              /\ Goto(p, "rmtree", cmd[p])
         ELSE Exit(p) /\ UNCHANGED <<ent, made>>
      /\ UNCHANGED <<git, orphan, delivered>>

-----------------------------------------------------------------------------
(* harness prune, harness integrate *)

Prunable == {"completed", "failed", "timeout", "cancelled"}

(* With nothing to prune the command changes nothing. *)
PruneLoad(p) ==
  /\ Begin(p, "gc", [NoCmd EXCEPT !.op = "prune",
                                  !.todo = {j \in WriteJobs : ent[j].st \in Prunable}])
  /\ cmd'[p].todo # {}
  /\ sweep' = "no"
  /\ UNCHANGED <<ent, git, orphan, worker, reclock, delivered, made>>

IntegrateLoad(p) ==
  /\ Begin(p, "merge", [NoCmd EXCEPT !.op = "integrate",
                                     !.todo = {j \in WriteJobs : ent[j].st = "completed"}])
  /\ sweep' = "no"
  /\ UNCHANGED <<ent, git, orphan, worker, reclock, delivered, made>>

(* One branch is merged, or refused for scope or conflict; a branch that   *)
(* is gone always conflicts.                                               *)
Merge(p) ==
  /\ at[p] = "merge"
  /\ \E j \in cmd[p].todo :
       \/ Goto(p, "gate", [cmd[p] EXCEPT !.job = j])
       \/ /\ branch[j] # "none"
          /\ Goto(p, "merge", [cmd[p] EXCEPT !.todo = @ \ {j}, !.kept = @ \cup {j}])
  /\ UNCHANGED <<ent, git, orphan, delivered, made>>

(* Everything merged: promote the delivery branch, then reclaim checkouts. *)
Promote(p) ==
  /\ at[p] = "merge" /\ cmd[p].todo = {}
  /\ delivered' = cmd[p].kept
  /\ IF cmd[p].kept = {} THEN Exit(p)
                         ELSE Goto(p, "gc", [cmd[p] EXCEPT !.todo = cmd[p].kept])
  /\ UNCHANGED <<ent, git, orphan, made>>

(* MUTANT: the branch is removed as well. *)
ReclaimTree_WithBranch(p) ==
  /\ at[p] = "gc"
  /\ \E j \in cmd[p].todo :
       /\ tree' = [tree EXCEPT ![j] = "none"]
       /\ branch' = [branch EXCEPT ![j] = "none"]
       /\ IF cmd[p].todo = {j} THEN Exit(p)
                               ELSE Goto(p, "gc", [cmd[p] EXCEPT !.todo = @ \ {j}])
  /\ UNCHANGED <<ent, orphan, delivered, made>>

(* RemoveWorktreeOnly keeps the branch. *)
ReclaimTree(p) ==
  /\ at[p] = "gc"
  /\ \E j \in cmd[p].todo :
       /\ tree' = [tree EXCEPT ![j] = "none"]
       /\ IF cmd[p].todo = {j} THEN Exit(p)
                               ELSE Goto(p, "gc", [cmd[p] EXCEPT !.todo = @ \ {j}])
  /\ UNCHANGED <<ent, branch, orphan, delivered, made>>

-----------------------------------------------------------------------------
(* The process is killed; the operating system frees its locks.  What it   *)
(* runs in a process group of its own is not killed with it.               *)
Die(p) ==
  /\ at[p] \in CrashAt
  /\ Exit(p)
  /\ \/ UNCHANGED orphan
     \/ /\ "killed" \in Outliving /\ at[p] \in {"work", "decide"}
        /\ orphan' = orphan \cup {cmd[p].job}
  /\ UNCHANGED <<ent, git, delivered, made>>

(* A process left over from a run edits what is at the path it knows, be   *)
(* it the checkout of a later run, or ends.                                *)
OrphanEdit(j) ==
  /\ j \in orphan /\ MayEdit(j)
  /\ tree' = [tree EXCEPT ![j] = "dirty"]
  /\ UNCHANGED <<ent, branch, orphan, worker, at, cmd, reclock, delivered, made, sweep>>

OrphanEnd(j) ==
  /\ j \in orphan
  /\ orphan' = orphan \ {j}
  /\ UNCHANGED <<ent, git, worker, at, cmd, reclock, delivered, made, sweep>>

(* Sessions start with delegated jobs and no worktrees. *)
Init ==
  /\ ent = [e \in Entities |-> IF e \in Jobs THEN Fresh(e) ELSE Absent]
  /\ tree = [j \in Jobs |-> "none"]
  /\ branch = [j \in Jobs |-> "none"]
  /\ orphan = {}
  /\ worker = [j \in Jobs |-> None]
  /\ at = [p \in Procs |-> "idle"]
  /\ cmd = [p \in Procs |-> NoCmd]
  /\ reclock = None
  /\ delivered = {}
  /\ made = {}
  /\ sweep = "no"

Load(p) == \/ RunLoad(p) \/ RecoverStart(p) \/ GateLoad(p) \/ PruneLoad(p) \/ IntegrateLoad(p)

Step(p) ==
  \/ AddTree(p) \/ MarkRunning(p) \/ Edit(p) \/ Work(p) \/ Commit(p) \/ Decide(p)
  \/ Finish(p)
  \/ OpenGate(p) \/ RemoveTree(p) \/ RemoveBranch(p)
  \/ Reap(p) \/ Reset(p) \/ ListOrphans(p) \/ PruneOrphan(p) \/ RecoverEnd(p)
  \/ ExtendScope(p) \/ Reread(p) \/ Settle(p) \/ ResolveJob(p)
  \/ Merge(p) \/ Promote(p) \/ ReclaimTree(p)

Next == \/ \E p \in Procs : Load(p) \/ Step(p) \/ Die(p)
        \/ \E j \in Jobs : OrphanEdit(j) \/ OrphanEnd(j)

Spec == Init /\ [][Next]_vars /\ \A p \in Procs : WF_vars(Step(p))

-----------------------------------------------------------------------------
(* Properties *)

(* Every variable keeps its type, and recover.lock is held by a recover    *)
(* that is under way.                                                      *)
TypeOK ==
  /\ ent \in [Entities -> Image \cup {Absent}]
  /\ tree \in [Jobs -> {"none", "clean", "dirty"}]
  /\ branch \in [Jobs -> {"none", "base", "work"}]
  /\ orphan \subseteq Jobs
  /\ worker \in [Jobs -> Procs \cup {None}]
  /\ at \in [Procs -> {"idle"} \cup Points]
  /\ cmd \in [Procs -> [op : Commands \cup {None}, job : Jobs \cup {None},
                        gate : Gates \cup {None}, rev : Nat,
                        seen : JobStatus \cup {None},
                        result : JobStatus \cup {None},
                        todo : SUBSET Jobs, kept : SUBSET Jobs, live : SUBSET Jobs]]
  /\ reclock \in Procs \cup {None}
  /\ reclock # None => cmd[reclock].op = "recover"
  /\ delivered \subseteq WriteJobs /\ made \subseteq WriteJobs
  /\ sweep \in {"no", "alone", "done"}

(* The process runs job j's runtime or has its result still to record. *)
Working(p, j) == /\ at[p] \in {"work", "commit", "decide", "finish"}
                 /\ cmd[p].job = j

(* No two processes ever work on one job: the CAS to running, the liveness *)
(* test of recover and recover.lock together let a job be dispatched again *)
(* only when the process that had it is dead.                              *)
OneWorker == \A j \in Jobs, p, q \in Procs : Working(p, j) /\ Working(q, j) => p = q

(* A running job whose worker lives stays running until that worker itself *)
(* records the result: recover, gates, prune and integrate leave it alone. *)
OnlyWorkerEnds ==
  [][\A j \in Jobs : ent[j].st = "running" /\ worker[j] # None /\ ent'[j].st # "running"
       => at[worker[j]] = "finish" /\ cmd[worker[j]].job = j]_vars

(* Process q takes a step of its command. *)
Moves(q) == at'[q] # at[q] \/ cmd'[q].todo # cmd[q].todo

(* A process extends the scope of job j, for an approve.                   *)
Extends(q, j) == at[q] = "extend" /\ Moves(q) /\ cmd[q].op = "approve" /\ cmd[q].job = j

(* While a process works on a job, nothing changes the job but that        *)
(* process, when it records the result, and a human who widens the scope.  *)
(* So only that can make the CAS that records the result fail, and the job *)
(* runs on all the same.  (ExtendJobScope looks at no status, although the *)
(* scope changes "only while the job is not running" in the v1 design.)    *)
OnlyScopeIntervenes ==
  [][\A j \in Jobs, p \in Procs :
       Working(p, j) /\ ent'[j] # ent[j]
         => \/ at[p] = "finish" /\ Moves(p)
            \/ /\ \E q \in Procs : Extends(q, j)
               /\ ent'[j].st = "running"]_vars

(* q removes the checkout of job j although a process works on it: recover *)
(* takes it for an orphan, as it did not find j alive when it read the     *)
(* jobs; prune had found j ended; an approve still owes the removal.       *)
ActsOnOldList(q, j) ==
  /\ Moves(q)
  /\ \/ at[q] = "prune" /\ j \in cmd[q].todo /\ j \notin cmd[q].kept
     \/ at[q] = "gc" /\ cmd[q].op = "prune" /\ j \in cmd[q].todo
     \/ at[q] = "rmtree" /\ cmd[q].op = "approve" /\ cmd[q].job = j

(* Nothing else takes the checkout of a job a process is working on: not   *)
(* the removal that follows a rejection, not recover's removal of a dead   *)
(* worker's checkout, not the reclaim that follows an integrate.           *)
LiveCheckoutStays ==
  [][\A j \in Jobs, p \in Procs :
       Working(p, j) /\ tree[j] # "none" /\ tree'[j] = "none"
         => \E q \in Procs : ActsOnOldList(q, j)]_vars

(* q deletes the branch of job j: a recover that takes its checkout for an *)
(* orphan, or finds its worker gone, the run having ended meanwhile; or an *)
(* approve that sent it back to created and is late with the removal.      *)
Discards(q, j) ==
  /\ at[q] = "rmbranch" /\ Moves(q)
  /\ cmd[q].op \in {"recover", "approve"} /\ cmd[q].job = j

(* Work a completed job has committed is given up by these two only: the   *)
(* removal that follows a rejection, a prune and the reclaim that follows  *)
(* an integrate leave the branch as it is, however late they come.         *)
CompletedWorkStays ==
  [][\A j \in Jobs : ent[j].st = "completed" /\ branch[j] = "work" /\ branch'[j] # "work"
       => \E q \in Procs : Discards(q, j)]_vars

(* A job never starts on what an abandoned run of it left: a checkout with *)
(* edits, or a branch with commits of theirs.                              *)
CleanRerun ==
  [][\A j \in Jobs : ent[j].st # "running" /\ ent'[j].st = "running"
       => tree[j] # "dirty" /\ branch[j] # "work"]_vars

(* When a recover no other command overlapped ends, no job is left running, *)
(* no checkout is left, and every created job can be dispatched: its branch *)
(* is gone too.                                                             *)
SweptClean ==
  sweep = "done" => \A j \in Jobs : /\ ent[j].st # "running"
                                    /\ tree[j] = "none"
                                    /\ ent[j].st = "created" => branch[j] = "none"

(* What a completed job committed stays on its branch until it is merged:  *)
(* "captured ... and mergeable at integrate" (adapter.go).                 *)
CompletedWorkKept ==
  \A j \in made : ent[j].st = "completed" /\ j \notin delivered => branch[j] = "work"

(* "Whenever a job enters needs-human, opens a gate" (adapter.go): one is  *)
(* open once no command is under way.                                      *)
NeedsHumanHasGate ==
  (\A p \in Procs : at[p] = "idle") =>
    \A j \in Jobs : ent[j].st = "needs-human" =>
      \E g \in Gates : ent[g].st = "open" /\ ent[g].job = j
=============================================================================
