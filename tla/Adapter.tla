------------------------------- MODULE Adapter -------------------------------
(***************************************************************************)
(* `harness run` in detail: internal/adapter over internal/runtime.  The   *)
(* steps "work" and "decide" of Dispatch are opened up: the runtime's      *)
(* process, the watchdog that races it, the result it leaves in final.json *)
(* or on stdout, the files it edits, the commit, the repair call, the      *)
(* scope review and the verification commands.  Integration reviews the    *)
(* branch once more.  Every other command is Dispatch's.                   *)
(***************************************************************************)
EXTENDS Dispatch, Scope

CONSTANTS
  CodexJobs,    \* jobs whose result is read from a file; the others print it
  Allowed,      \* scope.allowed of the jobs when they are delegated
  Denied,       \* scope.denied of the jobs
  Ignored,      \* paths .gitignore covers
  LateEditors,  \* what edits after the commit: "repair" call, "verify" commands
  Escapes,      \* whether a child of the runtime may leave its process group
  ReservedFails \* whether reading reserved.json may fail

ASSUME CodexJobsAreJobs == CodexJobs \subseteq Jobs
ASSUME ScopesArePatterns == Allowed \cup Denied \cup Globs \subseteq Patterns
ASSUME IgnoredArePaths == Ignored \subseteq Paths
ASSUME LateEditorsKnown == LateEditors \subseteq {"repair", "verify"}
ASSUME FailuresKnown == Escapes \in BOOLEAN /\ ReservedFails \in BOOLEAN

VARIABLES
  step,      \* where a process is inside Dispatch's work and decide
  proc,      \* the runtime process of the call under way, or how it exited
  pipes,     \* held: a child that left the group has the call's output open
  timer,     \* the watchdog of that call
  res,       \* how the call ended, and the result that was read
  final,     \* per job, final.json of codex; per process, stdout of claude
  edits,     \* changes in a job's checkout that are not committed
  commits,   \* changes on a job's branch
  early,     \* history: the edits there when the runtime returned
  shipped,   \* history: the changes of a job that were merged last
  blind      \* history: what the reviews that let them pass could not see

call == <<proc, pipes, timer, res>>
files == <<edits, commits>>
history == <<early, shipped, blind>>
allvars == <<vars, step, call, final, files, history>>

(* A result: torn or missing, complete JSON that is no job-result, or one. *)
Bodies == {"torn", "invalid", "valid"}
NoRes == [end |-> "none", body |-> "torn"]

(* Where the runtime that p runs leaves its result. *)
Out(p) == IF cmd[p].job \in CodexJobs THEN cmd[p].job ELSE p

JobScope(j) == [allowed |-> Allowed \cup ent[j].allowed, denied |-> Denied]

-----------------------------------------------------------------------------
(* Dispatch's steps, and what they do to the files *)

(* A removed checkout takes its edits along, a removed branch its commits. *)
FollowTrees ==
  /\ edits' = [j \in Jobs |-> IF tree'[j] = "none" THEN {} ELSE edits[j]]
  /\ commits' = [j \in Jobs |-> IF branch'[j] = "work" THEN commits[j] ELSE {}]

Inherit(A) == A /\ FollowTrees /\ UNCHANGED <<step, call, final, history>>

Start(p) ==
  LET j == cmd[p].job
  IN  /\ MarkRunning(p)
      /\ IF at'[p] = "work"
         THEN /\ step' = [step EXCEPT ![p] = "spawn"]
              /\ early' = [early EXCEPT ![j] = {}]
              /\ blind' = [blind EXCEPT ![j].run = "nothing"]
         ELSE UNCHANGED <<step, early, blind>>
      /\ UNCHANGED <<call, final, files, shipped>>

(* MUTANT: git status does not list new files either. *)
Touch_Unlisted(j, x) ==
  /\ MayEdit(j) /\ x \notin edits[j]
  /\ edits' = [edits EXCEPT ![j] = @ \cup {x}]
  /\ UNCHANGED <<vars, step, call, final, commits, history>>

(* Write x into the checkout of j; git status does not list ignored files. *)
Touch(j, x) ==
  /\ MayEdit(j) /\ x \notin edits[j]
  /\ edits' = [edits EXCEPT ![j] = @ \cup {x}]
  /\ tree' = IF x \in Ignored THEN tree ELSE [tree EXCEPT ![j] = "dirty"]
  /\ UNCHANGED <<ent, branch, orphan, worker, at, cmd, reclock, delivered, made, sweep>>
  /\ UNCHANGED <<step, call, final, commits, history>>

-----------------------------------------------------------------------------
(* runProcess: the runtime and its watchdog *)

(* MUTANT: the first call has no watchdog either. *)
Launch_NoTimer(p, watchdog) ==
  /\ timer' = [timer EXCEPT ![p] = "off"]
  /\ final' = IF cmd[p].job \in CodexJobs THEN final ELSE [final EXCEPT ![p] = "torn"]

(* A call begins; codex leaves the file of an earlier call in its place.   *)
Launch(p, watchdog) ==
  /\ timer' = [timer EXCEPT ![p] = watchdog]
  /\ final' = IF cmd[p].job \in CodexJobs THEN final ELSE [final EXCEPT ![p] = "torn"]

Spawn(p) ==
  /\ step[p] = "spawn"
  /\ step' = [step EXCEPT ![p] = "wait"]
  /\ proc' = [proc EXCEPT ![p] = "running"]
  /\ Launch(p, "armed")
  /\ UNCHANGED <<vars, pipes, res, files, history>>

(* What the runtime does, at its own pace: edit, write a result, exit.  So *)
(* does a child that has left the group with the pipes: setsid is enough.  *)
(* The hook that asks before a write does not see what a shell writes.     *)
Lives(p) == proc[p] = "running" \/ pipes[p] = "held"

RuntimeEdit(p) ==
  /\ Lives(p)
  /\ step[p] = "rewait" => "repair" \in LateEditors
  /\ \E x \in Paths : Touch(cmd[p].job, x)

RuntimeResult(p) ==
  /\ Lives(p)
  /\ \E b \in Bodies \ {final[Out(p)]} : final' = [final EXCEPT ![Out(p)] = b]
  /\ UNCHANGED <<vars, step, call, files, history>>

RuntimeExit(p) ==
  /\ proc[p] = "running"
  /\ \E code \in {"ok", "bad"} : proc' = [proc EXCEPT ![p] = code]
  /\ UNCHANGED <<vars, step, pipes, timer, res, final, files, history>>

Escape(p) ==
  /\ Escapes /\ proc[p] = "running" /\ pipes[p] = "free"
  /\ pipes' = [pipes EXCEPT ![p] = "held"]
  /\ UNCHANGED <<vars, step, proc, timer, res, final, files, history>>

(* The child ends, or lives on without the pipes (see Work). *)
LetGo(p) ==
  /\ pipes[p] = "held"
  /\ pipes' = [pipes EXCEPT ![p] = "free"]
  /\ UNCHANGED <<vars, step, proc, timer, res, final, files, history>>

Timeout(p) ==
  /\ timer[p] = "armed"
  /\ timer' = [timer EXCEPT ![p] = "fired"]
  /\ UNCHANGED <<vars, step, proc, pipes, res, final, files, history>>

(* The call is over, cmd.Wait having returned: the process is reaped and   *)
(* nobody holds the pipes.  The timer is stopped, the result read, and the *)
(* artifacts are written.                                                  *)
Returned(p, end) ==
  /\ pipes[p] = "free"
  /\ Work(p)
  /\ step' = [step EXCEPT ![p] = "commit"]
  /\ proc' = [proc EXCEPT ![p] = "none"]
  /\ timer' = [timer EXCEPT ![p] = "off"]
  /\ res' = [res EXCEPT ![p] = [end |-> end, body |-> final[Out(p)]]]
  /\ early' = [early EXCEPT ![cmd[p].job] = edits[cmd[p].job]]
  /\ UNCHANGED <<pipes, final, files, shipped, blind>>

(* cmd.Start fails: an exit code of -1, and whatever result there is.      *)
SpawnFails(p) ==
  /\ step[p] = "spawn"
  /\ Returned(p, "bad") /\ UNCHANGED orphan

Reaped(p) ==
  /\ step[p] = "wait" /\ proc[p] \in {"ok", "bad"}
  /\ Returned(p, proc[p])

(* MUTANT: the watchdog does not kill the runtime. *)
Kill_Not(p) ==
  /\ step[p] = "wait" /\ timer[p] = "fired"
  /\ pipes[p] = "free" /\ Work(p)
  /\ step' = [step EXCEPT ![p] = "commit"]
  /\ timer' = [timer EXCEPT ![p] = "off"]
  /\ res' = [res EXCEPT ![p] = [end |-> "killed", body |-> final[Out(p)]]]
  /\ early' = [early EXCEPT ![cmd[p].job] = edits[cmd[p].job]]
  /\ UNCHANGED <<proc, pipes, final, files, shipped, blind>>

(* The watchdog kills the whole group; select may take this case when the  *)
(* process has exited as well.  What left the group is not killed.         *)
Kill(p) ==
  /\ step[p] = "wait" /\ timer[p] = "fired"
  /\ step' = [step EXCEPT ![p] = "reap"]
  /\ proc' = [proc EXCEPT ![p] = "none"]
  /\ UNCHANGED <<vars, pipes, timer, res, final, files, history>>

(* "<-done // reap": there is no bound on this wait. *)
Expired(p) ==
  /\ step[p] = "reap"
  /\ Returned(p, "killed")

-----------------------------------------------------------------------------
(* After the first call: commit, then decide *)

(* MUTANT: the work of a run that failed is not committed. *)
CommitWork_OnSuccess(p) ==
  LET j == cmd[p].job
      done == tree[j] = "dirty" /\ res[p].end = "ok"
  IN  /\ at[p] = "commit"
      /\ Goto(p, "decide", cmd[p])
      /\ tree' = IF done THEN [tree EXCEPT ![j] = "clean"] ELSE tree
      /\ branch' = IF done THEN [branch EXCEPT ![j] = "work"] ELSE branch
      /\ edits' = IF done THEN [edits EXCEPT ![j] = @ \cap Ignored] ELSE edits
      /\ commits' = IF done THEN [commits EXCEPT ![j] = edits[j] \ Ignored] ELSE commits
      /\ step' = [step EXCEPT ![p] = "judge"]
      /\ UNCHANGED <<ent, orphan, delivered, made, call, final, history>>

(* commitWorktree stages everything that is not ignored. *)
CommitWork(p) ==
  LET j == cmd[p].job
      done == tree[j] = "dirty" /\ tree'[j] = "clean"
  IN  /\ Commit(p)
      /\ edits' = IF done THEN [edits EXCEPT ![j] = @ \cap Ignored] ELSE edits
      /\ commits' = IF done THEN [commits EXCEPT ![j] = @ \cup (edits[j] \ Ignored)] ELSE commits
      /\ step' = [step EXCEPT ![p] = IF at'[p] = "decide" THEN "judge" ELSE "none"]
      /\ UNCHANGED <<call, final, history>>

(* decide returns: the job's terminal status is known. *)
Conclude(p, r) ==
  /\ Goto(p, "finish", [cmd[p] EXCEPT !.result = Verdict(cmd[p].job, r)])
  /\ step' = [step EXCEPT ![p] = "none"]
  /\ proc' = [proc EXCEPT ![p] = "none"]
  /\ res' = [res EXCEPT ![p] = NoRes]
  /\ UNCHANGED <<ent, git, orphan, delivered, made, pipes, timer, final, files, history>>

(* A result that stands: review the diff of a write job, then verify. *)
Accept(p) ==
  /\ step' = [step EXCEPT ![p] = IF cmd[p].job \in WriteJobs THEN "review" ELSE "verify"]
  /\ proc' = [proc EXCEPT ![p] = "none"]
  /\ UNCHANGED <<vars, pipes, timer, res, final, files, history>>

(* The process layer comes first, then the result. *)
Judge(p) ==
  /\ step[p] = "judge"
  /\ CASE res[p].end = "killed"  -> Conclude(p, "timeout")
       [] res[p].end = "bad"     -> Conclude(p, "exec-failed")
       [] res[p].end = "ok"      ->
            CASE res[p].body = "torn"    -> Conclude(p, "torn")
              [] res[p].body = "valid"   -> Accept(p)
              [] res[p].body = "invalid" ->  \* repair: a call without a watchdog
                   /\ step' = [step EXCEPT ![p] = "rewait"]
                   /\ \E s \in {"running", "bad"} : proc' = [proc EXCEPT ![p] = s]
                   /\ Launch(p, "off")
                   /\ UNCHANGED <<vars, pipes, res, files, history>>

(* The repair call returned: its exit code is not looked at. *)
ReapRepair(p) ==
  /\ step[p] = "rewait" /\ proc[p] \in {"ok", "bad"} /\ pipes[p] = "free"
  /\ IF final[Out(p)] = "valid" THEN Accept(p) ELSE Conclude(p, "invalid")

(* What a review may fail to see: all, when git diff fails, which counts   *)
(* as no violation; the reserved paths, when reserved.json cannot be read. *)
Blindness == {"nothing", "reserved", "all"}

MayBe(b) == /\ b = "reserved" => ReservedFails
            /\ b = "all" => "diff" \in GitFails

Found(changed, sc, b) ==
  IF b = "all" THEN {}
  ELSE Violations(changed, sc, IF b = "nothing" THEN Reserved ELSE {})

(* scopeReview of everything that differs from the base, ignored files     *)
(* too; git also fails when the checkout is gone.                          *)
Review(p) ==
  LET j == cmd[p].job
      changed == edits[j] \cup commits[j]
  IN  /\ step[p] = "review"
      /\ \E b \in Blindness :
           /\ IF MayEdit(j) THEN MayBe(b) ELSE b = "all"
           /\ IF Found(changed, JobScope(j), b) # {}
              THEN Conclude(p, "review")
              ELSE /\ step' = [step EXCEPT ![p] = "verify"]
                   /\ blind' = [blind EXCEPT ![j].run = b]
                   /\ UNCHANGED <<vars, call, final, files, early, shipped>>

(* The verification commands run in the checkout. *)
VerifyEdit(p) ==
  /\ step[p] = "verify" /\ "verify" \in LateEditors
  /\ \E x \in Paths : Touch(cmd[p].job, x)

Verify(p) ==
  /\ step[p] = "verify"
  /\ \E r \in {"ok", "verify-failed"} : Conclude(p, r)

-----------------------------------------------------------------------------
(* Integration, deaths and what outlives a run *)

(* integrate looks at the branch itself before it merges it: diffClassify, *)
(* with failures of its own.  The scope it reads is that of the view,      *)
(* which only grows.                                                       *)
MergeReviewed(p) ==
  /\ Merge(p)
  /\ IF at'[p] = "gate"
     THEN UNCHANGED <<shipped, blind>>
     ELSE \E j \in cmd[p].todo \ cmd'[p].todo, b \in Blindness :
            /\ MayBe(b) /\ Found(commits[j], JobScope(j), b) = {}
            /\ shipped' = [shipped EXCEPT ![j] = commits[j]]
            /\ blind' = [blind EXCEPT ![j].merge = b]
  /\ UNCHANGED <<step, call, final, files, early>>

(* The runtime is in a process group of its own, and verification commands *)
(* are not killed with the process that waits for them.                    *)
Killed(p) ==
  /\ Die(p)
  /\ orphan' # orphan => Lives(p) \/ step[p] = "verify"
  /\ step' = [step EXCEPT ![p] = "none"]
  /\ proc' = [proc EXCEPT ![p] = "none"]
  /\ pipes' = [pipes EXCEPT ![p] = "free"]
  /\ timer' = [timer EXCEPT ![p] = "off"]
  /\ res' = [res EXCEPT ![p] = NoRes]
  /\ UNCHANGED <<final, files, history>>

OrphanWrites(j) ==
  /\ j \in orphan
  /\ \/ \E x \in Paths : Touch(j, x)
     \/ /\ j \in CodexJobs
        /\ \E b \in Bodies \ {final[j]} : final' = [final EXCEPT ![j] = b]
        /\ UNCHANGED <<vars, step, call, files, history>>

-----------------------------------------------------------------------------
AdapterInit ==
  /\ Init
  /\ step = [p \in Procs |-> "none"]
  /\ proc = [p \in Procs |-> "none"]
  /\ pipes = [p \in Procs |-> "free"]
  /\ timer = [p \in Procs |-> "off"]
  /\ res = [p \in Procs |-> NoRes]
  /\ final = [o \in Jobs \cup Procs |-> "torn"]
  /\ edits = [j \in Jobs |-> {}] /\ commits = [j \in Jobs |-> {}]
  /\ early = [j \in Jobs |-> {}] /\ shipped = [j \in Jobs |-> {}]
  /\ blind = [j \in Jobs |-> [run |-> "nothing", merge |-> "nothing"]]

(* The harness process itself, inside a run. *)
RunStep(p) ==
  \/ Start(p) \/ Spawn(p) \/ SpawnFails(p) \/ Reaped(p) \/ Kill(p) \/ Expired(p)
  \/ CommitWork(p) \/ Judge(p) \/ ReapRepair(p) \/ Review(p) \/ Verify(p)

(* Everything Dispatch does elsewhere. *)
OtherStep(p) ==
  \/ AddTree(p) \/ Finish(p) \/ OpenGate(p) \/ RemoveTree(p) \/ RemoveBranch(p)
  \/ Reap(p) \/ Reset(p) \/ ListOrphans(p) \/ PruneOrphan(p) \/ RecoverEnd(p)
  \/ ExtendScope(p) \/ Reread(p) \/ Settle(p) \/ ResolveJob(p)
  \/ Promote(p) \/ ReclaimTree(p)

AdapterStep(p) == RunStep(p) \/ MergeReviewed(p) \/ Inherit(OtherStep(p))

(* The world around it: the runtime, the clock, the user. *)
Outside(p) ==
  \/ RuntimeEdit(p) \/ RuntimeResult(p) \/ RuntimeExit(p) \/ Escape(p) \/ LetGo(p)
  \/ Timeout(p) \/ VerifyEdit(p) \/ Inherit(Load(p)) \/ Killed(p)

AdapterNext ==
  \/ \E p \in Procs : AdapterStep(p) \/ Outside(p)
  \/ \E j \in Jobs : OrphanWrites(j) \/ Inherit(OrphanEnd(j))

(* A process that can go on does, and a watchdog fires; the runtime owes   *)
(* nothing.                                                                *)
AdapterSpec == /\ AdapterInit /\ [][AdapterNext]_allvars
               /\ \A p \in Procs : WF_allvars(AdapterStep(p)) /\ WF_allvars(Timeout(p))

-----------------------------------------------------------------------------
(* Properties *)

(* Every variable keeps its type; a runtime process belongs to a process   *)
(* inside a run; a clean checkout has no edits but ignored ones, and only  *)
(* a branch with work has commits.                                         *)
AdapterTypeOK ==
  /\ step \in [Procs -> {"none", "spawn", "wait", "reap", "commit", "judge", "rewait", "review", "verify"}]
  /\ proc \in [Procs -> {"none", "running", "ok", "bad"}]
  /\ pipes \in [Procs -> {"free", "held"}]
  /\ timer \in [Procs -> {"off", "armed", "fired"}]
  /\ res \in [Procs -> [end : {"none", "ok", "bad", "killed"}, body : Bodies]]
  /\ final \in [Jobs \cup Procs -> Bodies]
  /\ edits \in [Jobs -> SUBSET Paths] /\ commits \in [Jobs -> SUBSET Paths]
  /\ early \in [Jobs -> SUBSET Paths] /\ shipped \in [Jobs -> SUBSET Paths]
  /\ blind \in [Jobs -> [run : Blindness, merge : Blindness]]
  /\ \A p \in Procs : /\ proc[p] # "none" => step[p] \in {"wait", "rewait"}
                      /\ pipes[p] = "held" => step[p] \in {"wait", "reap", "rewait"}
  /\ \A j \in Jobs : /\ tree[j] # "dirty" => edits[j] \subseteq Ignored
                     /\ branch[j] # "work" => commits[j] = {}

(* The adapter's run is Dispatch's: the runtime, its watchdog, the repair  *)
(* call and the reviews add nothing to what another process can see of a   *)
(* run; in particular nothing of the runtime's process group, nor a child  *)
(* that holds its pipes, edits the checkout once the call is over and the  *)
(* commit begins (exec.go: "cannot outlive its job").                      *)
ImplementsDispatch == Init /\ [][Next]_vars

(* What is merged into a delivery branch is inside the job's scope, as far *)
(* as it was widened, unless the adapter's review and integrate's failed   *)
(* both: a reserved path only where neither could read reserved.json or    *)
(* the diff, a denied or unnamed one only where neither had the diff.      *)
DeliveredInScope ==
  \A j \in Jobs : \A x \in shipped[j] :
    /\ MatchAny(x, Reserved) => blind[j].run # "nothing" /\ blind[j].merge # "nothing"
    /\ MatchAny(x, Denied) \/ ~ MatchAny(x, JobScope(j).allowed)
         => blind[j].run = "all" /\ blind[j].merge = "all"

(* "Even on a torn result or non-zero exit": what the runtime had edited   *)
(* when it returned is on the branch of every job that ended, however it   *)
(* ended, as long as its checkout is there; only ignored files are not.    *)
WorkCaptured ==
  \A j \in WriteJobs :
    ent[j].st \in {"completed", "failed", "timeout"} /\ tree[j] # "none"
      => early[j] \ Ignored \subseteq commits[j]

(* "Captured ... and mergeable at integrate": what the runtime had edited   *)
(* when it returned is in what a completed job has brought to the delivery *)
(* branch, whatever happened to its checkout and its branch in between.    *)
DeliveredCaptured ==
  \A j \in delivered : ent[j].st = "completed" => early[j] \ Ignored \subseteq shipped[j]

(* The watchdog bounds the first call: a run does not wait for its runtime *)
(* for ever, whatever the runtime does, unless a child of it has left the  *)
(* process group, survived the kill and never lets go of the pipes.        *)
FirstCallEnds ==
  \A p \in Procs :
    at[p] = "work" ~> (at[p] # "work" \/ [](step[p] = "reap" /\ pipes[p] = "held"))

(* "so the result is captured deterministically by the CLI": a completed   *)
(* job whose checkout is still there has left nothing in it but ignored    *)
(* files.                                                                  *)
CompletedCaptured ==
  \A j \in WriteJobs :
    ent[j].st = "completed" /\ tree[j] # "none" => edits[j] \subseteq Ignored
=============================================================================
