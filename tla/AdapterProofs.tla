---------------------------- MODULE AdapterProofs ----------------------------
(***************************************************************************)
(* TLAPS: the adapter implements the run of Dispatch, for any processes,   *)
(* jobs, paths, globs and bounds; with it, what is proved of Dispatch      *)
(* holds of the adapter.  What is delivered is in scope, as far as one of  *)
(* the two reviews could see it.  What the runtime edited is captured on   *)
(* the branch of every job that ends, and delivered with every completed   *)
(* job, for any number of processes that keep out of each other's way as   *)
(* the assumptions of the theorems say.  And where nothing writes to a     *)
(* checkout late, a completed job leaves nothing uncommitted.              *)
(***************************************************************************)
EXTENDS Adapter, DispatchWorkersProofs

-----------------------------------------------------------------------------
(* Where a process is, in Adapter and in Dispatch *)

Steps == {"none", "spawn", "wait", "reap", "commit", "judge", "rewait", "review", "verify"}

Inside(pt) == CASE pt = "work"   -> {"spawn", "wait", "reap"}
                [] pt = "commit" -> {"commit"}
                [] pt = "decide" -> {"judge", "rewait", "review", "verify"}
                [] OTHER         -> {"none"}

Ends == {"ok", "bad", "killed"}
Marks == [run : Blindness, merge : Blindness]

CallsOK ==
  /\ step \in [Procs -> Steps]
  /\ proc \in [Procs -> {"none", "running", "ok", "bad"}]
  /\ pipes \in [Procs -> {"free", "held"}]
  /\ timer \in [Procs -> {"off", "armed", "fired"}]
  /\ res \in [Procs -> [end : Ends \cup {"none"}, body : Bodies]]
  /\ final \in [Jobs \cup Procs -> Bodies]
  /\ \A p \in Procs : /\ step[p] \in Inside(at[p])
                      /\ proc[p] # "none" => step[p] \in {"wait", "rewait"}
                      /\ pipes[p] = "held" => step[p] \in {"wait", "reap", "rewait"}
                      /\ step[p] \in {"commit", "judge"} => res[p].end \in Ends

FilesOK ==
  /\ edits \in [Jobs -> SUBSET Paths] /\ commits \in [Jobs -> SUBSET Paths]
  /\ early \in [Jobs -> SUBSET Paths] /\ shipped \in [Jobs -> SUBSET Paths]
  /\ blind \in [Jobs -> Marks]
  /\ \A j \in Jobs : /\ tree[j] # "dirty" => edits[j] \subseteq Ignored
                     /\ branch[j] # "work" => commits[j] = {}

AInv == DInv /\ CallsOK /\ FilesOK

(* What the two say of where p is. *)
LEMMA Places ==
  ASSUME CallsOK, NEW p \in Procs
  PROVE  /\ step[p] \in {"spawn", "wait", "reap"} => at[p] = "work"
         /\ step[p] = "commit" => at[p] = "commit"
         /\ step[p] \in {"judge", "rewait", "review", "verify"} => at[p] = "decide"
         /\ at[p] \notin {"work", "commit", "decide"} => step[p] = "none"
         /\ at[p] = "work" => step[p] \in {"spawn", "wait", "reap"}
         /\ at[p] = "commit" => step[p] = "commit"
         /\ at[p] = "decide" => step[p] \in {"judge", "rewait", "review", "verify"}
BY DEF CallsOK, Inside, Steps

-----------------------------------------------------------------------------
(* Every step of Adapter is one of Dispatch, or changes nothing there *)

(* A write into a checkout is an edit, of a run or of what outlives one. *)
LEMMA TouchMaps ==
  ASSUME AInv, NEW j \in Jobs, NEW x \in Paths, Touch(j, x)
  PROVE  /\ UNCHANGED vars \/ \A p \in Procs : at[p] \in {"work", "decide"} /\ cmd[p].job = j => Edit(p)
         /\ j \in orphan => OrphanEdit(j) \/ UNCHANGED vars
<1>1. MayEdit(j) /\ (tree' = tree \/ tree' = [tree EXCEPT ![j] = "dirty"])
  BY DEF Touch
<1>2. UNCHANGED <<ent, branch, orphan, worker, at, cmd, reclock, delivered, made, sweep>>
  BY DEF Touch
<1>3. CASE tree' = tree \/ tree[j] = "dirty"
  <2>1. tree' = tree
    BY <1>1, <1>3 DEF AInv, DInv, GitOK
  <2> QED
    BY <1>2, <2>1 DEF vars, git
<1>4. CASE tree' = [tree EXCEPT ![j] = "dirty"] /\ tree[j] # "dirty"
  BY <1>1, <1>2, <1>4 DEF Edit, OrphanEdit
<1> QED
  BY <1>1, <1>3, <1>4

LEMMA ConcludeMaps ==
  ASSUME AInv, NEW p \in Procs, at[p] = "decide", NEW r \in Results, Conclude(p, r)
  PROVE  Decide(p)
BY DEF Conclude, Decide

LEMMA JudgeMaps == ASSUME AInv, NEW p \in Procs, Judge(p)  PROVE Decide(p) \/ UNCHANGED vars
<1>1. at[p] = "decide" /\ res[p].end \in Ends /\ res[p].body \in Bodies
  BY Places DEF Judge, AInv, CallsOK
<1>2. \/ \E r \in {"timeout", "exec-failed", "torn"} : Conclude(p, r)
      \/ Accept(p)
      \/ UNCHANGED vars
  BY <1>1 DEF Judge, Ends, Bodies
<1>3. CASE \E r \in {"timeout", "exec-failed", "torn"} : Conclude(p, r)
  BY <1>1, <1>3, ConcludeMaps DEF Results
<1> QED
  BY <1>2, <1>3 DEF Accept

LEMMA LateMaps ==
  ASSUME AInv, NEW p \in Procs, ReapRepair(p) \/ Review(p) \/ Verify(p)
  PROVE  Decide(p) \/ UNCHANGED vars
<1>1. at[p] = "decide"
  BY Places DEF ReapRepair, Review, Verify, AInv
<1>2. \/ \E r \in {"invalid", "review", "ok", "verify-failed"} : Conclude(p, r)
      \/ UNCHANGED vars
  BY DEF ReapRepair, Review, Verify, Accept
<1> QED
  BY <1>1, <1>2, ConcludeMaps DEF Results

LEMMA RunStepMaps == ASSUME AInv, NEW p \in Procs, RunStep(p)  PROVE Step(p) \/ UNCHANGED vars
<1>1. Start(p) => MarkRunning(p)
  BY DEF Start
<1>2. Spawn(p) \/ Kill(p) => UNCHANGED vars
  BY DEF Spawn, Kill
<1>3. SpawnFails(p) \/ Reaped(p) \/ Expired(p) => Work(p)
  BY DEF SpawnFails, Reaped, Expired, Returned
<1>4. CommitWork(p) => Commit(p)
  BY DEF CommitWork
<1> QED
  BY <1>1, <1>2, <1>3, <1>4, JudgeMaps, LateMaps DEF RunStep, Step

LEMMA OutsideMaps ==
  ASSUME AInv, NEW p \in Procs, Outside(p)
  PROVE  Edit(p) \/ Load(p) \/ Die(p) \/ UNCHANGED vars
<1>1. CASE RuntimeEdit(p) \/ VerifyEdit(p)
  <2>1. at[p] \in {"work", "decide"}
    BY <1>1, Places DEF RuntimeEdit, Lives, VerifyEdit, AInv, CallsOK
  <2>2. cmd[p].job \in Jobs
    BY <2>1 DEF AInv, DInv, ProcsOK, Fits
  <2>3. PICK x \in Paths : Touch(cmd[p].job, x)
    BY <1>1 DEF RuntimeEdit, VerifyEdit
  <2> QED
    BY <2>1, <2>2, <2>3, TouchMaps
<1>2. RuntimeResult(p) \/ RuntimeExit(p) \/ Escape(p) \/ LetGo(p) \/ Timeout(p) => UNCHANGED vars
  BY DEF RuntimeResult, RuntimeExit, Escape, LetGo, Timeout
<1>3. Inherit(Load(p)) => Load(p)
  BY DEF Inherit
<1>4. Killed(p) => Die(p)
  BY DEF Killed
<1> QED
  BY <1>1, <1>2, <1>3, <1>4 DEF Outside

LEMMA OrphanWritesMaps ==
  ASSUME AInv, NEW j \in Jobs, OrphanWrites(j)
  PROVE  OrphanEdit(j) \/ UNCHANGED vars
<1>1. j \in orphan /\ ((\E x \in Paths : Touch(j, x)) \/ UNCHANGED vars)
  BY DEF OrphanWrites
<1> QED
  BY <1>1, TouchMaps

LEMMA NextMaps == ASSUME AInv, [AdapterNext]_allvars  PROVE [Next]_vars
<1>1. CASE UNCHANGED allvars
  BY <1>1 DEF allvars
<1>2. ASSUME NEW p \in Procs, AdapterStep(p) \/ Outside(p)
      PROVE  [Next]_vars
  <2>1. Inherit(OtherStep(p)) => Step(p)
    BY DEF Inherit, OtherStep, Step
  <2>2. MergeReviewed(p) => Step(p)
    BY DEF MergeReviewed, Step
  <2> QED
    BY <1>2, <2>1, <2>2, RunStepMaps, OutsideMaps DEF AdapterStep, Step, Next
<1>3. ASSUME NEW j \in Jobs, OrphanWrites(j) \/ Inherit(OrphanEnd(j))
      PROVE  [Next]_vars
  BY <1>3, OrphanWritesMaps DEF Inherit, Next
<1> QED
  BY <1>1, <1>2, <1>3 DEF AdapterNext

-----------------------------------------------------------------------------
(* AInv is inductive: first where the processes are *)

RunInside == {"work", "commit", "decide"}

LEMMA Elsewhere ==
  ASSUME DInv, NEW p \in Procs, OtherStep(p) \/ Load(p)
  PROVE  /\ at[p] \notin RunInside /\ at'[p] \notin RunInside \cup {"finish"}
         /\ \A q \in Procs \ {p} : at'[q] = at[q]
<1>1. Acts(p)
  BY DEF Acts, OtherStep, Step
<1>2. \A q \in Procs \ {p} : at'[q] = at[q]
  BY <1>1, OthersStay DEF Stays
<1>3. ASSUME NEW pt, pt \notin RunInside \cup {"finish"}, NEW c, Begin(p, pt, c) \/ Goto(p, pt, c)
      PROVE  at'[p] \notin RunInside \cup {"finish"}
  BY <1>3 DEF Begin, Goto, DInv, ProcsOK
<1>4. Exit(p) => at'[p] \notin RunInside \cup {"finish"}
  BY ExitOK DEF DInv, RunInside
<1>5. CASE Load(p)
  <2>1. RunLoad(p) => \E pt \in {"add", "mark"} : \E c : Begin(p, pt, c)
    BY DEF RunLoad
  <2>2. RecoverStart(p) => \E c : Begin(p, "reap", c)
    BY DEF RecoverStart
  <2>3. GateLoad(p) => \E pt \in {"settle", "extend"} : \E c : Begin(p, pt, c)
    BY Zenon DEF GateLoad
  <2>4. PruneLoad(p) => \E c : Begin(p, "gc", c)
    BY DEF PruneLoad
  <2>5. IntegrateLoad(p) => \E c : Begin(p, "merge", c)
    BY DEF IntegrateLoad
  <2>6. \E pt \in {"add", "mark", "reap", "settle", "extend", "gc", "merge"} : \E c : Begin(p, pt, c)
    BY <1>5, <2>1, <2>2, <2>3, <2>4, <2>5 DEF Load
  <2> QED
    BY <1>2, <1>3, <2>6 DEF RunInside, Begin
<1>6. CASE OtherStep(p)
  <2>1. at[p] \notin RunInside
    <3>1. AddTree(p) \/ Finish(p) \/ OpenGate(p) \/ RemoveTree(p) \/ RemoveBranch(p)
          => at[p] \notin RunInside
      BY DEF AddTree, Finish, OpenGate, RemoveTree, RemoveBranch, RunInside
    <3>2. Reap(p) \/ Reset(p) \/ ListOrphans(p) \/ PruneOrphan(p) \/ RecoverEnd(p)
          => at[p] \notin RunInside
      BY DEF Reap, Reset, ListOrphans, PruneOrphan, RecoverEnd, RunInside
    <3>3. ExtendScope(p) \/ Reread(p) \/ Settle(p) \/ ResolveJob(p) => at[p] \notin RunInside
      BY DEF ExtendScope, Reread, Settle, ResolveJob, RunInside
    <3>4. Promote(p) \/ ReclaimTree(p) => at[p] \notin RunInside
      BY DEF Promote, ReclaimTree, RunInside
    <3> QED
      BY <1>6, <3>1, <3>2, <3>3, <3>4 DEF OtherStep
  <2>2. Exit(p) \/ \E pt \in Points \ (RunInside \cup {"finish"}) : \E c : Goto(p, pt, c)
    <3>1. AddTree(p) => Exit(p) \/ Goto(p, "mark", cmd[p])
      BY DEF AddTree
    <3>2. Finish(p) => Exit(p) \/ Goto(p, "gate", cmd[p])
      BY DEF Finish
    <3>3. OpenGate(p) => Exit(p) \/ Goto(p, "reap", cmd[p])
      BY DEF OpenGate, DInv, ProcsOK, Fits
    <3>4. RemoveTree(p) => Goto(p, "rmbranch", cmd[p])
      BY DEF RemoveTree
    <3>5. RemoveBranch(p) => Exit(p) \/ Goto(p, "reset", cmd[p]) \/ Goto(p, "prune", cmd[p])
      BY DEF RemoveBranch
    <3>6. Reap(p) => \E pt \in {"reap", "rmtree", "reset"} : \E c : Goto(p, pt, c)
      BY DEF Reap
    <3>7. Reset(p) => \E pt \in {"gate", "reap"} : \E c : Goto(p, pt, c)
      BY DEF Reset
    <3>8. ListOrphans(p) => \E c : Goto(p, "prune", c)
      BY DEF ListOrphans
    <3>9. PruneOrphan(p) => \E c : Goto(p, "rmbranch", c)
      BY DEF PruneOrphan
    <3>10. RecoverEnd(p) => Exit(p)
      BY DEF RecoverEnd
    <3>11. ExtendScope(p) => Exit(p) \/ Goto(p, "reread", cmd[p])
      BY DEF ExtendScope
    <3>12. Reread(p) => \E c : Goto(p, "settle", c)
      BY DEF Reread
    <3>13. Settle(p) => Exit(p) \/ Goto(p, "resolve", cmd[p])
      BY DEF Settle
    <3>14. ResolveJob(p) => Exit(p) \/ Goto(p, "rmtree", cmd[p])
      BY DEF ResolveJob
    <3>15. Promote(p) => Exit(p) \/ \E c : Goto(p, "gc", c)
      BY DEF Promote
    <3>16. ReclaimTree(p) => Exit(p) \/ \E c : Goto(p, "gc", c)
      BY DEF ReclaimTree
    <3>17. {"mark", "gate", "reap", "rmbranch", "reset", "prune", "rmtree", "reread", "settle",
            "resolve", "gc"} \subseteq Points \ (RunInside \cup {"finish"})
      BY DEF Points, RunInside
    <3> QED
      BY <1>6, <3>1, <3>2, <3>3, <3>4, <3>5, <3>6, <3>7, <3>8, <3>9, <3>10, <3>11, <3>12,
         <3>13, <3>14, <3>15, <3>16, <3>17 DEF OtherStep
  <2> QED
    BY <1>2, <1>3, <1>4, <2>1, <2>2
<1> QED
  BY <1>5, <1>6

(* Outside a run no step of Dispatch commits, or cleans but by removal. *)
LEMMA TreesStay ==
  ASSUME DInv, NEW p \in Procs, OtherStep(p) \/ Load(p), NEW j \in Jobs
  PROVE  tree'[j] = "clean" => tree[j] # "dirty"
<1>1. CASE Load(p)
  BY <1>1 DEF Load, RunLoad, RecoverStart, GateLoad, PruneLoad, IntegrateLoad, git
<1>2. CASE AddTree(p)
  BY <1>2 DEF AddTree, git, DInv, GitOK
<1>3. CASE Finish(p) \/ OpenGate(p)
  BY <1>3 DEF Finish, OpenGate, git
<1>4. CASE RemoveTree(p) \/ RemoveBranch(p)
  BY <1>4 DEF RemoveTree, RemoveBranch, DInv, GitOK
<1>5. CASE Reap(p) \/ Reset(p) \/ ListOrphans(p) \/ RecoverEnd(p)
  BY <1>5 DEF Reap, Reset, ListOrphans, RecoverEnd, git
<1>6. CASE PruneOrphan(p)
  BY <1>6 DEF PruneOrphan, DInv, GitOK
<1>7. CASE ExtendScope(p) \/ Reread(p) \/ Settle(p) \/ ResolveJob(p)
  BY <1>7 DEF ExtendScope, Reread, Settle, ResolveJob, git
<1>8. CASE Promote(p)
  BY <1>8 DEF Promote, git
<1>9. CASE ReclaimTree(p)
  BY <1>9 DEF ReclaimTree, DInv, GitOK
<1> QED
  BY <1>1, <1>2, <1>3, <1>4, <1>5, <1>6, <1>7, <1>8, <1>9 DEF OtherStep

(* The processes but p are where they were. *)
LEMMA OneMoves ==
  ASSUME CallsOK, NEW p \in Procs, \A q \in Procs \ {p} : at'[q] = at[q],
         step' \in [Procs -> Steps],
         proc' \in [Procs -> {"none", "running", "ok", "bad"}],
         pipes' \in [Procs -> {"free", "held"}],
         timer' \in [Procs -> {"off", "armed", "fired"}],
         res' \in [Procs -> [end : Ends \cup {"none"}, body : Bodies]],
         final' \in [Jobs \cup Procs -> Bodies],
         \A q \in Procs \ {p} : /\ step'[q] = step[q] /\ proc'[q] = proc[q]
                                /\ pipes'[q] = pipes[q] /\ res'[q] = res[q],
         step'[p] \in Inside(at'[p]),
         proc'[p] # "none" => step'[p] \in {"wait", "rewait"},
         pipes'[p] = "held" => step'[p] \in {"wait", "reap", "rewait"},
         step'[p] \in {"commit", "judge"} => res'[p].end \in Ends
  PROVE  CallsOK'
<1>1. ASSUME NEW q \in Procs
      PROVE  /\ step'[q] \in Inside(at'[q])
             /\ proc'[q] # "none" => step'[q] \in {"wait", "rewait"}
             /\ pipes'[q] = "held" => step'[q] \in {"wait", "reap", "rewait"}
             /\ step'[q] \in {"commit", "judge"} => res'[q].end \in Ends
  BY DEF CallsOK
<1> QED
  BY <1>1 DEF CallsOK

LEMMA InheritKeeps ==
  ASSUME AInv, NEW p \in Procs, OtherStep(p) \/ Load(p), Inherit(OtherStep(p) \/ Load(p)), DInv'
  PROVE  AInv'
<1>1. at[p] \notin RunInside /\ at'[p] \notin RunInside /\ \A q \in Procs \ {p} : at'[q] = at[q]
  BY Elsewhere DEF AInv
<1>2. UNCHANGED <<step, call, final, history>> /\ FollowTrees
  BY DEF Inherit
<1>3. step[p] = "none" /\ step'[p] \in Inside(at'[p])
  BY <1>1, <1>2, Places DEF AInv, RunInside, Inside
<1>4. CallsOK'
  <2>1. step' = step /\ proc' = proc /\ pipes' = pipes /\ timer' = timer /\ res' = res
          /\ final' = final
    BY <1>2 DEF call
  <2> QED
    BY <1>1, <1>3, <2>1, OneMoves DEF AInv, CallsOK
<1>5. FilesOK'
  <2>1. \A j \in Jobs : tree'[j] = "clean" => tree[j] # "dirty"
    BY TreesStay DEF AInv
  <2>2. \A j \in Jobs : tree'[j] \in {"none", "clean", "dirty"}
    BY DEF DInv, GitOK
  <2> QED
    BY <1>2, <2>1, <2>2 DEF AInv, FilesOK, FollowTrees, history
<1> QED
  BY <1>4, <1>5 DEF AInv

-----------------------------------------------------------------------------
(* The steps of a run *)

LEMMA OutKnown ==
  ASSUME AInv, NEW p \in Procs
  PROVE  Out(p) \in Jobs \cup Procs /\ final[Out(p)] \in Bodies
BY CodexJobsAreJobs DEF Out, AInv, CallsOK

(* Inside a run the process has a job. *)
LEMMA JobKnown ==
  ASSUME AInv, NEW p \in Procs, at[p] \in RunInside \cup {"mark"}
  PROVE  cmd[p].job \in Jobs
BY DEF AInv, DInv, ProcsOK, Fits, RunInside

(* A write into a checkout: an ignored file leaves it clean for git. *)
LEMMA TouchKeeps ==
  ASSUME AInv, NEW j \in Jobs, NEW x \in Paths, Touch(j, x), DInv'
  PROVE  AInv'
<1>1. at' = at /\ step' = step /\ UNCHANGED <<proc, pipes, timer, res, final>>
  BY DEF Touch, call
<1>2. CallsOK'
  BY <1>1 DEF AInv, CallsOK
<1>3. FilesOK'
  <2>1. edits' = [edits EXCEPT ![j] = edits[j] \cup {x}]
        /\ UNCHANGED <<branch, commits, early, shipped, blind>>
    BY DEF Touch, history
  <2>2. tree' = IF x \in Ignored THEN tree ELSE [tree EXCEPT ![j] = "dirty"]
    BY DEF Touch
  <2>3. edits' \in [Jobs -> SUBSET Paths]
    BY <2>1 DEF AInv, FilesOK
  <2>4. ASSUME NEW i \in Jobs, tree'[i] # "dirty"
        PROVE  edits'[i] \subseteq Ignored
    BY <2>1, <2>2, <2>4 DEF AInv, FilesOK, DInv, GitOK
  <2> QED
    BY <2>1, <2>3, <2>4 DEF AInv, FilesOK
<1> QED
  BY <1>2, <1>3 DEF AInv

(* A step of p inside Dispatch's step: the place in Dispatch stays. *)
LEMMA InnerKeeps ==
  ASSUME AInv, NEW p \in Procs, UNCHANGED vars, UNCHANGED files,
         UNCHANGED <<early, shipped>>, blind' \in [Jobs -> Marks],
         NEW s \in Inside(at[p]), NEW r \in {"none", "running", "ok", "bad"},
         NEW t \in {"off", "armed", "fired"},
         step' = [step EXCEPT ![p] = s], proc' = [proc EXCEPT ![p] = r],
         timer' = [timer EXCEPT ![p] = t], res' = res,
         final' \in [Jobs \cup Procs -> Bodies],
         pipes' \in [Procs -> {"free", "held"}],
         \A q \in Procs \ {p} : pipes'[q] = pipes[q],
         pipes'[p] = "held" => s \in {"wait", "reap", "rewait"},
         r # "none" => s \in {"wait", "rewait"},
         s \in {"commit", "judge"} => s = step[p]
  PROVE  AInv'
<1>1. at' = at /\ DInv' /\ UNCHANGED git
  <2>1. DInv'
    BY NextOK DEF AInv
  <2> QED
    BY <2>1 DEF vars, git
<1>2. s \in Steps
  BY DEF Inside, Steps
<1>3. step'[p] = s /\ proc'[p] = r /\ \A q \in Procs \ {p} : step'[q] = step[q] /\ proc'[q] = proc[q]
  BY DEF AInv, CallsOK
<1>4. /\ step' \in [Procs -> Steps]
      /\ proc' \in [Procs -> {"none", "running", "ok", "bad"}]
      /\ timer' \in [Procs -> {"off", "armed", "fired"}]
      /\ res' \in [Procs -> [end : Ends \cup {"none"}, body : Bodies]]
  BY <1>2 DEF AInv, CallsOK
<1>5. step'[p] \in {"commit", "judge"} => res'[p].end \in Ends
  BY <1>3 DEF AInv, CallsOK
<1>6. CallsOK'
  BY <1>1, <1>3, <1>4, <1>5, OneMoves DEF AInv
<1>7. FilesOK'
  BY <1>1 DEF AInv, FilesOK, git, files
<1> QED
  BY <1>1, <1>6, <1>7 DEF AInv

LEMMA LaunchTypes ==
  ASSUME AInv, NEW p \in Procs, NEW t, Launch(p, t)
  PROVE  timer' = [timer EXCEPT ![p] = t] /\ final' \in [Jobs \cup Procs -> Bodies]
BY DEF Launch, AInv, CallsOK, Bodies

LEMMA SpawnKeeps == ASSUME AInv, NEW p \in Procs, Spawn(p)  PROVE AInv'
<1>1. at[p] = "work" /\ "wait" \in Inside(at[p])
  BY Places DEF Spawn, AInv, Inside
<1>3. pipes' = pipes /\ pipes \in [Procs -> {"free", "held"}] /\ UNCHANGED <<early, shipped>>
      /\ blind' \in [Jobs -> Marks]
  BY DEF Spawn, history, AInv, CallsOK, FilesOK
<1>2. timer' = [timer EXCEPT ![p] = "armed"] /\ final' \in [Jobs \cup Procs -> Bodies]
  BY LaunchTypes DEF Spawn
<1> QED
  BY <1>1, <1>2, <1>3, InnerKeeps DEF Spawn

LEMMA KillKeeps == ASSUME AInv, NEW p \in Procs, Kill(p)  PROVE AInv'
<1>1. at[p] = "work" /\ "reap" \in Inside(at[p])
  BY Places DEF Kill, AInv, Inside
<1>2. timer' = [timer EXCEPT ![p] = timer[p]] /\ timer[p] \in {"off", "armed", "fired"}
      /\ res' = res /\ final' \in [Jobs \cup Procs -> Bodies]
  BY DEF Kill, AInv, CallsOK
<1>3. pipes' = pipes /\ pipes \in [Procs -> {"free", "held"}] /\ UNCHANGED <<early, shipped>>
      /\ blind' \in [Jobs -> Marks]
  BY DEF Kill, history, AInv, CallsOK, FilesOK
<1> QED
  BY <1>1, <1>2, <1>3, InnerKeeps DEF Kill

LEMMA RuntimeKeeps ==
  ASSUME AInv, NEW p \in Procs,
         RuntimeResult(p) \/ RuntimeExit(p) \/ Escape(p) \/ LetGo(p) \/ Timeout(p)
  PROVE  AInv'
<1>1. UNCHANGED <<vars, step, res, files, early, shipped>> /\ blind' \in [Jobs -> Marks]
  BY DEF RuntimeResult, RuntimeExit, Escape, LetGo, Timeout, call, history, AInv, FilesOK
<1>2. final' \in [Jobs \cup Procs -> Bodies]
  BY DEF RuntimeResult, RuntimeExit, Escape, LetGo, Timeout, AInv, CallsOK
<1>6. /\ pipes' \in [Procs -> {"free", "held"}]
      /\ \A q \in Procs \ {p} : pipes'[q] = pipes[q]
      /\ pipes'[p] = "held" => pipes[p] = "held" \/ proc[p] = "running"
  BY DEF RuntimeResult, RuntimeExit, Escape, LetGo, Timeout, call, AInv, CallsOK
<1>3. PICK r \in {"none", "running", "ok", "bad"}, t \in {"off", "armed", "fired"} :
        /\ proc' = [proc EXCEPT ![p] = r] /\ timer' = [timer EXCEPT ![p] = t]
        /\ r # "none" => proc[p] # "none"
  <2>1. proc = [proc EXCEPT ![p] = proc[p]] /\ timer = [timer EXCEPT ![p] = timer[p]]
        /\ proc[p] \in {"none", "running", "ok", "bad"} /\ timer[p] \in {"off", "armed", "fired"}
    BY DEF AInv, CallsOK
  <2>2. CASE RuntimeResult(p)
    BY <2>1, <2>2 DEF RuntimeResult, call
  <2>3. CASE RuntimeExit(p)
    BY <2>1, <2>3 DEF RuntimeExit
  <2>4. CASE Timeout(p)
    BY <2>1, <2>4 DEF Timeout
  <2>5. CASE Escape(p) \/ LetGo(p)
    BY <2>1, <2>5 DEF Escape, LetGo
  <2> QED
    BY <2>2, <2>3, <2>4, <2>5
<1>4. PICK s : s = step[p]
  OBVIOUS
<1>5. step' = [step EXCEPT ![p] = s] /\ s \in Inside(at[p])
      /\ (r # "none" => s \in {"wait", "rewait"})
      /\ (pipes'[p] = "held" => s \in {"wait", "reap", "rewait"})
  BY <1>1, <1>3, <1>4, <1>6 DEF AInv, CallsOK
<1> QED
  BY <1>1, <1>2, <1>3, <1>4, <1>5, <1>6, InnerKeeps

LEMMA AcceptKeeps ==
  ASSUME AInv, NEW p \in Procs, at[p] = "decide", pipes[p] = "free", Accept(p)
  PROVE  AInv'
<1>1. PICK s \in {"review", "verify"} : step' = [step EXCEPT ![p] = s]
  BY DEF Accept
<1>2. timer' = [timer EXCEPT ![p] = timer[p]] /\ timer[p] \in {"off", "armed", "fired"}
  BY DEF Accept, AInv, CallsOK
<1>3. final' \in [Jobs \cup Procs -> Bodies] /\ s \in Inside(at[p])
  BY DEF Accept, AInv, CallsOK, Inside
<1>4. pipes' = pipes /\ pipes \in [Procs -> {"free", "held"}] /\ UNCHANGED <<early, shipped>>
      /\ blind' \in [Jobs -> Marks]
  BY DEF Accept, history, AInv, CallsOK, FilesOK
<1>5. /\ UNCHANGED vars /\ UNCHANGED files /\ res' = res
      /\ proc' = [proc EXCEPT ![p] = "none"]
  BY DEF Accept
<1>6. pipes'[p] # "held" /\ "none" \in {"none", "running", "ok", "bad"}
  BY <1>4
<1> QED
  BY <1>1, <1>2, <1>3, <1>4, <1>5, <1>6, InnerKeeps

(* A step of p that also is one of Dispatch's, and touches no file. *)
LEMMA OuterKeeps ==
  ASSUME AInv, NEW p \in Procs, DInv', UNCHANGED git, UNCHANGED files,
         early' \in [Jobs -> SUBSET Paths], shipped' = shipped, blind' = blind,
         pipes' = [pipes EXCEPT ![p] = "free"],
         \A q \in Procs \ {p} : at'[q] = at[q],
         NEW s \in Inside(at'[p]), NEW e \in Ends \cup {"none"}, NEW b \in Bodies,
         step' = [step EXCEPT ![p] = s], proc' = [proc EXCEPT ![p] = "none"],
         timer' \in [Procs -> {"off", "armed", "fired"}], final' = final,
         res' = [res EXCEPT ![p] = [end |-> e, body |-> b]],
         s \in {"commit", "judge"} => e \in Ends
  PROVE  AInv'
<1>1. s \in Steps
  BY DEF Inside, Steps
<1>2. /\ step' \in [Procs -> Steps]
      /\ proc' \in [Procs -> {"none", "running", "ok", "bad"}]
      /\ pipes' \in [Procs -> {"free", "held"}]
      /\ final' \in [Jobs \cup Procs -> Bodies]
  BY <1>1 DEF AInv, CallsOK
<1>3. res' \in [Procs -> [end : Ends \cup {"none"}, body : Bodies]]
  BY DEF AInv, CallsOK
<1>4. /\ step'[p] = s /\ proc'[p] = "none" /\ pipes'[p] = "free" /\ res'[p].end = e
      /\ \A q \in Procs \ {p} : /\ step'[q] = step[q] /\ proc'[q] = proc[q]
                                /\ pipes'[q] = pipes[q] /\ res'[q] = res[q]
  BY DEF AInv, CallsOK
<1>5. CallsOK'
  BY <1>2, <1>3, <1>4, OneMoves DEF AInv
<1>6. FilesOK'
  BY DEF AInv, FilesOK, git, files
<1> QED
  BY <1>5, <1>6 DEF AInv

LEMMA ConcludeKeeps ==
  ASSUME AInv, NEW p \in Procs, at[p] = "decide", pipes[p] = "free", NEW r \in Results, Conclude(p, r)
  PROVE  AInv'
<1>1. DInv'
  BY ConcludeMaps, DecideOK DEF AInv
<1>2. PICK c : Goto(p, "finish", c)
  BY DEF Conclude
<1>3. at'[p] = "finish" /\ \A q \in Procs \ {p} : at'[q] = at[q]
  BY <1>2 DEF Goto, AInv, DInv, ProcsOK
<1>4. "none" \in Inside(at'[p])
  BY <1>3 DEF Inside
<1>5. /\ early' \in [Jobs -> SUBSET Paths] /\ shipped' = shipped /\ blind' = blind
      /\ pipes' = [pipes EXCEPT ![p] = "free"]
      /\ timer' \in [Procs -> {"off", "armed", "fired"}]
  BY DEF Conclude, history, AInv, FilesOK, CallsOK
<1>6. res' = [res EXCEPT ![p] = [end |-> "none", body |-> "torn"]] /\ "torn" \in Bodies
  BY DEF Conclude, NoRes, Bodies
<1> QED
  BY <1>1, <1>3, <1>4, <1>5, <1>6, OuterKeeps DEF Conclude

LEMMA JudgeKeeps == ASSUME AInv, NEW p \in Procs, Judge(p)  PROVE AInv'
<1>6. pipes[p] = "free"
  BY DEF Judge, AInv, CallsOK
<1>1. at[p] = "decide" /\ res[p].end \in Ends /\ res[p].body \in Bodies
  BY Places DEF Judge, AInv, CallsOK
<1>2. \/ \E r \in {"timeout", "exec-failed", "torn"} : Conclude(p, r)
      \/ Accept(p)
      \/ /\ step' = [step EXCEPT ![p] = "rewait"]
         /\ \E s \in {"running", "bad"} : proc' = [proc EXCEPT ![p] = s]
         /\ Launch(p, "off")
         /\ UNCHANGED <<vars, pipes, res, files, history>>
  BY <1>1 DEF Judge, Ends, Bodies
<1>3. CASE \E r \in {"timeout", "exec-failed", "torn"} : Conclude(p, r)
  BY <1>1, <1>3, <1>6, ConcludeKeeps DEF Results
<1>4. CASE Accept(p)
  BY <1>1, <1>4, <1>6, AcceptKeeps
<1>5. CASE /\ step' = [step EXCEPT ![p] = "rewait"]
           /\ \E s \in {"running", "bad"} : proc' = [proc EXCEPT ![p] = s]
           /\ Launch(p, "off")
           /\ UNCHANGED <<vars, pipes, res, files, history>>
  <2>1. "rewait" \in Inside(at[p])
    BY <1>1 DEF Inside
  <2>2. timer' = [timer EXCEPT ![p] = "off"] /\ final' \in [Jobs \cup Procs -> Bodies]
    BY <1>5, LaunchTypes
  <2>3. PICK s \in {"running", "bad"} : proc' = [proc EXCEPT ![p] = s]
    BY <1>5
  <2>4. pipes' = pipes /\ pipes \in [Procs -> {"free", "held"}] /\ UNCHANGED <<early, shipped>>
        /\ blind' \in [Jobs -> Marks]
    BY <1>5 DEF history, AInv, CallsOK, FilesOK
  <2> QED
    BY <1>5, <2>1, <2>2, <2>3, <2>4, InnerKeeps
<1> QED
  BY <1>2, <1>3, <1>4, <1>5

LEMMA MarkTypes ==
  ASSUME AInv, NEW j \in Jobs, NEW b \in Blindness
  PROVE  /\ [blind EXCEPT ![j].run = b] \in [Jobs -> Marks]
         /\ [blind EXCEPT ![j].merge = b] \in [Jobs -> Marks]
<1>1. blind[j] \in Marks /\ blind \in [Jobs -> Marks]
  BY DEF AInv, FilesOK
<1>2. [blind[j] EXCEPT !.run = b] \in Marks /\ [blind[j] EXCEPT !.merge = b] \in Marks
  BY <1>1 DEF Marks
<1> QED
  BY <1>1, <1>2

LEMMA LateKeeps ==
  ASSUME AInv, NEW p \in Procs, ReapRepair(p) \/ Review(p) \/ Verify(p)
  PROVE  AInv'
<1>1. at[p] = "decide" /\ pipes[p] = "free"
  BY Places DEF ReapRepair, Review, Verify, AInv, CallsOK
<1>2. \/ \E r \in {"invalid", "review", "ok", "verify-failed"} : Conclude(p, r)
      \/ Accept(p)
      \/ /\ step' = [step EXCEPT ![p] = "verify"] /\ step[p] = "review"
         /\ \E b \in Blindness : blind' = [blind EXCEPT ![cmd[p].job].run = b]
         /\ UNCHANGED <<vars, call, final, files, early, shipped>>
  BY DEF ReapRepair, Review, Verify
<1>3. CASE \E r \in {"invalid", "review", "ok", "verify-failed"} : Conclude(p, r)
  BY <1>1, <1>3, ConcludeKeeps DEF Results
<1>4. CASE Accept(p)
  BY <1>1, <1>4, AcceptKeeps
<1>5. CASE /\ step' = [step EXCEPT ![p] = "verify"] /\ step[p] = "review"
           /\ \E b \in Blindness : blind' = [blind EXCEPT ![cmd[p].job].run = b]
           /\ UNCHANGED <<vars, call, final, files, early, shipped>>
  <2>3. pipes' = pipes /\ pipes \in [Procs -> {"free", "held"}]
    BY <1>5 DEF call, AInv, CallsOK
  <2>4. blind' \in [Jobs -> Marks]
    <3>1. PICK j \in Jobs : j = cmd[p].job
      BY <1>1, JobKnown DEF RunInside
    <3>2. PICK b \in Blindness : blind' = [blind EXCEPT ![j].run = b]
      BY <1>5, <3>1
    <3> QED
      BY <3>1, <3>2, MarkTypes
  <2>1. proc[p] = "none" /\ timer[p] \in {"off", "armed", "fired"} /\ "verify" \in Inside(at[p])
    BY <1>1, <1>5 DEF AInv, CallsOK, Inside
  <2>2. /\ proc' = [proc EXCEPT ![p] = "none"] /\ timer' = [timer EXCEPT ![p] = timer[p]]
        /\ res' = res /\ final' \in [Jobs \cup Procs -> Bodies]
    BY <1>5, <2>1 DEF AInv, CallsOK, call
  <2> QED
    BY <1>1, <1>5, <2>1, <2>2, <2>3, <2>4, InnerKeeps
<1> QED
  BY <1>2, <1>3, <1>4, <1>5

LEMMA ReturnedKeeps ==
  ASSUME AInv, NEW p \in Procs, NEW e \in Ends, Returned(p, e)
  PROVE  AInv'
<1>1. DInv' /\ Work(p)
  BY WorkOK DEF Returned, AInv
<1>2. at'[p] = "commit" /\ \A q \in Procs \ {p} : at'[q] = at[q]
  BY <1>1 DEF Work, Goto, AInv, DInv, ProcsOK
<1>3. "commit" \in Inside(at'[p])
  BY <1>2 DEF Inside
<1>4. cmd[p].job \in Jobs
  BY <1>1, JobKnown DEF Work, RunInside
<1>5. /\ early' \in [Jobs -> SUBSET Paths] /\ shipped' = shipped /\ blind' = blind
      /\ pipes' = [pipes EXCEPT ![p] = "free"]
      /\ timer' \in [Procs -> {"off", "armed", "fired"}]
  BY <1>4 DEF Returned, AInv, FilesOK, CallsOK
<1>6. final[Out(p)] \in Bodies
  BY OutKnown
<1>7. UNCHANGED git /\ UNCHANGED files /\ final' = final
  BY <1>1 DEF Work, Returned
<1> QED
  BY <1>1, <1>2, <1>3, <1>5, <1>6, <1>7, OuterKeeps DEF Returned

LEMMA StartKeeps == ASSUME AInv, NEW p \in Procs, Start(p)  PROVE AInv'
<1>1. DInv' /\ MarkRunning(p) /\ at[p] = "mark"
  BY MarkRunningOK DEF Start, MarkRunning, AInv
<1>2. cmd[p].job \in Jobs /\ step[p] = "none"
  BY <1>1, JobKnown, Places DEF AInv
<1>3. \A q \in Procs \ {p} : at'[q] = at[q]
  BY <1>1, OthersStay DEF Acts, Step, AInv, Stays
<1>4. at'[p] \in {"work", "idle"}
  BY <1>1, ExitOK DEF MarkRunning, AInv, DInv, ProcsOK
<1>5. /\ step' \in [Procs -> Steps]
      /\ step'[p] = (IF at'[p] = "work" THEN "spawn" ELSE "none")
      /\ \A q \in Procs \ {p} : step'[q] = step[q]
  <2>1. CASE at'[p] = "work"
    <3>1. step' = [step EXCEPT ![p] = "spawn"]
      BY <2>1 DEF Start
    <3> QED
      BY <2>1, <3>1 DEF AInv, CallsOK, Steps
  <2>2. CASE at'[p] # "work"
    <3>1. step' = step
      BY <2>2 DEF Start
    <3> QED
      BY <1>2, <2>2, <3>1 DEF AInv, CallsOK, Steps
  <2> QED
    BY <2>1, <2>2
<1>6. step'[p] \in Inside(at'[p]) /\ step'[p] \notin {"commit", "judge"}
  BY <1>4, <1>5 DEF Inside
<1>7. proc[p] = "none" /\ pipes[p] = "free"
  BY <1>2 DEF AInv, CallsOK
<1>8. UNCHANGED <<proc, pipes, timer, res, final>>
  BY DEF Start, call
<1>9. CallsOK'
  BY <1>3, <1>5, <1>6, <1>7, <1>8, OneMoves DEF AInv, CallsOK
<1>10. FilesOK'
  <2>1. early' \in [Jobs -> SUBSET Paths]
    BY <1>2 DEF Start, AInv, FilesOK
  <2>2. blind' \in [Jobs -> Marks]
    <3>1. PICK j \in Jobs : j = cmd[p].job
      BY <1>2
    <3>2. PICK b \in Blindness : b = "nothing"
      BY DEF Blindness
    <3>3. blind' = [blind EXCEPT ![j].run = b] \/ blind' = blind
      BY <3>1, <3>2 DEF Start
    <3>4. blind \in [Jobs -> Marks]
      BY DEF AInv, FilesOK
    <3>5. [blind EXCEPT ![j].run = b] \in [Jobs -> Marks]
      BY MarkTypes
    <3> QED
      BY <3>3, <3>4, <3>5
  <2> QED
    BY <1>1, <2>1, <2>2 DEF Start, MarkRunning, AInv, FilesOK, git, files
<1> QED
  BY <1>1, <1>9, <1>10 DEF AInv

LEMMA CommitWorkKeeps == ASSUME AInv, NEW p \in Procs, CommitWork(p)  PROVE AInv'
<1>1. DInv' /\ Commit(p) /\ at[p] = "commit"
  BY CommitOK DEF CommitWork, Commit, AInv
<1> DEFINE j == cmd[p].job
           done == tree[j] = "dirty" /\ tree'[j] = "clean"
<1>2. j \in Jobs /\ step[p] = "commit"
  BY <1>1, JobKnown, Places DEF RunInside, AInv
<1>3. proc[p] = "none" /\ pipes[p] = "free" /\ res[p].end \in Ends
  BY <1>2 DEF AInv, CallsOK
<1>4. at'[p] \in {"decide", "finish"} /\ \A q \in Procs \ {p} : at'[q] = at[q]
  BY <1>1 DEF Commit, Goto, AInv, DInv, ProcsOK
<1>5. /\ step' \in [Procs -> Steps]
      /\ step'[p] = (IF at'[p] = "decide" THEN "judge" ELSE "none")
      /\ \A q \in Procs \ {p} : step'[q] = step[q]
  BY DEF CommitWork, AInv, CallsOK, Steps
<1>6. step'[p] \in Inside(at'[p])
  BY <1>4, <1>5 DEF Inside
<1>7. UNCHANGED <<proc, pipes, timer, res, final>>
  BY DEF CommitWork, call
<1>8. CallsOK'
  BY <1>3, <1>4, <1>5, <1>6, <1>7, OneMoves DEF AInv, CallsOK
<1>9. FilesOK'
  <2>1. CASE done
    <3>1. /\ edits' = [edits EXCEPT ![j] = edits[j] \cap Ignored]
          /\ commits' = [commits EXCEPT ![j] = commits[j] \cup (edits[j] \ Ignored)]
      BY <2>1 DEF CommitWork
    <3>2. tree' = [tree EXCEPT ![j] = "clean"] /\ branch' = [branch EXCEPT ![j] = "work"]
      BY <1>1, <2>1 DEF Commit, git
    <3>3. early' = early /\ shipped' = shipped /\ blind' = blind
      BY DEF CommitWork, history
    <3>4. edits' \in [Jobs -> SUBSET Paths] /\ commits' \in [Jobs -> SUBSET Paths]
      BY <3>1 DEF AInv, FilesOK
    <3>5. \A i \in Jobs : /\ tree'[i] # "dirty" => edits'[i] \subseteq Ignored
                          /\ branch'[i] # "work" => commits'[i] = {}
      BY <1>2, <3>1, <3>2 DEF AInv, FilesOK, DInv, GitOK
    <3> QED
      BY <3>3, <3>4, <3>5 DEF AInv, FilesOK
  <2>2. CASE ~ done
    <3>1. edits' = edits /\ commits' = commits /\ early' = early /\ shipped' = shipped
          /\ blind' = blind
      BY <2>2 DEF CommitWork, history
    <3>2. UNCHANGED git
      BY <1>1, <1>2, <2>2 DEF Commit, AInv, DInv, GitOK
    <3> QED
      BY <3>1, <3>2 DEF AInv, FilesOK, git
  <2> QED
    BY <2>1, <2>2
<1> QED
  BY <1>1, <1>8, <1>9 DEF AInv

LEMMA RunStepKeeps == ASSUME AInv, NEW p \in Procs, RunStep(p)  PROVE AInv'
<1>1. SpawnFails(p) => Returned(p, "bad") /\ "bad" \in Ends
  BY DEF SpawnFails, Ends
<1>2. Reaped(p) => Returned(p, proc[p]) /\ proc[p] \in Ends
  BY DEF Reaped, Ends
<1>3. Expired(p) => Returned(p, "killed") /\ "killed" \in Ends
  BY DEF Expired, Ends
<1> QED
  BY <1>1, <1>2, <1>3, StartKeeps, SpawnKeeps, KillKeeps, ReturnedKeeps, CommitWorkKeeps, JudgeKeeps,
     LateKeeps DEF RunStep

-----------------------------------------------------------------------------
(* Integration, deaths and what outlives a run *)

LEMMA MergeReviewedKeeps == ASSUME AInv, NEW p \in Procs, MergeReviewed(p)  PROVE AInv'
<1>1. DInv' /\ Merge(p) /\ at[p] = "merge"
  BY MergeOK DEF MergeReviewed, Merge, AInv
<1>2. PICK pt \in {"gate", "merge"} : \E c : Goto(p, pt, c)
  BY <1>1 DEF Merge
<1>3. at'[p] = pt /\ \A q \in Procs \ {p} : at'[q] = at[q]
  BY <1>2 DEF Goto, AInv, DInv, ProcsOK
<1>4. step[p] = "none"
  BY <1>1, Places DEF AInv
<1>5. step' = step /\ proc' = proc /\ pipes' = pipes /\ timer' = timer /\ res' = res /\ final' = final
      /\ edits' = edits /\ commits' = commits /\ early' = early
  BY DEF MergeReviewed, call, files
<1>6. step'[p] \in Inside(at'[p])
  BY <1>3, <1>4, <1>5 DEF Inside
<1>7. CallsOK'
  BY <1>3, <1>5, <1>6, OneMoves DEF AInv, CallsOK
<1>8. shipped' \in [Jobs -> SUBSET Paths] /\ blind' \in [Jobs -> Marks]
  <2>1. CASE at'[p] = "gate"
    BY <2>1 DEF MergeReviewed, AInv, FilesOK
  <2>2. CASE at'[p] # "gate"
    <3>1. PICK j \in cmd[p].todo, b \in Blindness :
            /\ shipped' = [shipped EXCEPT ![j] = commits[j]]
            /\ blind' = [blind EXCEPT ![j].merge = b]
      BY <2>2 DEF MergeReviewed
    <3>2. j \in Jobs
      BY <1>1 DEF AInv, DInv, ProcsOK, Cmds
    <3> QED
      BY <3>1, <3>2, MarkTypes DEF AInv, FilesOK
  <2> QED
    BY <2>1, <2>2
<1>9. UNCHANGED git
  BY <1>1 DEF Merge
<1>10. FilesOK'
  BY <1>5, <1>8, <1>9 DEF AInv, FilesOK, git
<1> QED
  BY <1>1, <1>7, <1>10 DEF AInv

LEMMA KilledKeeps == ASSUME AInv, NEW p \in Procs, Killed(p)  PROVE AInv'
<1>1. DInv' /\ Die(p)
  BY DieOK DEF Killed, AInv
<1>2. at'[p] = "idle" /\ \A q \in Procs \ {p} : at'[q] = at[q]
  BY <1>1, ExitOK DEF Die, AInv, DInv
<1>3. "none" \in Inside(at'[p])
  BY <1>2 DEF Inside
<1>4. /\ early' \in [Jobs -> SUBSET Paths] /\ shipped' = shipped /\ blind' = blind
      /\ pipes' = [pipes EXCEPT ![p] = "free"]
      /\ timer' \in [Procs -> {"off", "armed", "fired"}]
  BY DEF Killed, history, AInv, FilesOK, CallsOK
<1>5. res' = [res EXCEPT ![p] = [end |-> "none", body |-> "torn"]] /\ "torn" \in Bodies
  BY DEF Killed, NoRes, Bodies
<1>6. UNCHANGED git /\ UNCHANGED files /\ final' = final
  BY <1>1 DEF Die, Killed
<1> QED
  BY <1>1, <1>2, <1>3, <1>4, <1>5, <1>6, OuterKeeps DEF Killed

LEMMA OutsideKeeps == ASSUME AInv, NEW p \in Procs, Outside(p)  PROVE AInv'
<1>1. DInv'
  BY OutsideMaps, NextOK DEF AInv, Next, Step
<1>2. CASE RuntimeEdit(p) \/ VerifyEdit(p)
  <2>1. at[p] \in {"work", "decide"}
    BY <1>2, Places DEF RuntimeEdit, Lives, VerifyEdit, AInv, CallsOK
  <2>2. cmd[p].job \in Jobs
    BY <2>1, JobKnown DEF RunInside
  <2>3. PICK x \in Paths : Touch(cmd[p].job, x)
    BY <1>2 DEF RuntimeEdit, VerifyEdit
  <2> QED
    BY <1>1, <2>2, <2>3, TouchKeeps
<1>3. CASE Inherit(Load(p))
  <2>1. Load(p) /\ Inherit(OtherStep(p) \/ Load(p))
    BY <1>3 DEF Inherit
  <2> QED
    BY <1>1, <2>1, InheritKeeps
<1> QED
  BY <1>2, <1>3, RuntimeKeeps, KilledKeeps DEF Outside

LEMMA OrphanKeeps ==
  ASSUME AInv, NEW j \in Jobs, OrphanWrites(j) \/ Inherit(OrphanEnd(j))
  PROVE  AInv'
<1>1. DInv'
  <2>1. [Next]_vars
    BY OrphanWritesMaps DEF Inherit, Next
  <2> QED
    BY <2>1, NextOK DEF AInv
<1>2. CASE \E x \in Paths : Touch(j, x)
  BY <1>1, <1>2, TouchKeeps
<1>3. CASE OrphanWrites(j) /\ ~ \E x \in Paths : Touch(j, x)
  <2>1. /\ UNCHANGED <<vars, step, call, files, history>>
        /\ \E b \in Bodies : final' = [final EXCEPT ![j] = b]
    BY <1>3 DEF OrphanWrites
  <2>2. CallsOK'
    BY <2>1 DEF AInv, CallsOK, vars, call
  <2>3. FilesOK'
    BY <2>1 DEF AInv, FilesOK, vars, files, history
  <2> QED
    BY <1>1, <2>2, <2>3 DEF AInv
<1>4. CASE Inherit(OrphanEnd(j))
  <2>1. UNCHANGED <<git, at, step, call, final, history>> /\ FollowTrees
    BY <1>4 DEF Inherit, OrphanEnd
  <2>2. CallsOK'
    BY <2>1 DEF AInv, CallsOK, call
  <2>3. FilesOK'
    BY <2>1 DEF AInv, FilesOK, FollowTrees, git, history
  <2> QED
    BY <1>1, <2>2, <2>3 DEF AInv
<1> QED
  BY <1>2, <1>3, <1>4

LEMMA NextAInv == AInv /\ [AdapterNext]_allvars => AInv'
<1> SUFFICES ASSUME AInv, [AdapterNext]_allvars  PROVE AInv'
  OBVIOUS
<1>1. DInv'
  BY NextMaps, NextOK DEF AInv
<1>2. CASE UNCHANGED allvars
  BY <1>1, <1>2 DEF allvars, vars, call, files, history, AInv, CallsOK, FilesOK
<1>3. ASSUME NEW p \in Procs, AdapterStep(p)
      PROVE  AInv'
  <2>1. CASE Inherit(OtherStep(p))
    <3>1. OtherStep(p) /\ Inherit(OtherStep(p) \/ Load(p))
      BY <2>1 DEF Inherit
    <3> QED
      BY <1>1, <3>1, InheritKeeps
  <2> QED
    BY <1>3, <2>1, RunStepKeeps, MergeReviewedKeeps DEF AdapterStep
<1> QED
  BY <1>2, <1>3, OutsideKeeps, OrphanKeeps DEF AdapterNext

LEMMA InitAInv == AdapterInit => AInv
<1> SUFFICES ASSUME AdapterInit  PROVE AInv
  OBVIOUS
<1>1. DInv
  BY InitOK DEF AdapterInit
<1>2. CallsOK
  BY DEF AdapterInit, Init, CallsOK, NoRes, Bodies, Inside, Steps
<1>3. FilesOK
  BY DEF AdapterInit, FilesOK, Marks, Blindness
<1> QED
  BY <1>1, <1>2, <1>3 DEF AInv

LEMMA AdapterInvariant == AdapterSpec => []AInv
BY InitAInv, NextAInv, PTL DEF AdapterSpec

(* The adapter with its runtime, watchdog, result files, repair call and   *)
(* reviews, for any processes and jobs: what the other commands see of it  *)
(* is a run of Dispatch.                                                   *)
THEOREM AdapterImplementsDispatch == AdapterSpec => ImplementsDispatch
<1>1. AdapterInit => Init
  BY DEF AdapterInit
<1>2. AInv /\ [AdapterNext]_allvars => [Next]_vars
  BY NextMaps
<1> QED
  BY <1>1, <1>2, AdapterInvariant, PTL DEF AdapterSpec, ImplementsDispatch

(* Types, for any bounds; a runtime belongs to a process inside a run, a   *)
(* clean checkout has no edits but ignored ones.                           *)
THEOREM AdapterTypeCorrect == AdapterSpec => []AdapterTypeOK
<1>1. AInv => AdapterTypeOK
  BY DEF AInv, CallsOK, FilesOK, AdapterTypeOK, Ends, Steps, Marks
<1> QED
  BY <1>1, AdapterInvariant, PTL

-----------------------------------------------------------------------------
(* What integrate merges *)

(* Only a merge changes what is merged. *)
LEMMA OnlyMergesShip ==
  ASSUME AInv, [AdapterNext]_allvars, \A p \in Procs : ~ MergeReviewed(p)
  PROVE  shipped' = shipped
<1>1. ASSUME NEW p \in Procs, RunStep(p)
      PROVE  shipped' = shipped
  <2>1. Start(p) \/ Spawn(p) \/ Kill(p) \/ CommitWork(p) => shipped' = shipped
    BY DEF Start, Spawn, Kill, CommitWork, history
  <2>2. SpawnFails(p) \/ Reaped(p) \/ Expired(p) => shipped' = shipped
    BY DEF SpawnFails, Reaped, Expired, Returned
  <2>3. (\E r : Conclude(p, r)) \/ Accept(p) => shipped' = shipped
    BY DEF Conclude, Accept, history
  <2>4. Judge(p) => shipped' = shipped
    <3>1. (res[p].end \in Ends /\ res[p].body \in Bodies) \/ ~ Judge(p)
      BY DEF Judge, AInv, CallsOK
    <3> QED
      BY <2>3, <3>1 DEF Judge, Ends, Bodies, history
  <2>5. ReapRepair(p) \/ Review(p) \/ Verify(p) => shipped' = shipped
    BY <2>3 DEF ReapRepair, Review, Verify, history
  <2> QED
    BY <1>1, <2>1, <2>2, <2>4, <2>5 DEF RunStep
<1>2. ASSUME NEW p \in Procs, Outside(p) \/ Inherit(OtherStep(p))
      PROVE  shipped' = shipped
  BY <1>2 DEF Outside, RuntimeEdit, RuntimeResult, RuntimeExit, Escape, LetGo, Timeout, VerifyEdit,
     Touch, Inherit, Killed, history
<1>3. ASSUME NEW i \in Jobs, OrphanWrites(i) \/ Inherit(OrphanEnd(i))
      PROVE  shipped' = shipped
  BY <1>3 DEF OrphanWrites, Touch, Inherit, history
<1> QED
  BY <1>1, <1>2, <1>3 DEF AdapterNext, AdapterStep, allvars, history

-----------------------------------------------------------------------------
(* What is proved of Dispatch holds of the adapter: with the runtime, the  *)
(* watchdog and the reviews, a job still has one worker at a time.         *)
THEOREM AdapterHasOneWorker ==
  ASSUME ApproveAvoids("recover") PROVE AdapterSpec => []OneWorker
<1>1. AdapterInit => WInv /\ OpsApart
  BY InitKeeps DEF AdapterInit
<1>2. AInv /\ WInv /\ OpsApart /\ [AdapterNext]_allvars => (WInv /\ OpsApart)'
  BY NextMaps, NextKeeps
<1>3. WInv => OneWorker
  BY DEF WInv, WorkersOK, OneWorker
<1> QED
  BY <1>1, <1>2, <1>3, AdapterInvariant, PTL DEF AdapterSpec

-----------------------------------------------------------------------------
(* What the runtime had edited when it returned is captured *)

(* Nobody recovers while something runs. *)
RecoverAvoids ==
  {"run", "recover"} \subseteq Commands /\ ~ OneProcess => {"run", "recover"} \in Apart

LEMMA RecoverAway ==
  ASSUME RecoverAvoids, DInv, OpsApart,
         NEW p \in Procs, NEW q \in Procs, cmd[p].op = "recover", cmd[q].op = "run"
  PROVE  FALSE
<1>1. {"run", "recover"} \subseteq Commands /\ ~ OneProcess /\ p # q
  BY NoneIsNoCommand DEF DInv, ProcsOK, Cmds, AllCommands, OneProcess
<1>2. {"run", "recover"} = {cmd[p].op, cmd[q].op}
  OBVIOUS
<1> QED
  BY <1>1, <1>2 DEF OpsApart, RecoverAvoids

Captured(j) == early[j] \ Ignored \subseteq commits[j]

EndedOnes == {"completed", "failed", "timeout"}

(* The branch of a run's job is there, so nobody can check the job out     *)
(* anew; a run that comes late finds the branch of a job that ended.       *)
BranchFits(p) ==
  LET j == cmd[p].job
  IN  j \in WriteJobs =>
        /\ at[p] = "add" /\ ent[j].st \in EndedOnes => branch[j] # "none"
        /\ at[p] = "mark" => branch[j] # "none" \/ ent[j].st = "cancelled"
        /\ at[p] \in AtWork => branch[j] # "none"

(* What the runtime had edited is there until it is committed, unless the  *)
(* checkout is gone, or the commit failed and a human is asked.            *)
EditsFit(p) ==
  LET j == cmd[p].job
  IN  j \in WriteJobs /\ tree[j] # "none" =>
        /\ at[p] = "commit" => early[j] \subseteq edits[j]
        /\ at[p] = "decide" => Captured(j)
        /\ at[p] = "finish" /\ cmd[p].result # "needs-human" => Captured(j)

KInv == /\ AInv /\ LInv /\ WorkCaptured
        /\ \A p \in Procs : BranchFits(p) /\ EditsFit(p)

-----------------------------------------------------------------------------
(* The branch of a run *)

LEMMA OthersBranch ==
  ASSUME ApproveAvoids("run"), RecoverAvoids, LInv, \A r \in Procs : BranchFits(r),
         NEW p \in Procs, Acts(p), NEW q \in Procs \ {p}
  PROVE  BranchFits(q)'
<1>1. WInv /\ DInv /\ OpsApart /\ ClosedFits(p) /\ Fits(at[p], cmd[p]) /\ Fits(at[q], cmd[q])
  BY DEF LInv, WInv, DInv, ProcsOK
<1>2. at'[q] = at[q] /\ cmd'[q].job = cmd[q].job
  BY <1>1, OthersStay DEF Stays
<1> SUFFICES ASSUME cmd[q].job \in WriteJobs, at[q] \in {"add", "mark"} \cup AtWork
             PROVE  BranchFits(q)'
  BY <1>2 DEF BranchFits
<1>3. PICK j \in Jobs : j = cmd[q].job
  BY WriteJobsAreJobs
<1>4. cmd[q].op = "run" /\ BranchFits(q)
  BY <1>1 DEF Fits, RunPoints, AtWork
<1>5. at[q] \in AtWork => ent[j].st = "running"
  BY <1>1, <1>3 DEF WInv, WorkersOK, Working, AtWork
<1>6. ASSUME branch[j] # "none", branch'[j] = "none"
      PROVE  BranchFits(q)'
  <2>1. at[p] = "rmbranch" /\ cmd[p].job = j
    BY <1>1, <1>6, BranchGoes
  <2>2. cmd[p].op # "approve" /\ cmd[p].op # "recover"
    BY <1>1, <1>4, ApproveAway, RecoverAway
  <2>3. ent[j].st = "cancelled"
    BY <1>1, <2>1, <2>2 DEF Fits, ClosedFits
  <2>4. ent'[j].st = "cancelled"
    BY <1>1, <2>3, StatusSteps DEF Unfinished
  <2> QED
    BY <1>2, <1>3, <1>5, <2>3, <2>4 DEF BranchFits, EndedOnes
<1>7. ASSUME ent'[j].st \in EndedOnes, ent[j].st \notin EndedOnes
      PROVE  branch'[j] # "none"
  <2>1. Finish(p)
    BY <1>1, <1>7, StatusSteps DEF EndedOnes
  <2>2. cmd[p].job = j /\ at[p] = "finish"
    BY <1>1, <1>7, <2>1, FinishChanges
  <2> QED
    BY <1>3, <2>1, <2>2 DEF BranchFits, AtWork, Finish, git
<1>8. ent[j].st = "cancelled" => ent'[j].st = "cancelled"
  BY <1>1, StatusSteps DEF Unfinished
<1> QED
  BY <1>2, <1>3, <1>4, <1>6, <1>7, <1>8 DEF BranchFits

LEMMA ActorBranch ==
  ASSUME LInv, NEW p \in Procs, Acts(p), BranchFits(p)
  PROVE  BranchFits(p)'
<1>1. WInv /\ DInv
  BY DEF LInv, WInv
<1> SUFFICES ASSUME cmd'[p].job \in WriteJobs, at'[p] \in {"add", "mark"} \cup AtWork
             PROVE  BranchFits(p)'
  BY DEF BranchFits
<1>2. CASE RunLoad(p)
  <2>1. PICK j \in Jobs :
          /\ ent[j].st = "created"
          /\ Begin(p, IF j \in WriteJobs THEN "add" ELSE "mark",
                   [NoCmd EXCEPT !.op = "run", !.job = j, !.rev = ent[j].rev])
    BY <1>2 DEF RunLoad
  <2>2. PICK r : r = ent[j].rev
    OBVIOUS
  <2>3. /\ cmd' = [cmd EXCEPT ![p] = [NoCmd EXCEPT !.op = "run", !.job = j, !.rev = r]]
        /\ at' = [at EXCEPT ![p] = IF j \in WriteJobs THEN "add" ELSE "mark"]
    BY <2>1, <2>2 DEF Begin
  <2>4. cmd'[p].job = j /\ at'[p] = IF j \in WriteJobs THEN "add" ELSE "mark"
    BY <1>1, <2>3 DEF NoCmd, DInv, ProcsOK
  <2>5. ent' = ent
    BY <1>2 DEF RunLoad
  <2> QED
    BY <2>1, <2>4, <2>5 DEF BranchFits, EndedOnes, AtWork
<1>3. CASE AddTree(p) /\ Goto(p, "mark", cmd[p])
  <2>1. at'[p] = "mark" /\ cmd'[p] = cmd[p] /\ at[p] = "add"
    BY <1>1, <1>3, OpKept DEF AddTree
  <2>2. PICK j \in Jobs : j = cmd[p].job
    BY WriteJobsAreJobs, <2>1
  <2>3. ~ Exit(p)
    BY <1>1, <2>1, ExitOK DEF DInv
  <2>4. branch'[j] # "none"
    BY <1>1, <1>3, <2>2, <2>3 DEF AddTree, DInv, GitOK
  <2> QED
    BY <2>1, <2>2, <2>4 DEF BranchFits, AtWork
<1>4. CASE MarkRunning(p) /\ ~ Exit(p)
  <2>1. PICK j \in Jobs : j = cmd[p].job
    BY <1>1, <1>4 DEF MarkRunning, DInv, ProcsOK, Fits
  <2>2. Store!Move(j, "running") /\ at[p] = "mark" /\ branch' = branch
    BY <1>4, <2>1 DEF MarkRunning, git
  <2>3. ent[j].st # "cancelled"
    BY <1>1, <2>1, <2>2, MoveJob DEF DInv, JobLegal
  <2>4. PICK r : r = cmd[p].rev + 1
    OBVIOUS
  <2>5. cmd' = [cmd EXCEPT ![p] = [cmd[p] EXCEPT !.rev = r]] /\ at' = [at EXCEPT ![p] = "work"]
    BY <1>4, <2>4 DEF MarkRunning, Goto
  <2>6. cmd'[p].job = j /\ at'[p] = "work"
    BY <1>1, <2>1, <2>5 DEF DInv, ProcsOK, Cmds
  <2> QED
    BY <2>1, <2>2, <2>3, <2>6 DEF BranchFits
<1>5. CASE at[p] \in AtWork /\ ent' = ent /\ cmd'[p].job = cmd[p].job /\ at'[p] \in AtWork
  <2>1. PICK j \in Jobs : j = cmd[p].job /\ j \in WriteJobs
    BY <1>5, WriteJobsAreJobs
  <2>2. branch'[j] # "none"
    BY <1>1, <1>5, <2>1, BranchGoes DEF BranchFits, AtWork
  <2> QED
    BY <1>5, <2>1, <2>2 DEF BranchFits, AtWork
<1> QED
  BY <1>1, <1>2, <1>3, <1>4, <1>5, ToMark, ToWork

LEMMA BranchesFit ==
  ASSUME ApproveAvoids("run"), RecoverAvoids, LInv, \A r \in Procs : BranchFits(r), [Next]_vars
  PROVE  \A q \in Procs : BranchFits(q)'
<1>1. CASE UNCHANGED <<ent, at, cmd, branch>>
  BY <1>1 DEF BranchFits
<1>2. ASSUME NEW p \in Procs, Acts(p)  PROVE \A q \in Procs : BranchFits(q)'
  BY <1>2, OthersBranch, ActorBranch
<1> QED
  BY <1>1, <1>2 DEF Next, Acts, OrphanEdit, OrphanEnd, vars, git
-----------------------------------------------------------------------------
(* What the others and the ended jobs have is left where it is *)

(* The checkout of j, if it is there, was there, and has lost nothing. *)
Unharmed(j) ==
  tree'[j] # "none" => /\ tree[j] # "none"
                       /\ edits[j] \subseteq edits'[j] /\ commits[j] \subseteq commits'[j]
                       /\ early'[j] \subseteq early[j]

Fitting == WorkCaptured /\ \A p \in Procs : EditsFit(p)

(* A step of p that harms no job of another run, and none that ended. *)
LEMMA StepFits ==
  ASSUME KInv, NEW p \in Procs,
         \A q \in Procs \ {p} : /\ at'[q] = at[q] /\ cmd'[q].job = cmd[q].job
                                /\ cmd'[q].result = cmd[q].result,
         \A j \in WriteJobs : ent'[j].st \in EndedOnes => Unharmed(j),
         \A q \in Procs \ {p}, j \in WriteJobs : Working(q, j) => Unharmed(j),
         \A j \in WriteJobs : ent'[j].st \in EndedOnes /\ tree[j] # "none"
                                => ent[j].st \in EndedOnes \/ Captured(j),
         EditsFit(p)'
  PROVE  Fitting'
<1>1. WorkCaptured'
  <2> SUFFICES ASSUME NEW j \in WriteJobs, ent'[j].st \in EndedOnes, tree'[j] # "none"
               PROVE  early'[j] \ Ignored \subseteq commits'[j]
    BY DEF WorkCaptured, EndedOnes
  <2>1. Unharmed(j) /\ (ent[j].st \in EndedOnes \/ Captured(j))
    BY DEF Unharmed
  <2>2. Captured(j)
    BY <2>1 DEF KInv, WorkCaptured, EndedOnes, Captured, Unharmed
  <2> QED
    BY <2>1, <2>2 DEF Captured, Unharmed
<1>2. ASSUME NEW q \in Procs \ {p}  PROVE EditsFit(q)'
  <2> SUFFICES ASSUME cmd[q].job \in WriteJobs, tree'[cmd[q].job] # "none",
                      at[q] \in {"commit", "decide", "finish"}
               PROVE  EditsFit(q)'
    BY <1>2 DEF EditsFit
  <2>1. Unharmed(cmd[q].job) /\ EditsFit(q)
    BY <1>2 DEF KInv, Working
  <2> QED
    BY <1>2, <2>1 DEF EditsFit, Captured, Unharmed
<1> QED
  BY <1>1, <1>2 DEF Fitting

(* A step at which nothing happens to entities, commits and history, and   *)
(* the edits of a checkout are not lost.                                   *)
LEMMA StillFits ==
  ASSUME KInv, UNCHANGED <<ent, at, cmd, commits, early>>,
         \A j \in Jobs : /\ tree'[j] = "none" <=> tree[j] = "none"
                         /\ tree[j] # "none" => edits[j] \subseteq edits'[j]
  PROVE  Fitting'
<1>1. WorkCaptured'
  BY WriteJobsAreJobs DEF KInv, WorkCaptured
<1>2. ASSUME NEW p \in Procs  PROVE EditsFit(p)'
  BY WriteJobsAreJobs DEF KInv, EditsFit, Captured
<1> QED
  BY <1>1, <1>2 DEF Fitting

LEMMA TouchFits ==
  ASSUME KInv, NEW j \in Jobs, NEW x \in Paths, Touch(j, x)
  PROVE  Fitting'
<1>1. edits' = [edits EXCEPT ![j] = edits[j] \cup {x}] /\ MayEdit(j)
      /\ UNCHANGED <<ent, at, cmd, commits, early>>
  BY DEF Touch, history
<1>2. \A i \in Jobs : edits[i] \subseteq edits'[i]
  BY <1>1 DEF KInv, AInv, FilesOK
<1>3. \A i \in Jobs : tree'[i] = "none" <=> tree[i] = "none"
  BY <1>1 DEF Touch, MayEdit, KInv, AInv, DInv, GitOK
<1> QED
  BY <1>1, <1>2, <1>3, StillFits

(* A step that changes nothing the others see, nor any file. *)
LEMMA QuietFits == ASSUME KInv, UNCHANGED <<vars, files, early>>  PROVE Fitting'
BY StillFits DEF vars, git, files

(* Nobody else works on the job p works on, and it has not ended. *)
LEMMA OwnJob ==
  ASSUME KInv, NEW p \in Procs, NEW j \in Jobs, Working(p, j)
  PROVE  ent[j].st = "running" /\ \A q \in Procs \ {p} : ~ Working(q, j)
BY DEF KInv, AInv, LInv, WInv, WorkersOK
LEMMA OthersHold ==
  ASSUME KInv, NEW p \in Procs, Acts(p)
  PROVE  \A q \in Procs \ {p} : /\ at'[q] = at[q] /\ cmd'[q].job = cmd[q].job
                                /\ cmd'[q].result = cmd[q].result
BY OthersStay DEF KInv, AInv, Stays

-----------------------------------------------------------------------------
(* The steps of a run *)

LEMMA StartFits == ASSUME KInv, NEW p \in Procs, Start(p)  PROVE Fitting'
<1>1. AInv /\ LInv /\ WInv /\ DInv
  BY DEF KInv, AInv, LInv
<1>2. MarkRunning(p) /\ at[p] = "mark" /\ UNCHANGED <<files, git>> /\ Acts(p)
  BY DEF Start, MarkRunning, Acts, Step
<1>3. PICK j \in Jobs : j = cmd[p].job
  BY <1>1, <1>2, JobKnown
<1>4. early' = early \/ early' = [early EXCEPT ![j] = {}]
  BY <1>3 DEF Start
<1>5. \A i \in WriteJobs : Unharmed(i)
  BY <1>1, <1>2, <1>4, WriteJobsAreJobs DEF Unharmed, AInv, FilesOK, files, git
<1>6. \A i \in Jobs : ent'[i] = ent[i] \/ ent'[i].st = "running"
  BY <1>1, <1>2, MarkChanges
<1>7. at'[p] \in {"work", "idle"}
  BY <1>1, <1>2, ExitOK DEF MarkRunning, DInv, ProcsOK
<1>8. EditsFit(p)'
  BY <1>7 DEF EditsFit
<1> QED
  BY <1>2, <1>5, <1>6, <1>8, StepFits, OthersHold, WriteJobsAreJobs DEF EndedOnes

LEMMA ReturnedFits ==
  ASSUME KInv, NEW p \in Procs, NEW e, Returned(p, e)
  PROVE  Fitting'
<1>1. AInv /\ DInv
  BY DEF KInv, AInv
<1>2. Work(p) /\ at[p] = "work" /\ Goto(p, "commit", cmd[p]) /\ UNCHANGED <<ent, git, files>>
      /\ Acts(p)
  BY DEF Returned, Work, Acts, Step
<1>3. PICK j \in Jobs : j = cmd[p].job
  BY <1>1, <1>2, JobKnown DEF RunInside
<1>4. at'[p] = "commit" /\ cmd'[p] = cmd[p]
  BY <1>1, <1>2, OpKept
<1>5. early' = [early EXCEPT ![j] = edits[j]]
  BY <1>3 DEF Returned
<1>6. ent[j].st = "running" /\ \A q \in Procs \ {p} : ~ Working(q, j)
  BY <1>2, <1>3, OwnJob DEF Working
<1>7. \A i \in WriteJobs : i # j => Unharmed(i)
  BY <1>1, <1>2, <1>5, WriteJobsAreJobs DEF Unharmed, AInv, FilesOK, files, git
<1>8. EditsFit(p)'
  BY <1>1, <1>2, <1>3, <1>4, <1>5 DEF EditsFit, AInv, FilesOK, files, git
<1> QED
  BY <1>2, <1>6, <1>7, <1>8, StepFits, OthersHold DEF EndedOnes

(* A commit takes everything, or there is nothing to take, or it fails.    *)
LEMMA CommitFits ==
  ASSUME KInv, "status" \notin GitFails, NEW p \in Procs, CommitWork(p)
  PROVE  Fitting'
<1>1. AInv /\ DInv /\ EditsFit(p)
  BY DEF KInv, AInv
<1>2. Commit(p) /\ at[p] = "commit" /\ ent' = ent /\ early' = early /\ Acts(p)
  BY DEF CommitWork, Commit, history, Acts, Step
<1>3. PICK j \in Jobs : j = cmd[p].job
  BY <1>1, <1>2, JobKnown DEF RunInside
<1>4. ent[j].st = "running" /\ \A q \in Procs \ {p} : ~ Working(q, j)
  BY <1>2, <1>3, OwnJob DEF Working
<1> DEFINE done == tree[j] = "dirty" /\ tree'[j] = "clean"
<1>5. /\ commits' = IF done THEN [commits EXCEPT ![j] = commits[j] \cup (edits[j] \ Ignored)]
                            ELSE commits
      /\ edits' = IF done THEN [edits EXCEPT ![j] = edits[j] \cap Ignored] ELSE edits
  BY <1>3 DEF CommitWork
<1>6. \A i \in WriteJobs : i # j => Unharmed(i)
  <2>1. tree' = tree \/ tree' = [tree EXCEPT ![j] = "clean"]
    BY <1>2, <1>3 DEF Commit, git
  <2>2. \A i \in Jobs : i # j => tree'[i] = tree[i] /\ commits'[i] = commits[i]
                                 /\ edits'[i] = edits[i]
    BY <1>1, <1>5, <2>1 DEF DInv, GitOK, AInv, FilesOK
  <2> QED
    BY <1>2, <2>2, WriteJobsAreJobs DEF Unharmed
<1>7. ASSUME Goto(p, "finish", [cmd[p] EXCEPT !.result = "needs-human"])
      PROVE  EditsFit(p)'
  <2>1. at'[p] = "finish" /\ cmd'[p] = [cmd[p] EXCEPT !.result = "needs-human"]
    BY <1>1, <1>7, OpKept
  <2>2. cmd'[p].result = "needs-human"
    BY <1>1, <2>1 DEF DInv, ProcsOK, Cmds
  <2> QED
    BY <2>1, <2>2 DEF EditsFit
<1>8. ASSUME Goto(p, "decide", cmd[p]), j \in WriteJobs, tree'[j] # "none"
      PROVE  Captured(j)'
  <2>1. at'[p] = "decide"
    BY <1>1, <1>8, OpKept
  <2>2. ~ Goto(p, "finish", [cmd[p] EXCEPT !.result = "needs-human"])
    BY <1>1, <2>1, OpKept
  <2>3. tree[j] \in {"clean", "dirty"} /\ early[j] \subseteq edits[j]
    BY <1>1, <1>2, <1>3, <1>8 DEF Commit, git, DInv, GitOK, EditsFit
  <2>4. tree[j] # "dirty" \/ tree' = [tree EXCEPT ![j] = "clean"]
    BY <1>2, <1>3, <2>2 DEF Commit
  <2>5. CASE tree[j] = "clean"
    BY <1>1, <1>2, <1>5, <2>3, <2>5 DEF Captured, AInv, FilesOK
  <2>6. CASE tree[j] = "dirty"
    <3>1. tree'[j] = "clean"
      BY <1>1, <2>4, <2>6 DEF DInv, GitOK
    <3>2. commits'[j] = commits[j] \cup (edits[j] \ Ignored)
      BY <1>1, <1>5, <2>6, <3>1 DEF AInv, FilesOK
    <3> QED
      BY <1>2, <2>3, <3>2 DEF Captured
  <2> QED
    BY <2>3, <2>5, <2>6
<1>9. EditsFit(p)'
  <2>1. Goto(p, "decide", cmd[p]) => at'[p] = "decide" /\ cmd'[p] = cmd[p]
    BY <1>1, OpKept
  <2> QED
    BY <1>2, <1>3, <1>7, <1>8, <2>1 DEF Commit, EditsFit, Captured
<1> QED
  BY <1>2, <1>4, <1>6, <1>9, StepFits, OthersHold DEF EndedOnes
(* From the commit to the end of decide, nothing takes back what it took. *)
LEMMA ConcludeFits ==
  ASSUME KInv, NEW p \in Procs, at[p] = "decide", NEW r, Conclude(p, r)
  PROVE  Fitting'
<1>1. AInv /\ DInv /\ EditsFit(p) /\ cmd[p].job \in Jobs
  BY JobKnown DEF KInv, AInv, RunInside
<1>2. PICK v : Goto(p, "finish", [cmd[p] EXCEPT !.result = v])
  BY DEF Conclude
<1>3. at'[p] = "finish" /\ cmd'[p] = [cmd[p] EXCEPT !.result = v]
      /\ \A q \in Procs \ {p} : at'[q] = at[q] /\ cmd'[q] = cmd[q]
  BY <1>1, <1>2 DEF Goto, DInv, ProcsOK
<1>4. cmd'[p].job = cmd[p].job
  BY <1>1, <1>3 DEF DInv, ProcsOK, Cmds
<1>5. UNCHANGED <<ent, tree, edits, commits, early>>
  BY DEF Conclude, git, files, history
<1>6. EditsFit(p)'
  BY <1>1, <1>3, <1>4, <1>5 DEF EditsFit, Captured
<1>7. \A i \in WriteJobs : Unharmed(i)
  BY <1>5 DEF Unharmed
<1> QED
  BY <1>3, <1>5, <1>6, <1>7, StepFits

LEMMA DecideFits ==
  ASSUME KInv, NEW p \in Procs, Judge(p) \/ ReapRepair(p) \/ Review(p) \/ Verify(p)
  PROVE  Fitting'
<1>1. AInv
  BY DEF KInv
<1>2. at[p] = "decide" /\ (Judge(p) => res[p].end \in Ends /\ res[p].body \in Bodies)
  BY <1>1, Places DEF Judge, ReapRepair, Review, Verify, AInv, CallsOK
<1>3. Accept(p) => UNCHANGED <<vars, files, early>>
  BY DEF Accept, history
<1>4. (\E r : Conclude(p, r)) \/ UNCHANGED <<vars, files, early>>
  <2>1. CASE Judge(p)
    BY <1>2, <1>3, <2>1 DEF Judge, Ends, Bodies, history
  <2>2. CASE ReapRepair(p) \/ Review(p) \/ Verify(p)
    BY <1>3, <2>2 DEF ReapRepair, Review, Verify
  <2> QED
    BY <2>1, <2>2
<1> QED
  BY <1>2, <1>4, ConcludeFits, QuietFits

LEMMA RunStepFits ==
  ASSUME KInv, "status" \notin GitFails, NEW p \in Procs, RunStep(p)
  PROVE  Fitting'
<1>1. Spawn(p) \/ Kill(p) => UNCHANGED <<vars, files, early>>
  BY DEF Spawn, Kill, history
<1>2. SpawnFails(p) \/ Reaped(p) \/ Expired(p) => \E e : Returned(p, e)
  BY DEF SpawnFails, Reaped, Expired
<1> QED
  BY <1>1, <1>2, QuietFits, StartFits, ReturnedFits, CommitFits, DecideFits DEF RunStep

-----------------------------------------------------------------------------
(* Everything else leaves what is captured where it is *)

(* Outside a run a branch loses its commits only when its checkout is gone, *)
(* and a checkout comes only to a job that has no branch.                   *)
LEMMA WorkStays ==
  ASSUME DInv, NEW p \in Procs, OtherStep(p) \/ Load(p), NEW j \in Jobs, tree'[j] # "none"
  PROVE  /\ branch[j] = "work" => branch'[j] = "work"
         /\ tree[j] # "none" \/ (at[p] = "add" /\ cmd[p].job = j /\ branch[j] = "none")
<1>1. CASE Load(p)
  BY <1>1 DEF Load, RunLoad, RecoverStart, GateLoad, PruneLoad, IntegrateLoad, git
<1>2. CASE AddTree(p)
  BY <1>2 DEF AddTree, git, DInv, GitOK
<1>3. CASE Finish(p) \/ OpenGate(p)
  BY <1>3 DEF Finish, OpenGate, git
<1>4. CASE RemoveTree(p) \/ RemoveBranch(p)
  BY <1>4 DEF RemoveTree, RemoveBranch, DInv, GitOK
<1>5. CASE Reap(p) \/ Reset(p) \/ ListOrphans(p) \/ RecoverEnd(p)
  BY <1>5 DEF Reap, Reset, ListOrphans, RecoverEnd, git
<1>6. CASE PruneOrphan(p)
  BY <1>6 DEF PruneOrphan, DInv, GitOK
<1>7. CASE ExtendScope(p) \/ Reread(p) \/ Settle(p) \/ ResolveJob(p)
  BY <1>7 DEF ExtendScope, Reread, Settle, ResolveJob, git
<1>8. CASE Promote(p)
  BY <1>8 DEF Promote, git
<1>9. CASE ReclaimTree(p)
  BY <1>9 DEF ReclaimTree, DInv, GitOK
<1> QED
  BY <1>1, <1>2, <1>3, <1>4, <1>5, <1>6, <1>7, <1>8, <1>9 DEF OtherStep

(* A job that ends does so by a run that has captured its work. *)
LEMMA EndsCaptured ==
  ASSUME KInv, NEW p \in Procs, Acts(p), NEW j \in WriteJobs, tree[j] # "none",
         ent'[j].st \in EndedOnes, ent[j].st \notin EndedOnes
  PROVE  Captured(j) /\ Finish(p)
<1>1. AInv /\ LInv /\ WInv /\ DInv /\ EditsFit(p) /\ j \in Jobs
  BY WriteJobsAreJobs DEF KInv, AInv, LInv
<1>2. Finish(p)
  BY <1>1, StatusSteps DEF EndedOnes
<1>3. cmd[p].job = j
  BY <1>1, <1>2, FinishChanges
<1>4. PICK to : to = cmd[p].result
  OBVIOUS
<1>5. Store!Move(j, to)
  BY <1>2, <1>3, <1>4 DEF Finish
<1>6. ent'[j].st = to
  BY <1>1, <1>5, MoveJob DEF JobStep, DInv
<1> QED
  BY <1>1, <1>2, <1>3, <1>4, <1>6 DEF Finish, EditsFit, EndedOnes

LEMMA OtherFits ==
  ASSUME KInv, NEW p \in Procs, OtherStep(p) \/ Load(p), FollowTrees, UNCHANGED history
  PROVE  Fitting'
<1>1. AInv /\ LInv /\ WInv /\ DInv /\ Acts(p) /\ early' = early /\ BranchFits(p)
  BY DEF KInv, AInv, LInv, Acts, OtherStep, Step, history
<1>2. at'[p] \notin RunInside \cup {"finish"}
  BY <1>1, Elsewhere
<1>3. EditsFit(p)'
  BY <1>2 DEF EditsFit, RunInside
<1>4. ASSUME NEW j \in WriteJobs, ~ (at[p] = "add" /\ cmd[p].job = j /\ branch[j] = "none")
      PROVE  Unharmed(j)
  <2> SUFFICES ASSUME tree'[j] # "none"  PROVE Unharmed(j)
    BY DEF Unharmed
  <2>1. j \in Jobs
    BY WriteJobsAreJobs
  <2>2. tree[j] # "none" /\ (branch[j] = "work" => branch'[j] = "work")
    BY <1>1, <1>4, <2>1, WorkStays
  <2>3. edits'[j] = edits[j] /\ commits[j] \subseteq commits'[j]
    BY <1>1, <2>1, <2>2 DEF FollowTrees, AInv, FilesOK
  <2> QED
    BY <1>1, <2>2, <2>3 DEF Unharmed
<1>5. ASSUME NEW q \in Procs \ {p}, NEW j \in WriteJobs, Working(q, j)
      PROVE  Unharmed(j)
  <2>1. branch[j] # "none"
    BY <1>5 DEF KInv, BranchFits, Working, AtWork
  <2> QED
    BY <1>4, <2>1
<1>6. ASSUME NEW j \in WriteJobs, ent'[j].st \in EndedOnes
      PROVE  Unharmed(j)
  <2>1. CASE at[p] = "add"
    <3>1. ent' = ent
      BY <1>1, <2>1, StoreSteps
      DEF MarkRunning, Finish, Reset, OpenGate, Decides, ExtendScope, Reread, Settle, ResolveJob
    <3> QED
      BY <1>1, <1>4, <1>6, <3>1 DEF BranchFits
  <2> QED
    BY <1>4, <2>1
<1>7. ASSUME NEW j \in WriteJobs, ent'[j].st \in EndedOnes, tree[j] # "none"
      PROVE  ent[j].st \in EndedOnes \/ Captured(j)
  BY <1>1, <1>7, EndsCaptured
<1> QED
  BY <1>1, <1>3, <1>5, <1>6, <1>7, StepFits, OthersHold

LEMMA MergeFits == ASSUME KInv, NEW p \in Procs, MergeReviewed(p)  PROVE Fitting'
<1>1. DInv /\ Merge(p) /\ Acts(p)
  BY DEF KInv, AInv, MergeReviewed, Acts, Step
<1>2. UNCHANGED <<ent, tree, edits, commits, early>>
  BY <1>1 DEF MergeReviewed, Merge, git, files
<1>3. at'[p] \in {"gate", "merge"}
  BY <1>1 DEF Merge, Goto, DInv, ProcsOK
<1>4. EditsFit(p)' /\ \A i \in WriteJobs : Unharmed(i)
  BY <1>2, <1>3 DEF EditsFit, Unharmed
<1> QED
  BY <1>1, <1>2, <1>4, StepFits, OthersHold

LEMMA KilledFits == ASSUME KInv, NEW p \in Procs, Killed(p)  PROVE Fitting'
<1>1. DInv /\ Die(p) /\ Acts(p)
  BY DEF KInv, AInv, Killed, Acts
<1>2. UNCHANGED <<ent, tree, edits, commits, early>>
  BY <1>1 DEF Killed, Die, git, files, history
<1>3. at'[p] = "idle"
  BY <1>1, ExitOK DEF Die, DInv
<1>4. EditsFit(p)' /\ \A i \in WriteJobs : Unharmed(i)
  BY <1>2, <1>3 DEF EditsFit, Unharmed
<1> QED
  BY <1>1, <1>2, <1>4, StepFits, OthersHold

LEMMA OutsideFits == ASSUME KInv, NEW p \in Procs, Outside(p)  PROVE Fitting'
<1>1. AInv
  BY DEF KInv
<1>2. CASE RuntimeEdit(p) \/ VerifyEdit(p)
  <2>1. at[p] \in {"work", "decide"}
    BY <1>1, <1>2, Places DEF RuntimeEdit, Lives, VerifyEdit, AInv, CallsOK
  <2>2. cmd[p].job \in Jobs
    BY <1>1, <2>1, JobKnown DEF RunInside
  <2>3. PICK x \in Paths : Touch(cmd[p].job, x)
    BY <1>2 DEF RuntimeEdit, VerifyEdit
  <2> QED
    BY <2>2, <2>3, TouchFits
<1>3. RuntimeResult(p) \/ RuntimeExit(p) \/ Escape(p) \/ LetGo(p) \/ Timeout(p)
        => UNCHANGED <<vars, files, early>>
  BY DEF RuntimeResult, RuntimeExit, Escape, LetGo, Timeout, history
<1>4. Inherit(Load(p)) => Load(p) /\ FollowTrees /\ UNCHANGED history
  BY DEF Inherit
<1> QED
  BY <1>2, <1>3, <1>4, QuietFits, OtherFits, KilledFits DEF Outside

LEMMA OrphanFits ==
  ASSUME KInv, NEW j \in Jobs, OrphanWrites(j) \/ Inherit(OrphanEnd(j))
  PROVE  Fitting'
<1>1. CASE \E x \in Paths : Touch(j, x)
  BY <1>1, TouchFits
<1>2. CASE OrphanWrites(j) /\ ~ \E x \in Paths : Touch(j, x)
  BY <1>2, QuietFits DEF OrphanWrites, history
<1>3. CASE Inherit(OrphanEnd(j))
  <2>1. UNCHANGED <<ent, at, cmd, tree, branch, early>> /\ FollowTrees
    BY <1>3 DEF Inherit, OrphanEnd, git, history
  <2>2. commits' = commits
    BY <2>1 DEF FollowTrees, KInv, AInv, FilesOK
  <2>3. \A i \in Jobs : tree[i] # "none" => edits'[i] = edits[i]
    BY <2>1 DEF FollowTrees
  <2> QED
    BY <2>1, <2>2, <2>3, StillFits
<1> QED
  BY <1>1, <1>2, <1>3

LEMMA NextFits ==
  ASSUME KInv, "status" \notin GitFails, [AdapterNext]_allvars
  PROVE  Fitting'
<1>1. CASE UNCHANGED allvars
  BY <1>1, QuietFits DEF allvars, history
<1>2. ASSUME NEW p \in Procs, AdapterStep(p)
      PROVE  Fitting'
  <2>1. Inherit(OtherStep(p)) => OtherStep(p) /\ FollowTrees /\ UNCHANGED history
    BY DEF Inherit
  <2> QED
    BY <1>2, <2>1, RunStepFits, MergeFits, OtherFits DEF AdapterStep
<1> QED
  BY <1>1, <1>2, OutsideFits, OrphanFits DEF AdapterNext

LEMMA InitCaptures == AdapterInit => KInv
<1> SUFFICES ASSUME AdapterInit  PROVE KInv
  OBVIOUS
<1>1. Init
  BY DEF AdapterInit
<1>2. \A p \in Procs : at[p] = "idle" /\ cmd[p] = NoCmd
  BY <1>1 DEF Init
<1>3. AInv /\ LInv
  BY <1>1, InitAInv, InitLands
<1>4. WorkCaptured
  BY <1>1, WriteJobsAreJobs DEF Init, WorkCaptured
<1>5. \A p \in Procs : BranchFits(p) /\ EditsFit(p)
  BY <1>2 DEF BranchFits, EditsFit, AtWork
<1> QED
  BY <1>3, <1>4, <1>5 DEF KInv

LEMMA CapturesStay ==
  ASSUME ApproveAvoids("run"), ApproveAvoids("recover"), RecoverAvoids, "status" \notin GitFails,
         KInv, [AdapterNext]_allvars
  PROVE  KInv'
<1>1. AInv' /\ [Next]_vars
  BY NextMaps, NextAInv DEF KInv
<1>2. LInv'
  BY <1>1, LandKept DEF KInv
<1>3. \A p \in Procs : BranchFits(p)'
  BY <1>1, BranchesFit DEF KInv
<1>4. Fitting'
  BY NextFits
<1> QED
  BY <1>1, <1>2, <1>3, <1>4 DEF KInv, Fitting

(* While no gate is approved during a run or a recover, no recover is      *)
(* under way during a run, and git status works: with any number of runs,  *)
(* prunes, integrates and gate commands, whatever the runtime, its         *)
(* watchdog and what outlives it do, what the runtime had edited when it   *)
(* returned is on the branch of every job that ended, as long as its       *)
(* checkout is there.                                                      *)
THEOREM RunIsCaptured ==
  ASSUME ApproveAvoids("run"), ApproveAvoids("recover"), RecoverAvoids, "status" \notin GitFails
  PROVE  AdapterSpec => []WorkCaptured
<1>1. KInv /\ [AdapterNext]_allvars => KInv'
  BY CapturesStay
<1>2. KInv => WorkCaptured
  BY DEF KInv
<1> QED
  BY <1>1, <1>2, InitCaptures, PTL DEF AdapterSpec
-----------------------------------------------------------------------------
(* A completed job leaves nothing behind *)

Tidy(j) == edits[j] \subseteq Ignored

(* From the commit on, unless it failed and a human is asked. *)
TidyAt(p) ==
  cmd[p].job \in WriteJobs =>
    /\ at[p] = "decide" => Tidy(cmd[p].job)
    /\ at[p] = "finish" /\ cmd[p].result # "needs-human" => Tidy(cmd[p].job)

AllTidy == /\ orphan = {}
           /\ \A j \in WriteJobs : ent[j].st = "completed" => Tidy(j)
           /\ \A p \in Procs : TidyAt(p)

TInv == AInv /\ WInv /\ OpsApart /\ AllTidy

(* A step of p that brings edits to no other job, and no orphan. *)
LEMMA StepTidy ==
  ASSUME TInv, NEW p \in Procs, orphan' = {},
         \A q \in Procs \ {p} : /\ at'[q] = at[q] /\ cmd'[q].job = cmd[q].job
                                /\ cmd'[q].result = cmd[q].result,
         \A q \in Procs \ {p}, j \in WriteJobs : Working(q, j) => edits'[j] \subseteq edits[j],
         \A j \in WriteJobs : ent'[j].st = "completed"
                                => (ent[j].st = "completed" \/ Tidy(j)) /\ edits'[j] \subseteq edits[j],
         TidyAt(p)'
  PROVE  AllTidy'
<1>1. \A j \in WriteJobs : ent'[j].st = "completed" => Tidy(j)'
  BY DEF TInv, AllTidy, Tidy
<1>2. ASSUME NEW q \in Procs \ {p}  PROVE TidyAt(q)'
  <2> SUFFICES ASSUME cmd[q].job \in WriteJobs, at[q] \in {"decide", "finish"}
               PROVE  TidyAt(q)'
    BY <1>2 DEF TidyAt
  <2>1. edits'[cmd[q].job] \subseteq edits[cmd[q].job] /\ TidyAt(q)
    BY <1>2 DEF TInv, AllTidy, Working
  <2> QED
    BY <1>2, <2>1 DEF TidyAt, Tidy
<1> QED
  BY <1>1, <1>2 DEF AllTidy

LEMMA OwnJobTidy ==
  ASSUME TInv, NEW p \in Procs, NEW j \in Jobs, Working(p, j)
  PROVE  ent[j].st = "running" /\ \A q \in Procs \ {p} : ~ Working(q, j)
BY DEF TInv, WInv, WorkersOK

LEMMA OthersHoldTidy ==
  ASSUME TInv, NEW p \in Procs, Acts(p)
  PROVE  \A q \in Procs \ {p} : /\ at'[q] = at[q] /\ cmd'[q].job = cmd[q].job
                                /\ cmd'[q].result = cmd[q].result
BY OthersStay DEF TInv, AInv, Stays

(* Only the runtime, before it is reaped, writes into a checkout. *)
LEMMA TouchTidy ==
  ASSUME TInv, LateEditors = {}, NEW p \in Procs, RuntimeEdit(p) \/ VerifyEdit(p)
  PROVE  AllTidy'
<1>1. AInv
  BY DEF TInv
<1>2. at[p] = "work"
  BY <1>1, Places DEF RuntimeEdit, Lives, VerifyEdit, AInv, CallsOK
<1>3. PICK j \in Jobs : j = cmd[p].job
  BY <1>1, <1>2, JobKnown DEF RunInside
<1>4. PICK x \in Paths : Touch(j, x)
  BY <1>2, <1>3 DEF RuntimeEdit, VerifyEdit
<1>5. edits' = [edits EXCEPT ![j] = edits[j] \cup {x}] /\ UNCHANGED <<ent, at, cmd, orphan>>
  BY <1>4 DEF Touch
<1>6. \A i \in Jobs : i # j => edits'[i] = edits[i]
  BY <1>1, <1>5 DEF AInv, FilesOK
<1>7. ent[j].st = "running" /\ \A q \in Procs \ {p} : ~ Working(q, j)
  BY <1>2, <1>3, OwnJobTidy DEF Working
<1>8. TidyAt(p)'
  BY <1>2, <1>5 DEF TidyAt
<1> QED
  BY <1>5, <1>6, <1>7, <1>8, StepTidy, WriteJobsAreJobs DEF TInv, AllTidy

(* A step that changes nothing the others see, nor any file. *)
LEMMA QuietTidy == ASSUME TInv, UNCHANGED <<ent, at, cmd, orphan, edits>>  PROVE AllTidy'
BY DEF TInv, AllTidy, TidyAt, Tidy

LEMMA CommitTidy ==
  ASSUME TInv, "status" \notin GitFails, NEW p \in Procs, CommitWork(p)
  PROVE  AllTidy'
<1>1. AInv /\ DInv /\ Commit(p) /\ at[p] = "commit" /\ UNCHANGED <<ent, orphan>> /\ Acts(p)
  BY DEF TInv, AInv, CommitWork, Commit, Acts, Step
<1>2. PICK j \in Jobs : j = cmd[p].job
  BY <1>1, JobKnown DEF RunInside
<1>3. ent[j].st = "running" /\ \A q \in Procs \ {p} : ~ Working(q, j)
  BY <1>1, <1>2, OwnJobTidy DEF Working
<1> DEFINE done == tree[j] = "dirty" /\ tree'[j] = "clean"
<1>4. edits' = IF done THEN [edits EXCEPT ![j] = edits[j] \cap Ignored] ELSE edits
  BY <1>2 DEF CommitWork
<1>5. \A i \in Jobs : edits'[i] \subseteq edits[i]
  BY <1>1, <1>4 DEF AInv, FilesOK
<1>6. ASSUME Goto(p, "finish", [cmd[p] EXCEPT !.result = "needs-human"])
      PROVE  TidyAt(p)'
  <2>1. at'[p] = "finish" /\ cmd'[p] = [cmd[p] EXCEPT !.result = "needs-human"]
    BY <1>1, <1>6, OpKept
  <2>2. cmd'[p].result = "needs-human"
    BY <1>1, <2>1 DEF DInv, ProcsOK, Cmds
  <2> QED
    BY <2>1, <2>2 DEF TidyAt
<1>7. ASSUME Goto(p, "decide", cmd[p])
      PROVE  TidyAt(p)'
  <2>1. at'[p] = "decide" /\ cmd'[p] = cmd[p]
    BY <1>1, <1>7, OpKept
  <2>2. ~ Goto(p, "finish", [cmd[p] EXCEPT !.result = "needs-human"])
    BY <1>1, <2>1, OpKept
  <2>3. tree[j] # "dirty" \/ (tree[j] = "dirty" /\ tree' = [tree EXCEPT ![j] = "clean"])
    BY <1>1, <1>2, <2>2 DEF Commit
  <2>4. Tidy(j)'
    <3>1. tree[j] = "dirty" => done
      BY <1>1, <2>3 DEF DInv, GitOK
    <3> QED
      BY <1>1, <1>4, <1>5, <3>1 DEF Tidy, AInv, FilesOK
  <2>5. cmd'[p].job = j
    BY <1>2, <2>1
  <2> QED
    BY <2>1, <2>4, <2>5 DEF TidyAt, Tidy
<1>8. TidyAt(p)'
  BY <1>1, <1>6, <1>7 DEF Commit
<1> QED
  BY <1>1, <1>3, <1>5, <1>8, StepTidy, OthersHoldTidy, WriteJobsAreJobs DEF TInv, AllTidy

LEMMA ConcludeTidy ==
  ASSUME TInv, NEW p \in Procs, at[p] = "decide", NEW r, Conclude(p, r)
  PROVE  AllTidy'
<1>1. AInv /\ DInv /\ TidyAt(p)
  BY DEF TInv, AInv, AllTidy
<1>2. PICK v : Goto(p, "finish", [cmd[p] EXCEPT !.result = v])
  BY DEF Conclude
<1>3. at'[p] = "finish" /\ cmd'[p] = [cmd[p] EXCEPT !.result = v]
      /\ \A q \in Procs \ {p} : at'[q] = at[q] /\ cmd'[q] = cmd[q]
  BY <1>1, <1>2 DEF Goto, DInv, ProcsOK
<1>4. cmd'[p].job = cmd[p].job
  BY <1>1, <1>3 DEF DInv, ProcsOK, Cmds
<1>5. UNCHANGED <<ent, orphan, edits>>
  BY DEF Conclude, files
<1>6. TidyAt(p)'
  BY <1>1, <1>3, <1>4, <1>5 DEF TidyAt, Tidy
<1> QED
  BY <1>3, <1>5, <1>6, StepTidy DEF TInv, AllTidy

LEMMA DecideTidy ==
  ASSUME TInv, NEW p \in Procs, Judge(p) \/ ReapRepair(p) \/ Review(p) \/ Verify(p)
  PROVE  AllTidy'
<1>1. AInv
  BY DEF TInv
<1>2. at[p] = "decide" /\ (Judge(p) => res[p].end \in Ends /\ res[p].body \in Bodies)
  BY <1>1, Places DEF Judge, ReapRepair, Review, Verify, AInv, CallsOK
<1>3. Accept(p) => UNCHANGED <<vars, files>>
  BY DEF Accept
<1>4. (\E r : Conclude(p, r)) \/ UNCHANGED <<vars, files>>
  <2>1. CASE Judge(p)
    BY <1>2, <1>3, <2>1 DEF Judge, Ends, Bodies
  <2>2. CASE ReapRepair(p) \/ Review(p) \/ Verify(p)
    BY <1>3, <2>2 DEF ReapRepair, Review, Verify
  <2> QED
    BY <2>1, <2>2
<1> QED
  BY <1>2, <1>4, ConcludeTidy, QuietTidy DEF vars, files

(* A step after which p is at none of these points, and nothing is edited. *)
LEMMA AwayTidy ==
  ASSUME TInv, Outliving = {}, NEW p \in Procs, Acts(p), at'[p] \notin {"decide", "finish"},
         \A j \in Jobs : edits'[j] \subseteq edits[j]
  PROVE  AllTidy'
<1>1. WInv /\ DInv /\ TidyAt(p)
  BY DEF TInv, AInv, AllTidy
<1>2. orphan' = {}
  BY OrphansStay DEF TInv, AllTidy
<1>3. ASSUME NEW j \in WriteJobs, ent'[j].st = "completed", ent[j].st # "completed"
      PROVE  Tidy(j)
  <2>1. j \in Jobs
    BY WriteJobsAreJobs
  <2>2. Finish(p)
    BY <1>1, <1>3, <2>1, StatusSteps
  <2>3. cmd[p].job = j
    BY <1>1, <1>3, <2>1, <2>2, FinishChanges
  <2>4. PICK to : to = cmd[p].result
    OBVIOUS
  <2>5. Store!Move(j, to)
    BY <1>3, <2>2, <2>3, <2>4 DEF Finish
  <2>6. ent'[j].st = to
    BY <1>1, <2>1, <2>5, MoveJob DEF JobStep, DInv
  <2> QED
    BY <1>1, <1>3, <2>2, <2>3, <2>4, <2>6 DEF Finish, TidyAt
<1>4. TidyAt(p)'
  BY DEF TidyAt
<1> QED
  BY <1>2, <1>3, <1>4, StepTidy, OthersHoldTidy, WriteJobsAreJobs

LEMMA RunStepTidy ==
  ASSUME TInv, Outliving = {}, "status" \notin GitFails, NEW p \in Procs, RunStep(p)
  PROVE  AllTidy'
<1>1. DInv
  BY DEF TInv, AInv
<1>2. Spawn(p) \/ Kill(p) => UNCHANGED <<vars, files>>
  BY DEF Spawn, Kill
<1>3. CASE SpawnFails(p) \/ Reaped(p) \/ Expired(p)
  <2>1. Work(p) /\ UNCHANGED files
    BY <1>3 DEF SpawnFails, Reaped, Expired, Returned
  <2>2. at'[p] = "commit"
    BY <1>1, <2>1, OpKept DEF Work
  <2> QED
    BY <2>1, <2>2, AwayTidy DEF Acts, Step, files
<1>4. CASE Start(p)
  <2>1. MarkRunning(p) /\ UNCHANGED files
    BY <1>4 DEF Start
  <2>2. at'[p] \in {"work", "idle"}
    BY <1>1, <2>1, ExitOK DEF MarkRunning, DInv, ProcsOK
  <2> QED
    BY <2>1, <2>2, AwayTidy DEF Acts, Step, files
<1> QED
  BY <1>2, <1>3, <1>4, QuietTidy, CommitTidy, DecideTidy DEF RunStep, vars, files

LEMMA OtherTidy ==
  ASSUME TInv, Outliving = {}, NEW p \in Procs, OtherStep(p) \/ Load(p), FollowTrees
  PROVE  AllTidy'
<1>1. DInv /\ Acts(p)
  BY DEF TInv, AInv, Acts, OtherStep, Step
<1>2. at'[p] \notin {"decide", "finish"}
  BY <1>1, Elsewhere DEF RunInside
<1> QED
  BY <1>1, <1>2, AwayTidy DEF FollowTrees

LEMMA OutsideTidy ==
  ASSUME TInv, LateEditors = {}, Outliving = {}, NEW p \in Procs, Outside(p)
  PROVE  AllTidy'
<1>1. RuntimeResult(p) \/ RuntimeExit(p) \/ Escape(p) \/ LetGo(p) \/ Timeout(p)
        => UNCHANGED <<vars, files>>
  BY DEF RuntimeResult, RuntimeExit, Escape, LetGo, Timeout
<1>2. Inherit(Load(p)) => Load(p) /\ FollowTrees
  BY DEF Inherit
<1>3. CASE Killed(p)
  <2>1. DInv /\ Die(p) /\ UNCHANGED files
    BY <1>3 DEF TInv, AInv, Killed
  <2>2. at'[p] = "idle"
    BY <2>1, ExitOK DEF Die, DInv
  <2> QED
    BY <2>1, <2>2, AwayTidy DEF Acts, files
<1> QED
  BY <1>1, <1>2, <1>3, QuietTidy, OtherTidy, TouchTidy DEF Outside, vars, files

LEMMA NextTidy ==
  ASSUME TInv, LateEditors = {}, Outliving = {}, "status" \notin GitFails,
         [AdapterNext]_allvars
  PROVE  AllTidy'
<1>1. CASE UNCHANGED allvars
  BY <1>1, QuietTidy DEF allvars, vars, files
<1>2. ASSUME NEW p \in Procs, AdapterStep(p)
      PROVE  AllTidy'
  <2>1. Inherit(OtherStep(p)) => OtherStep(p) /\ FollowTrees
    BY DEF Inherit
  <2>2. CASE MergeReviewed(p)
    <3>1. DInv /\ Merge(p) /\ UNCHANGED files
      BY <2>2 DEF TInv, AInv, MergeReviewed
    <3>2. at'[p] \in {"gate", "merge"}
      BY <3>1 DEF Merge, Goto, DInv, ProcsOK
    <3> QED
      BY <3>1, <3>2, AwayTidy DEF Acts, Step, files
  <2> QED
    BY <1>2, <2>1, <2>2, RunStepTidy, OtherTidy DEF AdapterStep
<1>3. ~ \E j \in Jobs : OrphanWrites(j) \/ Inherit(OrphanEnd(j))
  BY DEF OrphanWrites, Inherit, OrphanEnd, TInv, AllTidy
<1> QED
  BY <1>1, <1>2, <1>3, OutsideTidy DEF AdapterNext

(* If nothing but the first call edits a checkout (no repair call, no      *)
(* verification command, nothing that outlives a run), git status works    *)
(* and no gate is approved during a recover: whatever else runs, dies or   *)
(* is decided, a completed job has left nothing in its checkout but        *)
(* ignored files.                                                          *)
THEOREM CompletedIsCaptured ==
  ASSUME ApproveAvoids("recover"), LateEditors = {}, Outliving = {}, "status" \notin GitFails
  PROVE  AdapterSpec => []CompletedCaptured
<1>1. AdapterInit => TInv
  <2> SUFFICES ASSUME AdapterInit  PROVE TInv
    OBVIOUS
  <2>1. AInv /\ Init
    BY InitAInv DEF AdapterInit
  <2>2. WInv /\ OpsApart
    BY <2>1, InitKeeps
  <2>3. AllTidy
    BY <2>1, WriteJobsAreJobs DEF Init, AllTidy, TidyAt, AdapterInit, Tidy
  <2> QED
    BY <2>1, <2>2, <2>3 DEF TInv
<1>2. TInv /\ [AdapterNext]_allvars => TInv'
  <2> SUFFICES ASSUME TInv, [AdapterNext]_allvars  PROVE TInv'
    OBVIOUS
  <2>1. AInv' /\ [Next]_vars
    BY NextMaps, NextAInv DEF TInv
  <2>2. WInv' /\ OpsApart'
    BY <2>1, NextKeeps DEF TInv
  <2> QED
    BY <2>1, <2>2, NextTidy DEF TInv
<1>3. TInv => CompletedCaptured
  BY DEF TInv, AllTidy, Tidy, CompletedCaptured
<1> QED
  BY <1>1, <1>2, <1>3, PTL DEF AdapterSpec
-----------------------------------------------------------------------------
(* What is delivered of a completed job is what its runtime had edited *)

(* The checkout of a run is there: of a job that can still begin, and of   *)
(* one that is worked on.                                                  *)
StaysFits(p) ==
  LET j == cmd[p].job
  IN  j \in WriteJobs =>
        /\ at[p] = "mark" /\ ent[j].st = "created" => tree[j] # "none"
        /\ at[p] \in AtWork => tree[j] # "none"

(* A job that is closed, and if it is completed has all its edits merged. *)
Shipped(j) == /\ ent[j].st \in Closed
              /\ ent[j].st = "completed" => early[j] \ Ignored \subseteq shipped[j]

CarryFits(p) == at[p] = "merge" => \A j \in cmd[p].kept : Shipped(j)

BranchCaptured ==
  \A j \in WriteJobs : ent[j].st = "completed" /\ branch[j] # "none" => Captured(j)

EInv == /\ KInv /\ BranchCaptured
        /\ \A p \in Procs : PruneFits(p) /\ StaysFits(p) /\ CarryFits(p)
        /\ \A j \in delivered : Shipped(j)

LEMMA OthersStaysFit ==
  ASSUME ApproveAvoids("run"), RecoverAvoids, KInv, NEW p \in Procs, Acts(p),
         NEW q \in Procs \ {p}, PruneFits(p), StaysFits(q)
  PROVE  StaysFits(q)'
<1>1. WInv /\ DInv /\ OpsApart /\ ClosedFits(p) /\ Fits(at[p], cmd[p]) /\ Fits(at[q], cmd[q])
  BY DEF KInv, LInv, WInv, DInv, ProcsOK
<1>2. at'[q] = at[q] /\ cmd'[q].job = cmd[q].job
  BY <1>1, OthersStay DEF Stays
<1> SUFFICES ASSUME cmd[q].job \in WriteJobs, at[q] \in {"mark"} \cup AtWork,
                    at[q] = "mark" => ent'[cmd[q].job].st = "created"
             PROVE  tree'[cmd[q].job] # "none"
  BY <1>2 DEF StaysFits, AtWork
<1>3. PICK j \in Jobs : j = cmd[q].job
  BY WriteJobsAreJobs
<1>4. cmd[q].op = "run"
  BY <1>1 DEF Fits, RunPoints, AtWork
<1>5. cmd[p].op # "approve" /\ cmd[p].op # "recover"
  BY <1>1, <1>4, ApproveAway, RecoverAway
<1>6. ent[j].st \in {"created", "running"}
  <2>1. CASE at[q] = "mark"
    <3>1. ~ Reset(p)
      BY <1>1, <1>5 DEF Reset, Fits
    <3> QED
      BY <1>1, <1>3, <1>5, <2>1, <3>1, StatusSteps
  <2>2. CASE at[q] \in AtWork
    BY <1>1, <1>3, <2>2 DEF WInv, WorkersOK, Working, AtWork
  <2> QED
    BY <2>1, <2>2
<1>7. tree[j] # "none"
  <2>1. at[q] = "mark" => ent[j].st = "created"
    <3>1. ~ Reset(p)
      BY <1>1, <1>5 DEF Reset, Fits
    <3> QED
      BY <1>1, <1>3, <1>5, <3>1, StatusSteps
  <2> QED
    BY <1>3, <2>1 DEF StaysFits
<1> SUFFICES ASSUME tree'[j] = "none"  PROVE FALSE
  BY <1>3
<1>8. ~ (at[p] = "rmtree" /\ cmd[p].job = j) /\ at[p] # "prune"
  BY <1>1, <1>5, <1>6 DEF Fits, ClosedFits
<1>9. ~ (at[p] = "gc" /\ j \in cmd[p].todo)
  BY <1>1, <1>6 DEF Fits, ClosedFits, Closed, PruneFits, Prunable
<1> QED
  BY <1>1, <1>7, <1>8, <1>9, TreeGoes

LEMMA ActorStaysFits ==
  ASSUME LInv, NEW p \in Procs, Acts(p), StaysFits(p)
  PROVE  StaysFits(p)'
<1>1. WInv /\ DInv
  BY DEF LInv, WInv
<1> SUFFICES ASSUME cmd'[p].job \in WriteJobs, at'[p] \in {"mark"} \cup AtWork
             PROVE  tree'[cmd'[p].job] # "none"
  BY DEF StaysFits
<1>2. ~ RunLoad(p) \/ at'[p] # "mark"
  <2> SUFFICES ASSUME RunLoad(p), at'[p] = "mark"  PROVE FALSE
    OBVIOUS
  <2>1. PICK j \in Jobs :
          Begin(p, IF j \in WriteJobs THEN "add" ELSE "mark",
                [NoCmd EXCEPT !.op = "run", !.job = j, !.rev = ent[j].rev])
    BY DEF RunLoad
  <2>2. PICK r : r = ent[j].rev
    OBVIOUS
  <2>3. /\ cmd' = [cmd EXCEPT ![p] = [NoCmd EXCEPT !.op = "run", !.job = j, !.rev = r]]
        /\ at' = [at EXCEPT ![p] = IF j \in WriteJobs THEN "add" ELSE "mark"]
    BY <2>1, <2>2 DEF Begin
  <2>4. cmd'[p].job = j /\ at'[p] = IF j \in WriteJobs THEN "add" ELSE "mark"
    BY <1>1, <2>3 DEF NoCmd, DInv, ProcsOK
  <2> QED
    BY <2>4
<1>3. CASE AddTree(p) /\ Goto(p, "mark", cmd[p])
  <2>1. at'[p] = "mark" /\ cmd'[p] = cmd[p] /\ at[p] = "add"
    BY <1>1, <1>3, OpKept DEF AddTree
  <2>2. PICK j \in Jobs : j = cmd[p].job
    BY WriteJobsAreJobs, <2>1
  <2>3. ~ Exit(p)
    BY <1>1, <2>1, ExitOK DEF DInv
  <2> QED
    BY <1>1, <1>3, <2>1, <2>2, <2>3 DEF AddTree, DInv, GitOK
<1>4. CASE MarkRunning(p) /\ ~ Exit(p)
  <2>1. PICK j \in Jobs : j = cmd[p].job
    BY <1>1, <1>4 DEF MarkRunning, DInv, ProcsOK, Fits
  <2>2. Store!Move(j, "running") /\ at[p] = "mark" /\ tree' = tree
    BY <1>4, <2>1 DEF MarkRunning, git
  <2>3. ent[j].st = "created"
    BY <1>1, <2>1, <2>2, MoveJob DEF DInv, JobLegal
  <2>4. PICK r : r = cmd[p].rev + 1
    OBVIOUS
  <2>5. cmd' = [cmd EXCEPT ![p] = [cmd[p] EXCEPT !.rev = r]]
    BY <1>4, <2>4 DEF MarkRunning, Goto
  <2>6. cmd'[p].job = j
    BY <1>1, <2>1, <2>5 DEF DInv, ProcsOK, Cmds
  <2> QED
    BY <2>1, <2>2, <2>3, <2>6 DEF StaysFits
<1>5. CASE at[p] \in AtWork /\ cmd'[p].job = cmd[p].job /\ at'[p] \in AtWork
  <2>1. PICK j \in Jobs : j = cmd[p].job /\ j \in WriteJobs
    BY <1>5, WriteJobsAreJobs
  <2> QED
    BY <1>1, <1>5, <2>1, TreeGoes DEF StaysFits, AtWork
<1> QED
  BY <1>1, <1>2, <1>3, <1>4, <1>5, ToMark, ToWork

LEMMA RunsStay ==
  ASSUME ApproveAvoids("run"), ApproveAvoids("prune"), RecoverAvoids, KInv, [Next]_vars,
         \A r \in Procs : PruneFits(r) /\ StaysFits(r)
  PROVE  \A q \in Procs : PruneFits(q)' /\ StaysFits(q)'
<1>1. LInv /\ WInv /\ DInv /\ OpsApart /\ \A p \in Procs : ClosedFits(p)
  BY DEF KInv, LInv, WInv
<1>2. ASSUME NEW p \in Procs, Acts(p)  PROVE \A q \in Procs : PruneFits(q)' /\ StaysFits(q)'
  <2>1. PruneFits(p)' /\ StaysFits(p)'
    BY <1>1, <1>2, ActorList, ActorStaysFits
  <2>2. ASSUME NEW q \in Procs \ {p}  PROVE PruneFits(q)' /\ StaysFits(q)'
    BY <1>1, <1>2, <2>2, OthersPrune, OthersStaysFit
  <2> QED
    BY <2>1, <2>2
<1>3. CASE UNCHANGED <<ent, at, cmd>> /\ \A j \in Jobs : tree'[j] = "none" <=> tree[j] = "none"
  BY <1>3, WriteJobsAreJobs DEF PruneFits, StaysFits
<1>4. (\E j \in Jobs : OrphanEdit(j) \/ OrphanEnd(j)) \/ UNCHANGED vars
      => UNCHANGED <<ent, at, cmd>> /\ \A j \in Jobs : tree'[j] = "none" <=> tree[j] = "none"
  BY <1>1 DEF OrphanEdit, OrphanEnd, MayEdit, vars, git, DInv, GitOK
<1> QED
  BY <1>2, <1>3, <1>4 DEF Next, Acts
(* What a run had edited is noted when its runtime returns. *)
LEMMA EarlySteps ==
  ASSUME KInv, [AdapterNext]_allvars, NEW j \in Jobs
  PROVE  early'[j] = early[j] \/ ent'[j].st = "running"
<1>1. AInv /\ DInv
  BY DEF KInv, AInv
<1>2. ASSUME NEW p \in Procs, RunStep(p)
      PROVE  early'[j] = early[j] \/ ent'[j].st = "running"
  <2>1. ASSUME Start(p), at'[p] = "work", cmd[p].job = j
        PROVE  ent'[j].st = "running"
    <3>1. MarkRunning(p) /\ ~ Exit(p)
      BY <1>1, <2>1, ExitOK DEF Start, DInv
    <3> QED
      BY <1>1, <2>1, <3>1, MoveJob DEF MarkRunning, JobStep, DInv
  <2>2. CASE Start(p)
    BY <1>1, <2>1, <2>2 DEF Start, AInv, FilesOK
  <2>3. ASSUME NEW e, Returned(p, e)  PROVE early'[j] = early[j] \/ ent'[j].st = "running"
    <3>1. Work(p) /\ ent' = ent /\ early' = [early EXCEPT ![cmd[p].job] = edits[cmd[p].job]]
      BY <2>3 DEF Returned, Work
    <3>2. cmd[p].job = j => ent[j].st = "running"
      BY <3>1, OwnJob DEF Working, Work
    <3> QED
      BY <1>1, <3>1, <3>2 DEF AInv, FilesOK
  <2>4. Spawn(p) \/ Kill(p) \/ CommitWork(p) => early' = early
    BY DEF Spawn, Kill, CommitWork, history
  <2>5. (\E r : Conclude(p, r)) \/ Accept(p) => early' = early
    BY DEF Conclude, Accept, history
  <2>6. Judge(p) => early' = early
    <3>1. (res[p].end \in Ends /\ res[p].body \in Bodies) \/ ~ Judge(p)
      BY <1>1 DEF Judge, AInv, CallsOK
    <3> QED
      BY <2>5, <3>1 DEF Judge, Ends, Bodies, history
  <2>7. ReapRepair(p) \/ Review(p) \/ Verify(p) => early' = early
    BY <2>5 DEF ReapRepair, Review, Verify, history
  <2> QED
    BY <1>2, <2>2, <2>3, <2>4, <2>6, <2>7 DEF RunStep, SpawnFails, Reaped, Expired
<1>3. ASSUME NEW p \in Procs, MergeReviewed(p) \/ Inherit(OtherStep(p)) \/ Outside(p)
      PROVE  early' = early
  BY <1>3 DEF MergeReviewed, Outside, RuntimeEdit, RuntimeResult, RuntimeExit, Escape, LetGo, Timeout,
     VerifyEdit, Touch, Inherit, Killed, history
<1>4. ASSUME NEW i \in Jobs, OrphanWrites(i) \/ Inherit(OrphanEnd(i))
      PROVE  early' = early
  BY <1>4 DEF OrphanWrites, Touch, Inherit, history
<1> QED
  BY <1>2, <1>3, <1>4 DEF AdapterNext, AdapterStep, allvars, history

(* Commits are added to, or go with their branch. *)
LEMMA CommitsStay ==
  ASSUME AInv, [AdapterNext]_allvars, NEW j \in Jobs, branch'[j] # "none"
  PROVE  commits[j] \subseteq commits'[j]
<1>1. DInv
  BY DEF AInv
<1>2. ASSUME NEW p \in Procs, OtherStep(p) \/ Load(p), FollowTrees
      PROVE  commits[j] \subseteq commits'[j]
  <2>1. Acts(p)
    BY <1>2 DEF Acts, OtherStep, Step
  <2>2. branch[j] = "work" => branch'[j] = "work"
    <3>1. RemoveBranch(p) \/ Die(p) => branch'[j] = branch[j]
      BY <1>1 DEF RemoveBranch, Die, git, DInv, GitOK
    <3> QED
      BY <1>1, <2>1, <3>1, BranchGoes, PointActs
  <2> QED
    BY <1>2, <2>2 DEF FollowTrees, AInv, FilesOK
<1>3. ASSUME NEW p \in Procs, RunStep(p)
      PROVE  commits[j] \subseteq commits'[j]
  <2>1. Start(p) \/ Spawn(p) \/ Kill(p) => commits' = commits
    BY DEF Start, Spawn, Kill, files
  <2>2. SpawnFails(p) \/ Reaped(p) \/ Expired(p) => commits' = commits
    BY DEF SpawnFails, Reaped, Expired, Returned, files
  <2>3. CommitWork(p) => commits[j] \subseteq commits'[j]
    BY DEF CommitWork, AInv, FilesOK
  <2>4. (\E r : Conclude(p, r)) \/ Accept(p) => commits' = commits
    BY DEF Conclude, Accept, files
  <2>5. Judge(p) => commits' = commits
    <3>1. (res[p].end \in Ends /\ res[p].body \in Bodies) \/ ~ Judge(p)
      BY DEF Judge, AInv, CallsOK
    <3> QED
      BY <2>4, <3>1 DEF Judge, Ends, Bodies, files
  <2>6. ReapRepair(p) \/ Review(p) \/ Verify(p) => commits' = commits
    BY <2>4 DEF ReapRepair, Review, Verify, files
  <2> QED
    BY <1>3, <2>1, <2>2, <2>3, <2>5, <2>6 DEF RunStep
<1>4. ASSUME NEW p \in Procs, MergeReviewed(p) \/ (Outside(p) /\ ~ Inherit(Load(p)))
      PROVE  commits' = commits
  BY <1>4 DEF MergeReviewed, Outside, RuntimeEdit, RuntimeResult, RuntimeExit, Escape, LetGo,
     Timeout, VerifyEdit, Touch, Killed, files
<1>5. ASSUME NEW i \in Jobs, OrphanWrites(i)
      PROVE  commits' = commits
  BY <1>5 DEF OrphanWrites, Touch, files
<1>6. ASSUME NEW i \in Jobs, OrphanEnd(i), FollowTrees
      PROVE  commits[j] \subseteq commits'[j]
  BY <1>6 DEF OrphanEnd, FollowTrees, git, AInv, FilesOK
<1>7. CASE UNCHANGED allvars
  BY <1>7 DEF allvars, files
<1> QED
  BY <1>2, <1>3, <1>4, <1>5, <1>6, <1>7 DEF AdapterNext, AdapterStep, Inherit, Outside

(* What a completed job has is captured as long as its branch is there. *)
LEMMA BranchStaysCaptured ==
  ASSUME EInv, "status" \notin GitFails, [AdapterNext]_allvars
  PROVE  BranchCaptured'
<1> SUFFICES ASSUME NEW j \in WriteJobs, ent'[j].st = "completed", branch'[j] # "none"
             PROVE  Captured(j)'
  BY DEF BranchCaptured
<1>1. KInv /\ AInv /\ LInv /\ WInv /\ DInv /\ j \in Jobs /\ [Next]_vars
  BY NextMaps, WriteJobsAreJobs DEF EInv, KInv, AInv, LInv
<1>2. CASE tree'[j] # "none"
  BY <1>1, <1>2, NextFits DEF Fitting, WorkCaptured, Captured
<1>3. CASE tree'[j] = "none"
  <2>1. (\E p \in Procs : Acts(p)) \/ UNCHANGED <<ent, branch>>
    BY <1>1 DEF Next, Acts, OrphanEdit, OrphanEnd, vars, git
  <2>2. ent[j].st = "completed"
    <3> SUFFICES ASSUME ent[j].st # "completed"  PROVE FALSE
      OBVIOUS
    <3>1. PICK p \in Procs : Acts(p)
      BY <2>1
    <3>2. Finish(p)
      BY <1>1, <3>1, StatusSteps
    <3>3. cmd[p].job = j /\ at[p] = "finish" /\ tree' = tree
      BY <1>1, <3>2, FinishChanges DEF Finish, git
    <3> QED
      BY <1>3, <3>3 DEF EInv, StaysFits, AtWork
  <2>3. branch[j] # "none"
    BY <1>1, <1>3, <2>1, BranchComes
  <2>4. Captured(j)
    BY <2>2, <2>3 DEF EInv, BranchCaptured
  <2>5. early'[j] = early[j] /\ commits[j] \subseteq commits'[j]
    BY <1>1, EarlySteps, CommitsStay
  <2> QED
    BY <2>4, <2>5 DEF Captured
<1> QED
  BY <1>2, <1>3
(* Nothing but a reviewed merge merges. *)
LEMMA OnlyReviewedMerges ==
  ASSUME AInv, NEW p \in Procs, RunStep(p) \/ OtherStep(p) \/ Load(p) \/ Die(p)
  PROVE  ~ Merge(p)
<1> SUFFICES ASSUME Merge(p)  PROVE FALSE
  OBVIOUS
<1>1. at[p] = "merge" /\ at'[p] \in {"merge", "gate"} /\ cmd[p].todo # {}
  BY DEF Merge, Goto, AInv, DInv, ProcsOK
<1>2. CASE RunStep(p)
  <2>1. step[p] = "none" /\ at[p] \notin {"mark", "work", "commit"}
    BY <1>1, Places DEF AInv
  <2>2. ~ Start(p) /\ ~ Spawn(p) /\ ~ SpawnFails(p) /\ ~ Reaped(p) /\ ~ Kill(p) /\ ~ Expired(p)
    BY <2>1 DEF Start, MarkRunning, Spawn, SpawnFails, Reaped, Kill, Expired
  <2>3. ~ CommitWork(p)
    BY <2>1 DEF CommitWork, Commit
  <2>4. ~ Judge(p) /\ ~ ReapRepair(p) /\ ~ Review(p) /\ ~ Verify(p)
    BY <2>1 DEF Judge, ReapRepair, Review, Verify
  <2> QED
    BY <1>2, <2>2, <2>3, <2>4 DEF RunStep
<1>3. CASE OtherStep(p)
  <2>1. ~ AddTree(p) /\ ~ Finish(p) /\ ~ OpenGate(p) /\ ~ RemoveTree(p) /\ ~ RemoveBranch(p)
    BY <1>1 DEF AddTree, Finish, OpenGate, RemoveTree, RemoveBranch
  <2>2. ~ Reap(p) /\ ~ Reset(p) /\ ~ ListOrphans(p) /\ ~ PruneOrphan(p) /\ ~ RecoverEnd(p)
    BY <1>1 DEF Reap, Reset, ListOrphans, PruneOrphan, RecoverEnd
  <2>3. ~ ExtendScope(p) /\ ~ Reread(p) /\ ~ Settle(p) /\ ~ ResolveJob(p)
    BY <1>1 DEF ExtendScope, Reread, Settle, ResolveJob
  <2>4. ~ Promote(p) /\ ~ ReclaimTree(p)
    BY <1>1 DEF Promote, ReclaimTree
  <2> QED
    BY <1>3, <2>1, <2>2, <2>3, <2>4 DEF OtherStep
<1>4. CASE Load(p)
  BY <1>1, <1>4, PointActs DEF Acts
<1>5. CASE Die(p)
  BY <1>1, <1>5, ExitOK DEF Die, AInv, DInv
<1> QED
  BY <1>2, <1>3, <1>4, <1>5

(* How a process comes to the merges, and what is delivered. *)
LEMMA ToMerge ==
  ASSUME DInv, NEW p \in Procs, Acts(p), at'[p] = "merge"
  PROVE  IntegrateLoad(p) \/ Merge(p)
<1>1. Exit(p) => at'[p] = "idle"
  BY ExitOK DEF DInv
<1>2. ASSUME NEW pt, NEW c, Begin(p, pt, c) \/ Goto(p, pt, c)
      PROVE  at'[p] = pt
  BY <1>2 DEF Begin, Goto, DInv, ProcsOK
<1>3. ~ RunLoad(p) /\ ~ RecoverStart(p) /\ ~ GateLoad(p) /\ ~ PruneLoad(p) /\ ~ Die(p)
  <2>1. RunLoad(p) \/ GateLoad(p) => \E pt \in {"add", "mark", "settle", "extend"} : \E c : Begin(p, pt, c)
    BY Zenon DEF RunLoad, GateLoad
  <2> QED
    BY <1>1, <1>2, <2>1 DEF RecoverStart, PruneLoad, Die
<1>4. ~ AddTree(p) /\ ~ MarkRunning(p) /\ ~ Edit(p) /\ ~ Work(p) /\ ~ Commit(p) /\ ~ Decide(p)
      /\ ~ Finish(p)
  <2>1. ~ MarkRunning(p) /\ ~ Edit(p)
    BY <1>1 DEF MarkRunning, Edit, DInv, ProcsOK
  <2> QED
    BY <1>1, <1>2, <2>1 DEF AddTree, Work, Commit, Decide, Finish
<1>5. ~ OpenGate(p) /\ ~ RemoveTree(p) /\ ~ RemoveBranch(p)
  <2>1. OpenGate(p) => Exit(p) \/ Goto(p, "reap", cmd[p])
    BY DEF OpenGate, DInv, ProcsOK, Fits
  <2>2. RemoveBranch(p) => Exit(p) \/ Goto(p, "reset", cmd[p]) \/ Goto(p, "prune", cmd[p])
    BY DEF RemoveBranch
  <2> QED
    BY <1>1, <1>2, <2>1, <2>2 DEF RemoveTree
<1>6. ~ Reap(p) /\ ~ Reset(p) /\ ~ ListOrphans(p) /\ ~ PruneOrphan(p) /\ ~ RecoverEnd(p)
  <2>1. Reap(p) \/ Reset(p) =>
          \E c : Goto(p, "reap", c) \/ Goto(p, "rmtree", c) \/ Goto(p, "reset", c) \/ Goto(p, "gate", c)
    BY Zenon DEF Reap, Reset
  <2> QED
    BY <1>1, <1>2, <2>1 DEF ListOrphans, PruneOrphan, RecoverEnd
<1>7. ~ ExtendScope(p) /\ ~ Reread(p) /\ ~ Settle(p) /\ ~ ResolveJob(p)
  BY <1>1, <1>2 DEF ExtendScope, Reread, Settle, ResolveJob
<1>8. ~ Promote(p) /\ ~ ReclaimTree(p)
  BY <1>1, <1>2 DEF Promote, ReclaimTree
<1> QED
  BY <1>3, <1>4, <1>5, <1>6, <1>7, <1>8 DEF Acts, Load, Step

LEMMA DeliveredSteps ==
  ASSUME NEW p \in Procs, Acts(p)
  PROVE  delivered' = delivered \/ (at[p] = "merge" /\ delivered' = cmd[p].kept)
<1>1. Load(p) \/ Die(p) => delivered' = delivered
  BY DEF Load, RunLoad, RecoverStart, GateLoad, PruneLoad, IntegrateLoad, Die
<1>2. AddTree(p) \/ MarkRunning(p) \/ Edit(p) \/ Work(p) \/ Commit(p) \/ Decide(p) \/ Finish(p)
      \/ OpenGate(p) => delivered' = delivered
  BY DEF AddTree, MarkRunning, Edit, Work, Commit, Decide, Finish, OpenGate
<1>3. RemoveTree(p) \/ RemoveBranch(p) \/ Reap(p) \/ Reset(p) \/ ListOrphans(p)
      \/ PruneOrphan(p) \/ RecoverEnd(p) => delivered' = delivered
  BY DEF RemoveTree, RemoveBranch, Reap, Reset, ListOrphans, PruneOrphan, RecoverEnd
<1>4. ExtendScope(p) \/ Reread(p) \/ Settle(p) \/ ResolveJob(p) \/ Merge(p) \/ ReclaimTree(p)
      => delivered' = delivered
  BY DEF ExtendScope, Reread, Settle, ResolveJob, Merge, ReclaimTree
<1>5. Promote(p) => at[p] = "merge" /\ delivered' = cmd[p].kept
  BY DEF Promote
<1> QED
  BY <1>1, <1>2, <1>3, <1>4, <1>5 DEF Acts, Step

(* A merge takes what is on the branch of one more completed job. *)
LEMMA MergeShips ==
  ASSUME AInv, NEW p \in Procs, MergeReviewed(p), at'[p] # "gate"
  PROVE  \E i \in cmd[p].todo : /\ branch[i] # "none" /\ cmd'[p].kept = cmd[p].kept \cup {i}
                                /\ shipped' = [shipped EXCEPT ![i] = commits[i]]
<1>1. DInv /\ Merge(p) /\ cmd[p] \in Cmds
  BY DEF MergeReviewed, AInv, DInv, ProcsOK
<1>2. \A c : ~ Goto(p, "gate", c)
  BY <1>1, OpKept
<1>3. PICK i \in cmd[p].todo :
        /\ branch[i] # "none"
        /\ Goto(p, "merge", [cmd[p] EXCEPT !.todo = @ \ {i}, !.kept = @ \cup {i}])
  BY <1>1, <1>2, Zenon DEF Merge
<1>4. PICK t, k : t = cmd[p].todo \ {i} /\ k = cmd[p].kept \cup {i}
  OBVIOUS
<1>5. cmd'[p] = [cmd[p] EXCEPT !.todo = t, !.kept = k]
  BY <1>1, <1>3, <1>4, OpKept
<1>6. cmd'[p].todo = t /\ cmd'[p].kept = k
  BY <1>1, <1>5 DEF Cmds
<1>7. PICK j \in cmd[p].todo \ cmd'[p].todo : shipped' = [shipped EXCEPT ![j] = commits[j]]
  BY DEF MergeReviewed
<1>8. j = i
  BY <1>4, <1>6, <1>7
<1> QED
  BY <1>3, <1>4, <1>6, <1>7, <1>8
(* What is merged stays merged, or is merged again with all that is there. *)
LEMMA ShippedStays ==
  ASSUME EInv, [AdapterNext]_allvars, NEW j \in WriteJobs, Shipped(j)
  PROVE  Shipped(j)'
<1>1. KInv /\ AInv /\ WInv /\ j \in Jobs /\ [Next]_vars
  BY NextMaps, WriteJobsAreJobs DEF EInv, KInv, LInv, AInv
<1>2. ent'[j].st \in Closed /\ (ent'[j].st = "completed" => ent[j].st = "completed")
  <2>1. (\E p \in Procs : Acts(p)) \/ ent' = ent
    BY <1>1 DEF Next, Acts, OrphanEdit, OrphanEnd, vars
  <2> QED
    BY <1>1, <2>1, StatusSteps DEF Shipped, Closed, Unfinished
<1> SUFFICES ASSUME ent'[j].st = "completed"
             PROVE  early'[j] \ Ignored \subseteq shipped'[j]
  BY <1>2 DEF Shipped
<1>3. early'[j] = early[j] /\ ent[j].st = "completed" /\ early[j] \ Ignored \subseteq shipped[j]
  BY <1>1, <1>2, EarlySteps DEF Shipped
<1>4. CASE shipped'[j] = shipped[j]
  BY <1>3, <1>4
<1>5. ASSUME NEW p \in Procs, MergeReviewed(p), shipped'[j] # shipped[j]
      PROVE  early'[j] \ Ignored \subseteq shipped'[j]
  <2>1. at'[p] # "gate"
    BY <1>5 DEF MergeReviewed
  <2>2. PICK i : branch[i] # "none" /\ shipped' = [shipped EXCEPT ![i] = commits[i]]
    BY <1>1, <1>5, <2>1, MergeShips
  <2>3. i = j /\ shipped'[j] = commits[j]
    BY <1>1, <1>5, <2>2 DEF AInv, FilesOK
  <2> QED
    BY <1>3, <2>2, <2>3 DEF EInv, BranchCaptured, Captured
<1> QED
  BY <1>1, <1>4, <1>5, OnlyMergesShip

LEMMA CarryKept ==
  ASSUME EInv, [AdapterNext]_allvars, NEW q \in Procs
  PROVE  CarryFits(q)'
<1> SUFFICES ASSUME at'[q] = "merge", NEW j \in cmd'[q].kept
             PROVE  Shipped(j)'
  BY DEF CarryFits
<1>1. KInv /\ AInv /\ DInv /\ LInv
  BY DEF EInv, KInv, AInv
<1>2. ASSUME at[q] = "merge", j \in cmd[q].kept
      PROVE  Shipped(j)'
  <2>1. Shipped(j) /\ j \in WriteJobs
    BY <1>1, <1>2 DEF EInv, CarryFits, DInv, ProcsOK, Fits
  <2> QED
    BY <2>1, ShippedStays
<1>3. CASE UNCHANGED <<at, cmd>>
  BY <1>2, <1>3
<1>4. ASSUME NEW p \in Procs, Acts(p), q # p
      PROVE  Shipped(j)'
  BY <1>1, <1>2, <1>4, OthersStay DEF Stays
<1>5. ASSUME IntegrateLoad(q)
      PROVE  FALSE
  <2>1. PICK t : Begin(q, "merge", [NoCmd EXCEPT !.op = "integrate", !.todo = t])
    BY <1>5 DEF IntegrateLoad
  <2>2. cmd'[q] = [NoCmd EXCEPT !.op = "integrate", !.todo = t]
    BY <1>1, <2>1 DEF Begin, DInv, ProcsOK
  <2> QED
    BY <2>2 DEF NoCmd
<1>6. CASE MergeReviewed(q)
  <2>1. at'[q] # "gate" /\ at[q] = "merge" /\ UNCHANGED <<ent, early>>
    BY <1>6 DEF MergeReviewed, Merge
  <2>2. PICK i \in cmd[q].todo : /\ branch[i] # "none" /\ cmd'[q].kept = cmd[q].kept \cup {i}
                                 /\ shipped' = [shipped EXCEPT ![i] = commits[i]]
    BY <1>1, <1>6, <2>1, MergeShips
  <2>3. CASE j = i
    <3>1. i \in WriteJobs /\ i \in Jobs /\ ent[i].st \in Closed
      BY <1>1, <2>1, WriteJobsAreJobs DEF LInv, ClosedFits, DInv, ProcsOK, Fits
    <3>2. ent[i].st = "completed" => Captured(i)
      BY <2>2, <3>1 DEF EInv, BranchCaptured
    <3>3. shipped'[i] = commits[i]
      BY <1>1, <2>2, <3>1 DEF AInv, FilesOK
    <3> QED
      BY <2>1, <2>3, <3>1, <3>2, <3>3 DEF Shipped, Captured
  <2> QED
    BY <1>2, <2>1, <2>2, <2>3
<1>7. ASSUME NEW p \in Procs, RunStep(p) \/ Inherit(OtherStep(p)) \/ Outside(p)
      PROVE  Shipped(j)'
  <2>1. CASE UNCHANGED vars
    BY <1>3, <2>1 DEF vars
  <2>2. CASE Edit(p)
    BY <1>3, <2>2 DEF Edit
  <2>3. CASE RunStep(p) \/ OtherStep(p) \/ Load(p) \/ Die(p)
    <3>1. Acts(p) \/ UNCHANGED vars
      BY <1>1, <2>3, RunStepMaps DEF Acts, OtherStep, Step
    <3>2. ~ Merge(p)
      BY <1>1, <2>3, OnlyReviewedMerges
    <3> QED
      BY <1>1, <1>4, <1>5, <2>1, <3>1, <3>2, ToMerge
  <2> QED
    BY <1>1, <1>7, <2>1, <2>2, <2>3, OutsideMaps DEF Inherit
<1>8. ASSUME NEW p \in Procs, MergeReviewed(p), q # p
      PROVE  Shipped(j)'
  BY <1>4, <1>8 DEF MergeReviewed, Acts, Step
<1>9. ASSUME NEW i \in Jobs, OrphanWrites(i) \/ Inherit(OrphanEnd(i))
      PROVE  Shipped(j)'
  BY <1>3, <1>9 DEF OrphanWrites, Touch, Inherit, OrphanEnd, vars
<1> QED
  BY <1>3, <1>6, <1>7, <1>8, <1>9 DEF AdapterNext, AdapterStep, allvars, vars

LEMMA DeliveredKept ==
  ASSUME EInv, [AdapterNext]_allvars, NEW j \in delivered'
  PROVE  Shipped(j)'
<1>1. DInv /\ AInv /\ [Next]_vars
  BY NextMaps DEF EInv, KInv, AInv
<1>2. delivered' = delivered \/ \E p \in Procs : at[p] = "merge" /\ delivered' = cmd[p].kept
  BY <1>1, DeliveredSteps DEF Next, Acts, OrphanEdit, OrphanEnd, vars
<1>3. Shipped(j) /\ j \in WriteJobs
  BY <1>1, <1>2 DEF EInv, CarryFits, DInv, RestOK, ProcsOK, Fits
<1> QED
  BY <1>3, ShippedStays

(* Captured by a run, still there when it is merged, and merged whole:     *)
(* while no gate is approved during a run, a recover or a prune, no        *)
(* recover is under way during a run, and git status works, what the       *)
(* runtime of a delivered job had edited when it returned is in what is    *)
(* delivered, unless the job was rejected after integrate had read it.     *)
THEOREM DeliveryHasTheWork ==
  ASSUME ApproveAvoids("run"), ApproveAvoids("recover"), ApproveAvoids("prune"), RecoverAvoids,
         "status" \notin GitFails
  PROVE  AdapterSpec => []DeliveredCaptured
<1>1. AdapterInit => EInv
  <2> SUFFICES ASSUME AdapterInit  PROVE EInv
    OBVIOUS
  <2>1. Init
    BY DEF AdapterInit
  <2>2. \A p \in Procs : at[p] = "idle"
    BY <2>1 DEF Init
  <2>3. \A p \in Procs : PruneFits(p) /\ StaysFits(p) /\ CarryFits(p)
    BY <2>2 DEF PruneFits, StaysFits, CarryFits, AtWork
  <2>4. BranchCaptured /\ delivered = {}
    BY <2>1, WriteJobsAreJobs DEF Init, BranchCaptured
  <2> QED
    BY <2>3, <2>4, InitCaptures DEF EInv
<1>2. EInv /\ [AdapterNext]_allvars => EInv'
  <2> SUFFICES ASSUME EInv, [AdapterNext]_allvars  PROVE EInv'
    OBVIOUS
  <2>1. KInv' /\ [Next]_vars
    BY NextMaps, CapturesStay DEF EInv, KInv
  <2>2. \A p \in Procs : PruneFits(p)' /\ StaysFits(p)'
    BY <2>1, RunsStay DEF EInv
  <2>3. BranchCaptured' /\ (\A p \in Procs : CarryFits(p)') /\ \A j \in delivered' : Shipped(j)'
    BY BranchStaysCaptured, CarryKept, DeliveredKept
  <2> QED
    BY <2>1, <2>2, <2>3 DEF EInv
<1>3. EInv => DeliveredCaptured
  BY DEF EInv, Shipped, DeliveredCaptured
<1> QED
  BY <1>1, <1>2, <1>3, PTL DEF AdapterSpec
-----------------------------------------------------------------------------
(* What is delivered is in scope, as far as the reviews could see *)

(* The scope of a job never shrinks, whoever writes its view. *)
LEMMA ScopeGrows ==
  ASSUME DInv, [Next]_vars, NEW j \in Jobs
  PROVE  ent[j].allowed \subseteq ent'[j].allowed
BY JobsAdvance DEF JobAdvances

(* What a path is that a review of job j lets pass, blind as it may be. *)
Passes(j, x, b) ==
  /\ b = "nothing" => ~ MatchAny(x, Reserved)
  /\ b # "all" => ~ MatchAny(x, Denied) /\ MatchAny(x, JobScope(j).allowed)

LEMMA FoundNothing ==
  ASSUME NEW changed, NEW j \in Jobs, NEW b \in Blindness,
         Found(changed, JobScope(j), b) = {}, NEW x \in changed
  PROVE  Passes(j, x, b)
<1>1. CASE b = "all"
  BY <1>1 DEF Passes
<1>2. CASE b # "all"
  <2>1. PICK r : r = IF b = "nothing" THEN Reserved ELSE {}
    OBVIOUS
  <2>2. Classify(x, JobScope(j), r) = "allow"
    BY <1>2, <2>1 DEF Found, Violations
  <2>3. ~ MatchAny(x, r) /\ ~ MatchAny(x, JobScope(j).denied) /\ MatchAny(x, JobScope(j).allowed)
    BY <2>2 DEF Classify
  <2>4. JobScope(j).denied = Denied
    BY DEF JobScope
  <2> QED
    BY <2>1, <2>3, <2>4 DEF Passes
<1> QED
  BY <1>1, <1>2

LEMMA PassesStays ==
  ASSUME DInv, [Next]_vars, NEW j \in Jobs, NEW x, NEW b, Passes(j, x, b)
  PROVE  Passes(j, x, b)'
<1>1. JobScope(j).allowed \subseteq JobScope(j)'.allowed
  BY ScopeGrows DEF JobScope
<1>2. MatchAny(x, JobScope(j).allowed) => MatchAny(x, JobScope(j)'.allowed)
  BY <1>1 DEF MatchAny
<1> QED
  BY <1>2 DEF Passes, MatchAny

(* All that is on the branch of j has passed the review of its run. *)
Vetted(j) == \A x \in commits[j] : Passes(j, x, blind[j].run)

(* So has what an integrate is going to merge, and what a run is about to  *)
(* have completed.                                                         *)
VettedAt(p) ==
  /\ at[p] = "merge" => \A j \in cmd[p].todo : Vetted(j)
  /\ /\ cmd[p].job \in WriteJobs
     /\ step[p] = "verify" \/ (at[p] = "finish" /\ cmd[p].result = "completed")
     => Vetted(cmd[p].job)

(* What was merged had passed both reviews, and its job is closed. *)
ShipsVetted(j) ==
  /\ shipped[j] # {} => ent[j].st \in Closed
  /\ \A x \in shipped[j] : Passes(j, x, blind[j].run) /\ Passes(j, x, blind[j].merge)

VInv == /\ AInv /\ LInv
        /\ \A p \in Procs : VettedAt(p)
        /\ \A j \in WriteJobs : ent[j].st = "completed" => Vetted(j)
        /\ \A j \in Jobs : ShipsVetted(j)

(* The steps of a run that change what its job's review is worth. *)
Unsettles(p, j) == /\ cmd[p].job = j
                   /\ CommitWork(p) \/ Review(p) \/ (Start(p) /\ at'[p] = "work")

LEMMA BlindSteps ==
  ASSUME AInv, [AdapterNext]_allvars, NEW j \in Jobs
  PROVE  \/ blind'[j] = blind[j]
         \/ \E p \in Procs : MergeReviewed(p)
         \/ \E p \in Procs : Unsettles(p, j) /\ blind'[j].merge = blind[j].merge
<1>1. ASSUME NEW p \in Procs, RunStep(p)
      PROVE  blind'[j] = blind[j] \/ (Unsettles(p, j) /\ blind'[j].merge = blind[j].merge)
  <2>1. ASSUME NEW i \in Jobs, NEW b, blind' = [blind EXCEPT ![i].run = b]
        PROVE  blind'[j] = blind[j] \/ (i = j /\ blind'[j].merge = blind[j].merge)
    <3>1. blind[j] \in Marks /\ blind \in [Jobs -> Marks]
      BY DEF AInv, FilesOK
    <3>2. CASE i # j
      BY <2>1, <3>1, <3>2
    <3>3. CASE i = j
      <4>1. blind'[j] = [blind[j] EXCEPT !.run = b]
        BY <2>1, <3>1, <3>3
      <4> QED
        BY <3>1, <3>3, <4>1 DEF Marks
    <3> QED
      BY <3>2, <3>3
  <2>2. CASE Start(p)
    <3>1. PICK i \in Jobs : i = cmd[p].job
      BY <2>2, JobKnown DEF Start, MarkRunning
    <3>2. blind' = blind \/ (at'[p] = "work" /\ blind' = [blind EXCEPT ![i].run = "nothing"])
      BY <2>2, <3>1 DEF Start
    <3> QED
      BY <2>1, <2>2, <3>1, <3>2 DEF Unsettles
  <2>3. CASE Review(p)
    <3>1. PICK i \in Jobs : i = cmd[p].job
      BY <2>3, Places, JobKnown DEF Review, RunInside, AInv
    <3>2. blind' = blind \/ \E b : blind' = [blind EXCEPT ![i].run = b]
      BY <2>3, <3>1 DEF Review, Conclude, history
    <3> QED
      BY <2>1, <2>3, <3>1, <3>2 DEF Unsettles
  <2>4. Spawn(p) \/ Kill(p) \/ CommitWork(p) => blind' = blind
    BY DEF Spawn, Kill, CommitWork, history
  <2>5. SpawnFails(p) \/ Reaped(p) \/ Expired(p) => blind' = blind
    BY DEF SpawnFails, Reaped, Expired, Returned
  <2>6. (\E r : Conclude(p, r)) \/ Accept(p) => blind' = blind
    BY DEF Conclude, Accept, history
  <2>7. Judge(p) => blind' = blind
    <3>1. (res[p].end \in Ends /\ res[p].body \in Bodies) \/ ~ Judge(p)
      BY DEF Judge, AInv, CallsOK
    <3> QED
      BY <2>6, <3>1 DEF Judge, Ends, Bodies, history
  <2>8. ReapRepair(p) \/ Verify(p) => blind' = blind
    BY <2>6 DEF ReapRepair, Verify
  <2> QED
    BY <1>1, <2>2, <2>3, <2>4, <2>5, <2>7, <2>8 DEF RunStep
<1>2. ASSUME NEW p \in Procs, Outside(p) \/ Inherit(OtherStep(p))
      PROVE  blind' = blind
  BY <1>2 DEF Outside, RuntimeEdit, RuntimeResult, RuntimeExit, Escape, LetGo, Timeout, VerifyEdit,
     Touch, Inherit, Killed, history
<1>3. ASSUME NEW i \in Jobs, OrphanWrites(i) \/ Inherit(OrphanEnd(i))
      PROVE  blind' = blind
  BY <1>3 DEF OrphanWrites, Touch, Inherit, history
<1> QED
  BY <1>1, <1>2, <1>3 DEF AdapterNext, AdapterStep, allvars, history

LEMMA CommitSteps ==
  ASSUME AInv, [AdapterNext]_allvars, NEW j \in Jobs
  PROVE  commits'[j] \subseteq commits[j] \/ \E p \in Procs : Unsettles(p, j)
<1>1. FollowTrees => commits'[j] \subseteq commits[j]
  BY DEF FollowTrees
<1>2. ASSUME NEW p \in Procs, RunStep(p)
      PROVE  commits'[j] \subseteq commits[j] \/ Unsettles(p, j)
  <2>1. Start(p) \/ Spawn(p) \/ Kill(p) => commits' = commits
    BY DEF Start, Spawn, Kill, files
  <2>2. SpawnFails(p) \/ Reaped(p) \/ Expired(p) => commits' = commits
    BY DEF SpawnFails, Reaped, Expired, Returned, files
  <2>3. CommitWork(p) => commits'[j] \subseteq commits[j] \/ Unsettles(p, j)
    BY DEF CommitWork, AInv, FilesOK, Unsettles
  <2>4. (\E r : Conclude(p, r)) \/ Accept(p) => commits' = commits
    BY DEF Conclude, Accept, files
  <2>5. Judge(p) => commits' = commits
    <3>1. (res[p].end \in Ends /\ res[p].body \in Bodies) \/ ~ Judge(p)
      BY DEF Judge, AInv, CallsOK
    <3> QED
      BY <2>4, <3>1 DEF Judge, Ends, Bodies, files
  <2>6. ReapRepair(p) \/ Review(p) \/ Verify(p) => commits' = commits
    BY <2>4 DEF ReapRepair, Review, Verify, files
  <2> QED
    BY <1>2, <2>1, <2>2, <2>3, <2>5, <2>6 DEF RunStep
<1>3. ASSUME NEW p \in Procs, MergeReviewed(p) \/ Outside(p) \/ Inherit(OtherStep(p))
      PROVE  commits'[j] \subseteq commits[j]
  BY <1>1, <1>3 DEF MergeReviewed, Outside, RuntimeEdit, RuntimeResult, RuntimeExit, Escape, LetGo,
     Timeout, VerifyEdit, Touch, Inherit, Killed, files
<1>4. ASSUME NEW i \in Jobs, OrphanWrites(i) \/ Inherit(OrphanEnd(i))
      PROVE  commits'[j] \subseteq commits[j]
  BY <1>1, <1>4 DEF OrphanWrites, Touch, Inherit, files
<1> QED
  BY <1>2, <1>3, <1>4 DEF AdapterNext, AdapterStep, allvars, files

(* Nobody unsettles a job that is closed, or whose run is past the review. *)
LEMMA Settled ==
  ASSUME VInv, NEW j \in Jobs,
         \/ ent[j].st \in Closed
         \/ \E p \in Procs : cmd[p].job = j /\ (step[p] = "verify" \/ at[p] = "finish")
  PROVE  \A q \in Procs : ~ Unsettles(q, j)
<1> SUFFICES ASSUME NEW q \in Procs, Unsettles(q, j)  PROVE FALSE
  OBVIOUS
<1>1. AInv /\ WInv /\ DInv /\ cmd[q].job = j
  BY DEF VInv, AInv, LInv, Unsettles
<1>2. CASE CommitWork(q) \/ Review(q)
  <2>1. step[q] \in {"commit", "review"} /\ at[q] \in {"commit", "decide"}
    BY <1>1, <1>2, Places DEF CommitWork, Commit, Review, AInv
  <2>2. ent[j].st = "running" /\ Working(q, j) /\ worker[j] = q
    BY <1>1, <2>1 DEF WInv, WorkersOK, Working
  <2>3. PICK p \in Procs : cmd[p].job = j /\ (step[p] = "verify" \/ at[p] = "finish")
    BY <2>2 DEF Closed
  <2>4. Working(p, j)
    BY <1>1, <2>3, Places DEF Working, AInv
  <2>5. p = q
    BY <1>1, <2>2, <2>4 DEF WInv, WorkersOK
  <2> QED
    BY <2>1, <2>3, <2>5
<1>3. CASE Start(q) /\ at'[q] = "work"
  <2>1. MarkRunning(q) /\ ~ Exit(q)
    BY <1>1, <1>3, ExitOK DEF Start, DInv
  <2>2. ent[j].st = "created"
    BY <1>1, <2>1, MoveJob DEF MarkRunning, DInv, JobLegal
  <2>3. PICK p \in Procs : cmd[p].job = j /\ (step[p] = "verify" \/ at[p] = "finish")
    BY <2>2 DEF Closed
  <2>4. Working(p, j)
    BY <1>1, <2>3, Places DEF Working, AInv
  <2> QED
    BY <1>1, <2>2, <2>4 DEF WInv, WorkersOK
<1> QED
  BY <1>2, <1>3 DEF Unsettles

(* A merge that lets j through. *)
LEMMA MergePasses ==
  ASSUME AInv, NEW p \in Procs, MergeReviewed(p), NEW j \in Jobs
  PROVE  \/ shipped'[j] = shipped[j] /\ blind'[j] = blind[j]
         \/ /\ j \in cmd[p].todo /\ shipped'[j] = commits[j] /\ blind'[j].run = blind[j].run
            /\ \E b \in Blindness : /\ Found(commits[j], JobScope(j), b) = {}
                                    /\ blind'[j].merge = b
<1>1. CASE at'[p] = "gate"
  BY <1>1 DEF MergeReviewed
<1>2. CASE at'[p] # "gate"
  <2>1. PICK i \in cmd[p].todo, b \in Blindness :
          /\ Found(commits[i], JobScope(i), b) = {}
          /\ shipped' = [shipped EXCEPT ![i] = commits[i]]
          /\ blind' = [blind EXCEPT ![i].merge = b]
    BY <1>2 DEF MergeReviewed
  <2>2. blind \in [Jobs -> Marks] /\ shipped \in [Jobs -> SUBSET Paths]
    BY DEF AInv, FilesOK
  <2>3. CASE i # j
    BY <2>1, <2>2, <2>3
  <2>4. CASE i = j
    <3>1. blind'[j] = [blind[j] EXCEPT !.merge = b] /\ blind[j] \in Marks
      BY <2>1, <2>2, <2>4
    <3>2. blind'[j].merge = b /\ blind'[j].run = blind[j].run
      BY <3>1 DEF Marks
    <3> QED
      BY <2>1, <2>2, <2>4, <3>2
  <2> QED
    BY <2>3, <2>4
<1> QED
  BY <1>1, <1>2

LEMMA VettedStays ==
  ASSUME VInv, [AdapterNext]_allvars, NEW j \in Jobs, Vetted(j),
         \A q \in Procs : ~ Unsettles(q, j)
  PROVE  Vetted(j)'
<1>1. AInv /\ DInv /\ [Next]_vars
  BY NextMaps DEF VInv, AInv
<1>2. commits'[j] \subseteq commits[j]
  BY <1>1, CommitSteps
<1>3. blind'[j].run = blind[j].run
  BY <1>1, BlindSteps, MergePasses
<1>4. PICK b : b = blind[j].run
  OBVIOUS
<1>5. ASSUME NEW x \in commits'[j]  PROVE Passes(j, x, b)'
  BY <1>1, <1>2, <1>4, <1>5, PassesStays DEF Vetted
<1> QED
  BY <1>3, <1>4, <1>5 DEF Vetted, Passes

LEMMA ClosedStays ==
  ASSUME VInv, [AdapterNext]_allvars, NEW j \in Jobs
  PROVE  /\ ent[j].st \in Closed => ent'[j].st \in Closed
         /\ ent'[j].st = "completed" /\ ent[j].st # "completed"
              => \E p \in Procs : /\ at[p] = "finish" /\ cmd[p].job = j
                                  /\ cmd[p].result = "completed"
<1>1. WInv /\ DInv /\ [Next]_vars
  BY NextMaps DEF VInv, AInv, LInv
<1>2. CASE ent' = ent
  BY <1>2
<1>3. ASSUME NEW p \in Procs, Acts(p)
      PROVE  /\ ent[j].st \in Closed => ent'[j].st \in Closed
             /\ ent'[j].st = "completed" /\ ent[j].st # "completed"
                  => at[p] = "finish" /\ cmd[p].job = j /\ cmd[p].result = "completed"
  <2>1. ent[j].st \in Closed => ent'[j].st \in Closed
    BY <1>1, <1>3, StatusSteps DEF Closed, Unfinished
  <2>2. ASSUME ent'[j].st = "completed", ent[j].st # "completed"
        PROVE  at[p] = "finish" /\ cmd[p].job = j /\ cmd[p].result = "completed"
    <3>1. Finish(p)
      BY <1>1, <1>3, <2>2, StatusSteps
    <3>2. cmd[p].job = j
      BY <1>1, <2>2, <3>1, FinishChanges
    <3>3. PICK to : to = cmd[p].result
      OBVIOUS
    <3>4. Store!Move(j, to)
      BY <2>2, <3>1, <3>2, <3>3 DEF Finish
    <3>5. ent'[j].st = to
      BY <1>1, <3>4, MoveJob DEF JobStep, DInv
    <3> QED
      BY <2>2, <3>1, <3>2, <3>3, <3>5 DEF Finish
  <2> QED
    BY <2>1, <2>2
<1> QED
  BY <1>1, <1>2, <1>3 DEF Next, Acts, OrphanEdit, OrphanEnd, vars

LEMMA CompletedVetted ==
  ASSUME VInv, [AdapterNext]_allvars, NEW j \in WriteJobs, ent'[j].st = "completed"
  PROVE  Vetted(j)'
<1>1. j \in Jobs
  BY WriteJobsAreJobs
<1>2. CASE ent[j].st = "completed"
  BY <1>1, <1>2, Settled, VettedStays DEF VInv, Closed
<1>3. CASE ent[j].st # "completed"
  <2>1. PICK p \in Procs : at[p] = "finish" /\ cmd[p].job = j /\ cmd[p].result = "completed"
    BY <1>1, <1>3, ClosedStays
  <2>2. Vetted(j) /\ \A q \in Procs : ~ Unsettles(q, j)
    BY <1>1, <2>1, Settled DEF VInv, VettedAt
  <2> QED
    BY <1>1, <2>2, VettedStays
<1> QED
  BY <1>2, <1>3

LEMMA ShippedVetted ==
  ASSUME VInv, [AdapterNext]_allvars, NEW j \in Jobs
  PROVE  ShipsVetted(j)'
<1>1. AInv /\ DInv /\ [Next]_vars /\ LInv
  BY NextMaps DEF VInv, AInv
<1>2. ASSUME NEW p \in Procs, MergeReviewed(p), j \in cmd[p].todo, shipped'[j] = commits[j],
             blind'[j].run = blind[j].run, NEW b \in Blindness,
             Found(commits[j], JobScope(j), b) = {}, blind'[j].merge = b
      PROVE  ShipsVetted(j)'
  <2>1. at[p] = "merge"
    BY <1>2 DEF MergeReviewed, Merge
  <2>2. ent[j].st \in Closed /\ Vetted(j)
    BY <1>1, <1>2, <2>1 DEF VInv, VettedAt, LInv, ClosedFits, DInv, ProcsOK, Fits
  <2>3. ent'[j].st \in Closed
    BY <2>2, ClosedStays
  <2>4. PICK c : c = blind[j].run
    OBVIOUS
  <2>5. ASSUME NEW x \in commits[j]  PROVE Passes(j, x, c)' /\ Passes(j, x, b)'
    <3>1. Passes(j, x, b) /\ Passes(j, x, c)
      BY <1>2, <2>2, <2>4, <2>5, FoundNothing DEF Vetted
    <3> QED
      BY <1>1, <3>1, PassesStays
  <2> QED
    BY <1>2, <2>3, <2>4, <2>5 DEF ShipsVetted, Passes
<1>3. CASE shipped'[j] = shipped[j] /\ blind'[j] = blind[j]
  <2>1. shipped'[j] # {} => ent'[j].st \in Closed
    BY <1>3, ClosedStays DEF VInv, ShipsVetted
  <2>2. PICK b, c : b = blind[j].run /\ c = blind[j].merge
    OBVIOUS
  <2>3. ASSUME NEW x \in shipped'[j]  PROVE Passes(j, x, b)' /\ Passes(j, x, c)'
    <3>1. Passes(j, x, b) /\ Passes(j, x, c)
      BY <1>3, <2>2, <2>3 DEF VInv, ShipsVetted
    <3> QED
      BY <1>1, <3>1, PassesStays
  <2> QED
    BY <1>3, <2>1, <2>2, <2>3 DEF ShipsVetted, Passes
<1>4. CASE \A p \in Procs : ~ MergeReviewed(p)
  <2>1. shipped' = shipped
    BY <1>1, <1>4, OnlyMergesShip
  <2>2. CASE shipped[j] = {}
    BY <2>1, <2>2 DEF ShipsVetted
  <2>3. CASE shipped[j] # {}
    <3>1. ent[j].st \in Closed
      BY <2>3 DEF VInv, ShipsVetted
    <3>2. blind'[j] = blind[j]
      BY <1>1, <1>4, <3>1, BlindSteps, Settled
    <3> QED
      BY <1>3, <2>1, <3>2
  <2> QED
    BY <2>2, <2>3
<1> QED
  BY <1>1, <1>2, <1>3, <1>4, MergePasses

(* A step of a run is a step of its process only. *)
LEMMA StepsAlone ==
  ASSUME AInv, NEW q \in Procs, AdapterStep(q) \/ Outside(q), NEW p \in Procs \ {q}
  PROVE  step'[p] = step[p]
<1>1. step' = step \/ \E s : step' = [step EXCEPT ![q] = s]
  <2>1. (\E r : Conclude(q, r)) \/ Accept(q) => \E s : step' = [step EXCEPT ![q] = s]
    BY DEF Conclude, Accept
  <2>2. Judge(q) => \E s : step' = [step EXCEPT ![q] = s]
    <3>1. (res[q].end \in Ends /\ res[q].body \in Bodies) \/ ~ Judge(q)
      BY DEF Judge, AInv, CallsOK
    <3> QED
      BY <2>1, <3>1 DEF Judge, Ends, Bodies
  <2>3. ReapRepair(q) \/ Review(q) \/ Verify(q) => \E s : step' = [step EXCEPT ![q] = s]
    BY <2>1 DEF ReapRepair, Review, Verify
  <2>4. Start(q) \/ Spawn(q) \/ Kill(q) \/ CommitWork(q)
        => step' = step \/ \E s : step' = [step EXCEPT ![q] = s]
    BY DEF Start, Spawn, Kill, CommitWork
  <2>5. SpawnFails(q) \/ Reaped(q) \/ Expired(q) => \E s : step' = [step EXCEPT ![q] = s]
    BY DEF SpawnFails, Reaped, Expired, Returned
  <2>6. MergeReviewed(q) \/ Inherit(OtherStep(q)) \/ Outside(q)
        => step' = step \/ \E s : step' = [step EXCEPT ![q] = s]
    BY DEF MergeReviewed, Inherit, Outside, RuntimeEdit, RuntimeResult, RuntimeExit, Escape, LetGo,
       Timeout, VerifyEdit, Touch, Killed
  <2> QED
    BY <2>2, <2>3, <2>4, <2>5, <2>6 DEF AdapterStep, RunStep
<1> QED
  BY <1>1 DEF AInv, CallsOK

(* The verdict that completes a write job comes after its review. *)
LEMMA ConcludesCompleted ==
  ASSUME AInv, NEW p \in Procs, at[p] = "decide", NEW r \in Results, Conclude(p, r)
  PROVE  /\ at'[p] = "finish" /\ step'[p] = "none" /\ cmd'[p].job = cmd[p].job
         /\ cmd'[p].result = "completed" =>
              r = "ok" \/ (r = "review" /\ ~ MayEdit(cmd[p].job))
<1>1. DInv
  BY DEF AInv
<1>2. PICK v : v = Verdict(cmd[p].job, r)
  OBVIOUS
<1>3. Goto(p, "finish", [cmd[p] EXCEPT !.result = v]) /\ step' = [step EXCEPT ![p] = "none"]
  BY <1>2 DEF Conclude
<1>4. at'[p] = "finish" /\ cmd'[p] = [cmd[p] EXCEPT !.result = v] /\ step'[p] = "none"
  BY <1>1, <1>3, OpKept DEF AInv, CallsOK
<1>5. cmd'[p].job = cmd[p].job /\ cmd'[p].result = v
  BY <1>1, <1>4 DEF DInv, ProcsOK, Cmds
<1>6. v = "completed" => r = "ok" \/ (r = "review" /\ ~ MayEdit(cmd[p].job))
  BY <1>2 DEF Verdict, Results
<1> QED
  BY <1>4, <1>5, <1>6

LEMMA RunPastReview ==
  ASSUME AInv, NEW p \in Procs, RunStep(p), cmd'[p].job \in WriteJobs,
         step'[p] = "verify" \/ (at'[p] = "finish" /\ cmd'[p].result = "completed")
  PROVE  /\ cmd'[p].job = cmd[p].job
         /\ (Review(p) /\ step'[p] = "verify") \/ step[p] = "verify"
<1>1. DInv /\ step \in [Procs -> Steps]
  BY DEF AInv, CallsOK
<1>2. ASSUME at[p] = "decide", NEW r \in Results \ {"review", "ok"}, Conclude(p, r)
      PROVE  FALSE
  BY <1>2, ConcludesCompleted
<1>3. ASSUME at[p] = "decide", Accept(p)  PROVE FALSE
  BY <1>1, <1>3 DEF Accept, vars
<1>4. ~ Start(p)
  <2> SUFFICES ASSUME Start(p)  PROVE FALSE
    OBVIOUS
  <2>1. MarkRunning(p) /\ at[p] = "mark"
    BY DEF Start, MarkRunning
  <2>2. at'[p] \in {"work", "idle"} /\ step[p] = "none"
    BY <1>1, <2>1, ExitOK, Places DEF MarkRunning, AInv, DInv, ProcsOK
  <2> QED
    BY <1>1, <2>2 DEF Start
<1>5. ~ Spawn(p) /\ ~ Kill(p)
  <2> SUFFICES ASSUME Spawn(p) \/ Kill(p)  PROVE FALSE
    OBVIOUS
  <2>1. at[p] = "work" /\ at' = at /\ step'[p] \in {"wait", "reap"}
    BY <1>1, Places DEF Spawn, Kill, vars, AInv
  <2> QED
    BY <2>1
<1>6. ~ SpawnFails(p) /\ ~ Reaped(p) /\ ~ Expired(p)
  <2> SUFFICES ASSUME NEW e, Returned(p, e)  PROVE FALSE
    BY DEF SpawnFails, Reaped, Expired
  <2>1. at'[p] = "commit" /\ step'[p] = "commit"
    BY <1>1, OpKept DEF Returned, Work
  <2> QED
    BY <2>1
<1>7. ~ CommitWork(p)
  <2> SUFFICES ASSUME CommitWork(p)  PROVE FALSE
    OBVIOUS
  <2>1. step'[p] \in {"judge", "none"} /\ Commit(p)
    BY <1>1 DEF CommitWork
  <2>2. Goto(p, "decide", cmd[p]) \/ Goto(p, "finish", [cmd[p] EXCEPT !.result = "needs-human"])
    BY <2>1 DEF Commit
  <2>3. at'[p] = "decide" \/ cmd'[p] = [cmd[p] EXCEPT !.result = "needs-human"]
    BY <1>1, <2>2, OpKept
  <2>4. at'[p] = "decide" \/ cmd'[p].result = "needs-human"
    BY <1>1, <2>3 DEF DInv, ProcsOK, Cmds
  <2> QED
    BY <2>1, <2>4
<1>8. ~ Judge(p)
  <2> SUFFICES ASSUME Judge(p)  PROVE FALSE
    OBVIOUS
  <2>1. at[p] = "decide" /\ res[p].end \in Ends /\ res[p].body \in Bodies
    BY Places DEF Judge, AInv, CallsOK
  <2>2. (\E r \in {"timeout", "exec-failed", "torn"} : Conclude(p, r)) \/ Accept(p)
        \/ (step' = [step EXCEPT ![p] = "rewait"] /\ UNCHANGED vars)
    BY <2>1 DEF Judge, Ends, Bodies
  <2> QED
    BY <1>1, <1>2, <1>3, <2>1, <2>2 DEF Results, vars
<1>9. ~ ReapRepair(p)
  <2>1. ReapRepair(p) => at[p] = "decide"
    BY Places DEF ReapRepair, AInv
  <2> QED
    BY <1>2, <1>3, <2>1 DEF ReapRepair, Results
<1>10. CASE Review(p)
  <2>1. at[p] = "decide"
    BY <1>10, Places DEF Review, AInv
  <2>2. CASE Conclude(p, "review") /\ MayEdit(cmd[p].job)
    BY <2>1, <2>2, ConcludesCompleted DEF Results
  <2>3. CASE step' = [step EXCEPT ![p] = "verify"] /\ UNCHANGED vars
    BY <1>1, <1>10, <2>3 DEF vars
  <2> QED
    BY <1>10, <2>2, <2>3 DEF Review, Found
<1>11. CASE Verify(p)
  <2>1. at[p] = "decide" /\ step[p] = "verify"
    BY <1>11, Places DEF Verify, AInv
  <2>2. PICK r \in {"ok", "verify-failed"} : Conclude(p, r)
    BY <1>11 DEF Verify
  <2> QED
    BY <2>1, <2>2, ConcludesCompleted DEF Results
<1> QED
  BY <1>4, <1>5, <1>6, <1>7, <1>8, <1>9, <1>10, <1>11 DEF RunStep

(* How a process comes to be past the review of its job. *)
LEMMA PastReview ==
  ASSUME VInv, [AdapterNext]_allvars, NEW p \in Procs, cmd'[p].job \in WriteJobs,
         step'[p] = "verify" \/ (at'[p] = "finish" /\ cmd'[p].result = "completed")
  PROVE  /\ cmd'[p].job = cmd[p].job
         /\ \/ Review(p) /\ step'[p] = "verify"
            \/ step[p] = "verify"
            \/ at[p] = "finish" /\ cmd[p].result = "completed"
<1>1. AInv /\ DInv /\ LInv
  BY DEF VInv, AInv
<1>2. CASE at'[p] = at[p] /\ cmd'[p].job = cmd[p].job /\ cmd'[p].result = cmd[p].result
           /\ step'[p] = step[p]
  BY <1>1, <1>2, Places DEF AInv
<1>3. ASSUME NEW q \in Procs \ {p}, AdapterStep(q) \/ Outside(q)
      PROVE  /\ at'[p] = at[p] /\ cmd'[p].job = cmd[p].job /\ cmd'[p].result = cmd[p].result
             /\ step'[p] = step[p]
  <2>1. Acts(q) \/ UNCHANGED vars \/ Edit(q)
    <3>1. Inherit(OtherStep(q)) \/ MergeReviewed(q) => Step(q)
      BY DEF Inherit, OtherStep, Step, MergeReviewed
    <3> QED
      BY <1>1, <1>3, <3>1, RunStepMaps, OutsideMaps DEF AdapterStep, Acts
  <2>2. at'[p] = at[p] /\ cmd'[p].job = cmd[p].job /\ cmd'[p].result = cmd[p].result
    BY <1>1, <2>1, OthersStay DEF Stays, Edit, vars
  <2>3. step'[p] = step[p]
    BY <1>1, <1>3, StepsAlone
  <2> QED
    BY <2>2, <2>3
<1>4. CASE RunStep(p)
  BY <1>1, <1>4, RunPastReview
<1>5. CASE Inherit(OtherStep(p)) \/ Inherit(Load(p))
  <2>1. OtherStep(p) \/ Load(p)
    BY <1>5 DEF Inherit
  <2>2. step' = step /\ at[p] \notin RunInside /\ at'[p] \notin RunInside \cup {"finish"}
    BY <1>1, <1>5, <2>1, Elsewhere DEF Inherit
  <2> QED
    BY <1>1, <2>2, Places DEF AInv, RunInside
<1>6. CASE MergeReviewed(p)
  <2>1. Merge(p) /\ step' = step /\ at[p] = "merge"
    BY <1>6 DEF MergeReviewed, Merge
  <2>2. at'[p] \in {"gate", "merge"}
    BY <1>1, <2>1 DEF Merge, Goto, DInv, ProcsOK
  <2> QED
    BY <1>1, <2>1, <2>2, Places DEF AInv
<1>7. CASE Killed(p)
  <2>1. at'[p] = "idle" /\ step'[p] = "none"
    BY <1>1, <1>7, ExitOK DEF Killed, Die, DInv, AInv, CallsOK
  <2> QED
    BY <2>1
<1>8. CASE Outside(p) /\ ~ Killed(p) /\ ~ Inherit(Load(p))
  BY <1>2, <1>8 DEF Outside, RuntimeEdit, RuntimeResult, RuntimeExit, Escape, LetGo, Timeout,
     VerifyEdit, Touch, vars
<1>9. ASSUME NEW i \in Jobs, OrphanWrites(i) \/ Inherit(OrphanEnd(i))
      PROVE  UNCHANGED <<at, cmd, step>>
  BY <1>9 DEF OrphanWrites, Touch, Inherit, OrphanEnd, vars
<1> QED
  BY <1>2, <1>3, <1>4, <1>5, <1>6, <1>7, <1>8, <1>9 DEF AdapterNext, AdapterStep, allvars, vars, Outside

LEMMA PastReviewVetted ==
  ASSUME VInv, [AdapterNext]_allvars, NEW p \in Procs, cmd'[p].job \in WriteJobs,
         step'[p] = "verify" \/ (at'[p] = "finish" /\ cmd'[p].result = "completed")
  PROVE  Vetted(cmd[p].job)'
<1>1. PICK j \in Jobs : j = cmd'[p].job
  BY WriteJobsAreJobs
<1>2. cmd[p].job = j /\ AInv
  BY <1>1, PastReview DEF VInv
<1>3. CASE step[p] = "verify" \/ (at[p] = "finish" /\ cmd[p].result = "completed")
  <2>1. Vetted(j) /\ \A q \in Procs : ~ Unsettles(q, j)
    BY <1>1, <1>2, <1>3, Settled DEF VInv, VettedAt
  <2>2. Vetted(j)'
    BY <2>1, VettedStays
  <2> QED
    BY <1>1, <2>2 DEF Vetted
<1>4. CASE Review(p) /\ step'[p] = "verify"
  <2>1. PICK b \in Blindness :
          /\ Found(edits[j] \cup commits[j], JobScope(j), b) = {}
          /\ blind' = [blind EXCEPT ![j].run = b]
          /\ UNCHANGED vars /\ UNCHANGED files
    <3>1. \A r : ~ Conclude(p, r)
      BY <1>2, <1>4 DEF Conclude, AInv, CallsOK
    <3> QED
      BY <1>2, <1>4, <3>1 DEF Review
  <2>2. blind'[j] = [blind[j] EXCEPT !.run = b] /\ blind[j] \in Marks
    BY <1>2, <2>1 DEF AInv, FilesOK
  <2>3. blind'[j].run = b /\ commits' = commits /\ ent' = ent
    BY <2>1, <2>2 DEF Marks, files, vars
  <2>4. \A x \in commits[j] : Passes(j, x, b)
    BY <2>1, FoundNothing
  <2> QED
    BY <1>1, <2>3, <2>4 DEF Vetted, Passes, JobScope, MatchAny
<1> QED
  BY <1>3, <1>4, PastReview

LEMMA ListVetted ==
  ASSUME VInv, [AdapterNext]_allvars, NEW p \in Procs, at'[p] = "merge", NEW j \in cmd'[p].todo
  PROVE  Vetted(j)'
<1>1. AInv /\ DInv /\ LInv /\ [Next]_vars
  BY NextMaps DEF VInv, AInv
<1>2. ASSUME at[p] = "merge", j \in cmd[p].todo
      PROVE  Vetted(j)'
  <2>1. ent[j].st \in Closed /\ Vetted(j) /\ j \in Jobs
    BY <1>1, <1>2, WriteJobsAreJobs DEF VInv, VettedAt, LInv, ClosedFits, DInv, ProcsOK, Fits
  <2> QED
    BY <2>1, Settled, VettedStays
<1>3. CASE UNCHANGED <<at, cmd>>
  BY <1>2, <1>3
<1>4. ASSUME NEW q \in Procs, Acts(q)
      PROVE  Vetted(j)'
  <2>1. CASE q # p
    BY <1>1, <1>2, <1>4, <2>1, OthersStay DEF Stays
  <2>2. CASE q = p /\ Merge(p)
    <3>1. at[p] = "merge" /\ cmd[p] \in Cmds
      BY <1>1, <2>2 DEF Merge, DInv, ProcsOK
    <3>2. \A c : ~ Goto(p, "gate", c)
      BY <1>1, OpKept
    <3>3. PICK i \in cmd[p].todo :
            Goto(p, "merge", [cmd[p] EXCEPT !.todo = @ \ {i}, !.kept = @ \cup {i}])
      BY <2>2, <3>2 DEF Merge
    <3>4. PICK t, k : t = cmd[p].todo \ {i} /\ k = cmd[p].kept \cup {i}
      OBVIOUS
    <3>5. cmd'[p] = [cmd[p] EXCEPT !.todo = t, !.kept = k]
      BY <1>1, <3>3, <3>4, OpKept
    <3>6. cmd'[p].todo = t
      BY <3>1, <3>5 DEF Cmds
    <3> QED
      BY <1>2, <3>1, <3>4, <3>6
  <2>3. CASE q = p /\ IntegrateLoad(p)
    <3>1. PICK t : t = {i \in WriteJobs : ent[i].st = "completed"}
      OBVIOUS
    <3>2. Begin(p, "merge", [NoCmd EXCEPT !.op = "integrate", !.todo = t])
      BY <2>3, <3>1 DEF IntegrateLoad
    <3>3. cmd'[p] = [NoCmd EXCEPT !.op = "integrate", !.todo = t]
      BY <1>1, <3>2 DEF Begin, DInv, ProcsOK
    <3>4. cmd'[p].todo = t
      BY <3>3 DEF NoCmd
    <3>5. j \in WriteJobs /\ j \in Jobs /\ ent[j].st = "completed"
      BY <3>1, <3>4, WriteJobsAreJobs
    <3>6. Vetted(j) /\ ent[j].st \in Closed
      BY <3>5 DEF VInv, Closed
    <3> QED
      BY <3>5, <3>6, Settled, VettedStays
  <2> QED
    BY <1>1, <1>4, <2>1, <2>2, <2>3, ToMerge
<1> QED
  BY <1>1, <1>3, <1>4 DEF Next, Acts, OrphanEdit, OrphanEnd, vars

(* What reaches a delivery branch has passed the review of its run, before *)
(* its job was completed, and integrate's own: while no gate is approved   *)
(* during a recover, and for any number of processes, jobs, globs and      *)
(* paths, a reserved path is delivered only where neither review could     *)
(* read reserved.json or the diff, a denied or never allowed one only      *)
(* where neither had the diff.                                             *)
THEOREM DeliveryInScope ==
  ASSUME ApproveAvoids("recover") PROVE AdapterSpec => []DeliveredInScope
<1>1. AdapterInit => VInv
  <2> SUFFICES ASSUME AdapterInit  PROVE VInv
    OBVIOUS
  <2>1. AInv /\ LInv /\ Init
    BY InitAInv, InitLands DEF AdapterInit
  <2>2. \A p \in Procs : at[p] = "idle" /\ step[p] = "none"
    BY <2>1 DEF Init, AdapterInit
  <2>3. \A j \in Jobs : shipped[j] = {} /\ commits[j] = {}
    BY DEF AdapterInit
  <2> QED
    BY <2>1, <2>2, <2>3, WriteJobsAreJobs DEF VInv, VettedAt, Vetted, ShipsVetted
<1>2. VInv /\ [AdapterNext]_allvars => VInv'
  <2> SUFFICES ASSUME VInv, [AdapterNext]_allvars  PROVE VInv'
    OBVIOUS
  <2>1. AInv' /\ LInv'
    BY NextMaps, NextAInv, LandKept DEF VInv
  <2>2. \A p \in Procs : VettedAt(p)'
    BY ListVetted, PastReviewVetted DEF VettedAt
  <2>3. \A j \in WriteJobs : ent'[j].st = "completed" => Vetted(j)'
    BY CompletedVetted
  <2>4. \A j \in Jobs : ShipsVetted(j)'
    BY ShippedVetted
  <2> QED
    BY <2>1, <2>2, <2>3, <2>4 DEF VInv
<1>3. VInv => DeliveredInScope
  <2> SUFFICES ASSUME VInv, NEW j \in Jobs, NEW x \in shipped[j]
               PROVE  /\ MatchAny(x, Reserved) => blind[j].run # "nothing" /\ blind[j].merge # "nothing"
                      /\ MatchAny(x, Denied) \/ ~ MatchAny(x, JobScope(j).allowed)
                           => blind[j].run = "all" /\ blind[j].merge = "all"
    BY DEF DeliveredInScope
  <2>1. Passes(j, x, blind[j].run) /\ Passes(j, x, blind[j].merge)
    BY DEF VInv, ShipsVetted
  <2> QED
    BY <2>1 DEF Passes
<1> QED
  BY <1>1, <1>2, <1>3, PTL DEF AdapterSpec
=============================================================================
