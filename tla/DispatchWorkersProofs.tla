---------------------------- MODULE DispatchWorkersProofs ----------------------------
(***************************************************************************)
(* TLAPS, for any number of processes, jobs and gates. If no gate is       *)
(* approved while a recover is under way: a job has one worker, only that  *)
(* worker ends its run, only a wider scope changes the job meanwhile, its  *)
(* checkout is taken only by commands that go by an older list, and the    *)
(* work of a completed job is given up by a recover or an approve only;    *)
(* where no runtime outlives its run, a run starts on nothing an earlier   *)
(* one left. If no gate is approved during a prune either, and no process  *)
(* is killed inside worktree.Remove: a recover that ran alone leaves only  *)
(* dispatchable jobs. If none is approved during a run or a recover, and   *)
(* no process is killed right before it opens a gate or applies a          *)
(* decision: a job in need of a human has a gate.                          *)
(***************************************************************************)
EXTENDS DispatchProofs

-----------------------------------------------------------------------------
(* One step: the process that makes it, and the others *)

Acts(p) == Load(p) \/ Step(p) \/ Die(p)

(* Process q is where it was, with what it had read; a worker it found     *)
(* alive may have died.                                                    *)
Stays(q) ==
  /\ at'[q] = at[q]
  /\ cmd'[q].op = cmd[q].op /\ cmd'[q].job = cmd[q].job /\ cmd'[q].rev = cmd[q].rev
  /\ cmd'[q].todo = cmd[q].todo /\ cmd'[q].kept = cmd[q].kept
  /\ cmd'[q].gate = cmd[q].gate /\ cmd'[q].seen = cmd[q].seen
  /\ cmd'[q].result = cmd[q].result /\ cmd'[q].live \subseteq cmd[q].live

(* A step of p leaves the others alone.    *)
LEMMA OthersStay ==
  ASSUME DInv, NEW p \in Procs, Acts(p), NEW q \in Procs \ {p}
  PROVE  Stays(q)
<1>1. ASSUME NEW pt, NEW c, Begin(p, pt, c) \/ Goto(p, pt, c)
      PROVE  Stays(q)
  BY <1>1 DEF Begin, Goto, DInv, ProcsOK, Stays
<1>2. ASSUME Exit(p)
      PROVE  Stays(q)
  <2>1. PICK s : s = {j \in cmd[q].live : worker[j] # p}
    OBVIOUS
  <2>2. cmd'[q] = [cmd[q] EXCEPT !.live = s] /\ at'[q] = at[q] /\ cmd[q] \in Cmds
    BY <1>2, <2>1, ExitOK DEF DInv, ProcsOK
  <2> QED
    BY <2>1, <2>2 DEF Cmds, Stays
<1>3. CASE Load(p) \/ Die(p)
  <2>1. Exit(p) \/ \E pt, c : Begin(p, pt, c)
    BY <1>3, Zenon DEF Load, RunLoad, RecoverStart, GateLoad, PruneLoad, IntegrateLoad, Die
  <2> QED
    BY <1>1, <1>2, <2>1
<1>4. CASE AddTree(p) \/ Work(p) \/ Commit(p) \/ Decide(p) \/ Finish(p)
  <2>1. Exit(p) \/ \E pt, c : Goto(p, pt, c)
    BY <1>4, Zenon DEF AddTree, Work, Commit, Decide, Finish
  <2> QED
    BY <1>1, <1>2, <2>1
<1>5. CASE MarkRunning(p)
  <2>1. CASE Exit(p)
    BY <1>2, <2>1
  <2>2. CASE ~ Exit(p)
    <3>1. at' = [at EXCEPT ![p] = "work"] /\ \E r : cmd' = [cmd EXCEPT ![p].rev = r]
      BY <1>5, <2>2 DEF MarkRunning
    <3> QED
      BY <3>1 DEF DInv, ProcsOK, Stays
  <2> QED
    BY <2>1, <2>2
<1>6. CASE Edit(p)
  BY <1>6 DEF Edit, Stays
<1>7. CASE OpenGate(p)
  <2>1. cmd[p].op \in {"run", "recover", "integrate"}
    BY <1>7 DEF OpenGate, DInv, ProcsOK, Fits
  <2>2. Exit(p) \/ Goto(p, "reap", cmd[p])
    BY <1>7, <2>1 DEF OpenGate
  <2> QED
    BY <1>1, <1>2, <2>2
<1>8. CASE RemoveBranch(p)
  <2>1. Exit(p) \/ Goto(p, "reset", cmd[p]) \/ Goto(p, "prune", cmd[p])
    BY <1>8 DEF RemoveBranch
  <2> QED
    BY <1>1, <1>2, <2>1
<1>9. CASE RemoveTree(p) \/ Reap(p) \/ Reset(p) \/ ListOrphans(p) \/ PruneOrphan(p)
           \/ RecoverEnd(p)
  <2>1. Exit(p) \/ \E pt, c : Goto(p, pt, c)
    BY <1>9, Zenon DEF RemoveTree, Reap, Reset, ListOrphans, PruneOrphan, RecoverEnd
  <2> QED
    BY <1>1, <1>2, <2>1
<1>10. CASE ExtendScope(p) \/ Reread(p) \/ Settle(p) \/ ResolveJob(p)
  <2>1. Exit(p) \/ \E pt, c : Goto(p, pt, c)
    BY <1>10, Zenon DEF ExtendScope, Reread, Settle, ResolveJob
  <2> QED
    BY <1>1, <1>2, <2>1
<1>11. CASE Merge(p) \/ Promote(p) \/ ReclaimTree(p)
  <2>1. Exit(p) \/ \E pt, c : Goto(p, pt, c)
    BY <1>11, Zenon DEF Merge, Promote, ReclaimTree
  <2> QED
    BY <1>1, <1>2, <2>1
<1> QED
  BY <1>3, <1>4, <1>5, <1>6, <1>7, <1>8, <1>9, <1>10, <1>11 DEF Acts, Step

(* What a command records as it moves on is no other command. *)
LEMMA OpRecorded ==
  ASSUME DInv, NEW p \in Procs, NEW pt, NEW v, NEW w,
         \/ Goto(p, pt, cmd[p])
         \/ Goto(p, pt, [cmd[p] EXCEPT !.result = v])
         \/ Goto(p, pt, [cmd[p] EXCEPT !.seen = v])
         \/ Goto(p, pt, [cmd[p] EXCEPT !.job = v])
         \/ Goto(p, pt, [cmd[p] EXCEPT !.todo = v])
         \/ Goto(p, pt, [cmd[p] EXCEPT !.todo = v, !.kept = w])
         \/ Goto(p, pt, [cmd[p] EXCEPT !.job = v, !.todo = w])
  PROVE  cmd'[p].op = cmd[p].op
<1>1. PICK c \in {cmd[p], [cmd[p] EXCEPT !.result = v], [cmd[p] EXCEPT !.seen = v],
                  [cmd[p] EXCEPT !.job = v], [cmd[p] EXCEPT !.todo = v],
                  [cmd[p] EXCEPT !.todo = v, !.kept = w],
                  [cmd[p] EXCEPT !.job = v, !.todo = w]} : Goto(p, pt, c)
  BY Zenon
<1>2. c.op = cmd[p].op
  BY <1>1 DEF DInv, ProcsOK, Cmds
<1> QED
  BY <1>1, <1>2 DEF Goto, DInv, ProcsOK

(* The command of p stays the same until it ends. *)
LEMMA OpStays ==
  ASSUME DInv, NEW p \in Procs, Acts(p)
  PROVE  Load(p) \/ Exit(p) \/ cmd'[p].op = cmd[p].op
<1>1. cmd[p] \in Cmds
  BY DEF DInv, ProcsOK
<1>2. ASSUME NEW pt, NEW c, Goto(p, pt, c), c.op = cmd[p].op
      PROVE  cmd'[p].op = cmd[p].op
  BY <1>2 DEF Goto, DInv, ProcsOK
<1>3. CASE Load(p) \/ Die(p)
  BY <1>3 DEF Die
<1>4. CASE AddTree(p) \/ Work(p) \/ Finish(p) \/ RemoveTree(p) \/ RecoverEnd(p)
  <2>1. Exit(p) \/ \E pt : Goto(p, pt, cmd[p])
    BY <1>4, Zenon DEF AddTree, Work, Finish, RemoveTree, RecoverEnd
  <2> QED
    BY <1>2, <2>1
<1>5. CASE MarkRunning(p)
  <2>1. CASE Exit(p)
    BY <2>1
  <2>2. CASE ~ Exit(p)
    <3>1. PICK r : cmd' = [cmd EXCEPT ![p] = [cmd[p] EXCEPT !.rev = r]]
      BY <1>5, <2>2 DEF MarkRunning
    <3>2. cmd'[p] = [cmd[p] EXCEPT !.rev = r]
      BY <3>1 DEF DInv, ProcsOK
    <3> QED
      BY <1>1, <3>2 DEF Cmds
  <2> QED
    BY <2>1, <2>2
<1>6. CASE Edit(p)
  BY <1>6 DEF Edit
<1>7. CASE Commit(p) \/ Decide(p) \/ Reread(p)
  <2>1. PICK pt, v : \/ Goto(p, pt, cmd[p])
                     \/ Goto(p, pt, [cmd[p] EXCEPT !.result = v])
                     \/ Goto(p, pt, [cmd[p] EXCEPT !.seen = v])
    BY <1>7, Zenon DEF Commit, Decide, Reread
  <2> QED
    BY <2>1, OpRecorded
<1>8. CASE OpenGate(p)
  <2>1. cmd[p].op \in {"run", "recover", "integrate"}
    BY <1>8 DEF OpenGate, DInv, ProcsOK, Fits
  <2>2. Exit(p) \/ Goto(p, "reap", cmd[p])
    BY <1>8, <2>1 DEF OpenGate
  <2> QED
    BY <1>2, <2>2
<1>9. CASE RemoveBranch(p)
  <2>1. Exit(p) \/ Goto(p, "reset", cmd[p]) \/ Goto(p, "prune", cmd[p])
    BY <1>9 DEF RemoveBranch
  <2> QED
    BY <1>2, <2>1
<1>10. CASE Reap(p) \/ Reset(p) \/ ListOrphans(p) \/ PruneOrphan(p)
  <2>1. PICK pt, t, k, j : \/ Goto(p, pt, [cmd[p] EXCEPT !.todo = t, !.kept = k])
                           \/ Goto(p, pt, [cmd[p] EXCEPT !.job = j])
                           \/ Goto(p, pt, [cmd[p] EXCEPT !.todo = t])
                           \/ Goto(p, pt, [cmd[p] EXCEPT !.job = j, !.todo = t])
    BY <1>10, Zenon DEF Reap, Reset, ListOrphans, PruneOrphan
  <2> QED
    BY <2>1, OpRecorded
<1>11. CASE ExtendScope(p) \/ Settle(p) \/ ResolveJob(p)
  <2>1. Exit(p) \/ \E pt : Goto(p, pt, cmd[p])
    BY <1>11, Zenon DEF ExtendScope, Settle, ResolveJob
  <2> QED
    BY <1>2, <2>1
<1>12. CASE Merge(p) \/ Promote(p) \/ ReclaimTree(p)
  <2>1. PICK pt, t, k, j : \/ Exit(p)
                           \/ Goto(p, pt, [cmd[p] EXCEPT !.todo = t, !.kept = k])
                           \/ Goto(p, pt, [cmd[p] EXCEPT !.job = j])
                           \/ Goto(p, pt, [cmd[p] EXCEPT !.todo = t])
    BY <1>12, Zenon DEF Merge, Promote, ReclaimTree
  <2> QED
    BY <2>1, OpRecorded
<1> QED
  BY <1>3, <1>4, <1>5, <1>6, <1>7, <1>8, <1>9, <1>10, <1>11, <1>12 DEF Acts, Step

(* No two commands that are kept apart are under way together. *)
OpsApart == \A p, q \in Procs : p # q => {cmd[p].op, cmd[q].op} \notin Apart

LEMMA NoneApart == ASSUME NEW op  PROVE {None, op} \notin Apart
BY ApartPairs, NoneIsNoCommand

LEMMA ApartKept == ASSUME DInv, OpsApart, [Next]_vars  PROVE OpsApart'
<1>1. ASSUME NEW p \in Procs, Acts(p)
      PROVE  OpsApart'
  <2>1. \A q \in Procs \ {p} : cmd'[q].op = cmd[q].op
    BY <1>1, OthersStay DEF Stays
  <2>2. \A q \in Procs \ {p} : {cmd'[p].op, cmd[q].op} \notin Apart
    <3>1. Exit(p) => cmd'[p].op = None
      BY ExitOK, NoCmdFits DEF DInv
    <3>2. ASSUME NEW pt, NEW c, Begin(p, pt, c)
          PROVE  \A q \in Procs : {cmd'[p].op, cmd[q].op} \notin Apart
      BY <3>2 DEF Begin, DInv, ProcsOK
    <3>3. Load(p) => \E pt, c : Begin(p, pt, c)
      BY Zenon DEF Load, RunLoad, RecoverStart, GateLoad, PruneLoad, IntegrateLoad
    <3> QED
      BY <1>1, <3>1, <3>2, <3>3, OpStays, NoneApart DEF OpsApart
  <2>3. ASSUME NEW q \in Procs, NEW r \in Procs, q # r
        PROVE  {cmd'[q].op, cmd'[r].op} \notin Apart
    <3>1. CASE q # p /\ r # p
      BY <2>1, <2>3, <3>1 DEF OpsApart
    <3>2. CASE q = p
      BY <2>1, <2>2, <2>3, <3>2
    <3>3. CASE r = p
      <4>1. {cmd'[q].op, cmd'[r].op} = {cmd'[r].op, cmd'[q].op}
        OBVIOUS
      <4> QED
        BY <2>1, <2>2, <2>3, <3>3, <4>1
    <3> QED
      BY <3>1, <3>2, <3>3
  <2> QED
    BY <2>3 DEF OpsApart
<1>2. CASE cmd' = cmd
  BY <1>2 DEF OpsApart
<1> QED
  BY <1>1, <1>2 DEF Next, Acts, OrphanEdit, OrphanEnd, vars

-----------------------------------------------------------------------------
(* Who works on a job, who may reset it *)

(* Nobody approves a gate while command c is under way: there is nobody    *)
(* else, or nobody who does, or no such command.                           *)
OneProcess == \A p, q \in Procs : p = q

ApproveAvoids(c) ==
  {c, "approve"} \subseteq Commands /\ ~ OneProcess => {c, "approve"} \in Apart

LEMMA ApproveAway ==
  ASSUME DInv, OpsApart, NEW c \in {"run", "recover", "prune"}, ApproveAvoids(c),
         NEW p \in Procs, NEW q \in Procs, cmd[p].op = "approve", cmd[q].op = c
  PROVE  FALSE
<1>1. {c, "approve"} \subseteq Commands /\ ~ OneProcess
  BY NoneIsNoCommand DEF DInv, ProcsOK, Cmds, AllCommands, OneProcess
<1>2. {c, "approve"} = {cmd[p].op, cmd[q].op}
  OBVIOUS
<1> QED
  BY <1>1, <1>2 DEF OpsApart, ApproveAvoids

(* Who works on a job is its live worker, and the job runs. *)
WorkersOK == \A p \in Procs, j \in Jobs :
               Working(p, j) => worker[j] = p /\ ent[j].st = "running"

(* A recover that still has stale jobs before it. *)
Sweeping(p) == /\ cmd[p].op = "recover"
               /\ \/ at[p] \in {"reap", "rmtree", "reset", "gate"}
                  \/ at[p] = "rmbranch" /\ cmd[p].job \in cmd[p].todo

(* The jobs before it have run since it read them, and the ones without a  *)
(* live worker then have none now; the job it resets is one of these.      *)
SweepFits(p) ==
  Sweeping(p) => /\ \A j \in cmd[p].todo : /\ ent[j].st # "created"
                                           /\ j \notin cmd[p].live => worker[j] = None
                 /\ at[p] \in {"rmtree", "rmbranch", "reset"} =>
                      cmd[p].job \in cmd[p].todo \ cmd[p].live

WInv == DInv /\ WorkersOK /\ \A p \in Procs : SweepFits(p)

(* A step of p that stays in its command and keeps every worker: no job but *)
(* one p has worked on and now leaves changes its status.                  *)
LEMMA CalmStep ==
  ASSUME WInv, DInv', NEW p \in Procs, worker' = worker,
         \A q \in Procs \ {p} : at'[q] = at[q] /\ cmd'[q] = cmd[q],
         \A j \in Jobs : Working(p, j)' => Working(p, j),
         \A j \in Jobs : \/ ent'[j].st = ent[j].st
                         \/ Working(p, j) /\ ~ Working(p, j)' /\ ent'[j].st # "created",
         SweepFits(p)'
  PROVE  WInv'
<1>1. ASSUME NEW q \in Procs, NEW j \in Jobs, Working(q, j)'
      PROVE  worker'[j] = q /\ ent'[j].st = "running"
  <2>1. Working(q, j)
    BY <1>1 DEF Working
  <2>2. worker[j] = q /\ ent[j].st = "running"
    BY <2>1 DEF WInv, WorkersOK
  <2>3. ent'[j].st = ent[j].st
    BY <1>1, <2>2 DEF WInv, WorkersOK
  <2> QED
    BY <2>2, <2>3
<1>2. ASSUME NEW q \in Procs \ {p}
      PROVE  SweepFits(q)'
  <2>1. SweepFits(q) /\ cmd[q].todo \subseteq Jobs
    BY DEF WInv, DInv, ProcsOK, Cmds
  <2> QED
    BY <1>2, <2>1 DEF SweepFits, Sweeping
<1> QED
  BY <1>1, <1>2 DEF WInv, WorkersOK

(* The command of p ends, and with it the work of p. *)
LEMMA ExitStep ==
  ASSUME WInv, DInv', NEW p \in Procs, Exit(p),
         \A j \in Jobs : \/ ent'[j].st = ent[j].st
                         \/ Working(p, j) /\ ent'[j].st # "created"
  PROVE  WInv'
<1>1. /\ at'[p] = "idle" /\ cmd'[p] = NoCmd
      /\ \A q \in Procs \ {p} :
           at'[q] = at[q] /\ cmd'[q] = [cmd[q] EXCEPT !.live = {j \in @ : worker[j] # p}]
  BY ExitOK DEF WInv, DInv
<1>2. \A j \in Jobs : worker'[j] = IF worker[j] = p THEN None ELSE worker[j]
  BY DEF Exit
<1>3. ASSUME NEW q \in Procs \ {p}
      PROVE  /\ at'[q] = at[q] /\ cmd'[q].op = cmd[q].op /\ cmd'[q].job = cmd[q].job
             /\ cmd'[q].todo = cmd[q].todo
             /\ cmd'[q].live = {j \in cmd[q].live : worker[j] # p}
             /\ cmd[q].todo \subseteq Jobs
  <2>1. PICK s : s = {j \in cmd[q].live : worker[j] # p}
    OBVIOUS
  <2>2. cmd'[q] = [cmd[q] EXCEPT !.live = s] /\ at'[q] = at[q] /\ cmd[q] \in Cmds
    BY <1>1, <2>1 DEF WInv, DInv, ProcsOK
  <2> QED
    BY <2>1, <2>2 DEF Cmds
<1>4. ASSUME NEW q \in Procs, NEW j \in Jobs, Working(q, j)'
      PROVE  worker'[j] = q /\ ent'[j].st = "running"
  <2>1. q # p
    BY <1>1, <1>4 DEF Working
  <2>2. Working(q, j)
    BY <1>3, <1>4, <2>1 DEF Working
  <2>3. worker[j] = q /\ ent[j].st = "running"
    BY <2>2 DEF WInv, WorkersOK
  <2>4. ~ Working(p, j)
    BY <2>1, <2>3 DEF WInv, WorkersOK
  <2> QED
    BY <1>2, <2>1, <2>3, <2>4
<1>5. SweepFits(p)'
  BY <1>1, NoCmdFits, NoneIsNoCommand DEF SweepFits, Sweeping, AllCommands
<1>6. ASSUME NEW q \in Procs \ {p}
      PROVE  SweepFits(q)'
  <2>1. SweepFits(q)
    BY DEF WInv
  <2>2. ASSUME Sweeping(q)', NEW j \in cmd'[q].todo
        PROVE  ent'[j].st # "created" /\ (j \notin cmd'[q].live => worker'[j] = None)
    <3>1. Sweeping(q) /\ j \in cmd[q].todo /\ j \in Jobs
      BY <1>3, <2>2 DEF Sweeping
    <3>2. ent[j].st # "created" /\ (j \notin cmd[q].live => worker[j] = None)
      BY <2>1, <3>1 DEF SweepFits
    <3> QED
      BY <1>2, <1>3, <3>1, <3>2
  <2>3. ASSUME Sweeping(q)', at'[q] \in {"rmtree", "rmbranch", "reset"}
        PROVE  cmd'[q].job \in cmd'[q].todo \ cmd'[q].live
    BY <1>3, <2>1, <2>3 DEF SweepFits, Sweeping
  <2> QED
    BY <2>2, <2>3 DEF SweepFits
<1> QED
  BY <1>4, <1>5, <1>6 DEF WInv, WorkersOK

(* A recover that has the lock is the only one. *)
LEMMA OneSweep ==
  ASSUME DInv, NEW p \in Procs, NEW q \in Procs, cmd[p].op = "recover", cmd[q].op = "recover"
  PROVE  p = q
BY DEF DInv, ProcsOK

(* Only recover's first step makes a command a recover. *)
LEMMA OtherLoads ==
  ASSUME DInv, NEW p \in Procs, Load(p), ~ RecoverStart(p)
  PROVE  cmd'[p].op # "recover"
<1>1. RunLoad(p) => cmd'[p].op = "run"
  BY DEF RunLoad, Begin, DInv, ProcsOK, NoCmd
<1>2. GateLoad(p) => cmd'[p].op \in {"approve", "reject"}
  <2> SUFFICES ASSUME GateLoad(p)  PROVE cmd'[p].op \in {"approve", "reject"}
    OBVIOUS
  <2>1. PICK g \in Gates, op \in {"approve", "reject"}, pt \in {"settle", "extend"} :
          Begin(p, pt, [NoCmd EXCEPT !.op = op, !.job = ent[g].job, !.gate = g,
                          !.rev = ent[ent[g].job].rev, !.seen = ent[ent[g].job].st])
    BY Zenon DEF GateLoad
  <2>2. PICK j, r, st : j = ent[g].job /\ r = ent[j].rev /\ st = ent[j].st
    OBVIOUS
  <2>3. Begin(p, pt, [NoCmd EXCEPT !.op = op, !.job = j, !.gate = g, !.rev = r, !.seen = st])
    BY <2>1, <2>2
  <2> QED
    BY <2>3 DEF Begin, DInv, ProcsOK, NoCmd
<1>3. PruneLoad(p) => cmd'[p].op = "prune"
  <2>1. PICK t : t = {j \in WriteJobs : ent[j].st \in Prunable}
    OBVIOUS
  <2> QED
    BY <2>1 DEF PruneLoad, Begin, DInv, ProcsOK, NoCmd
<1>4. IntegrateLoad(p) => cmd'[p].op = "integrate"
  <2>1. PICK t : t = {j \in WriteJobs : ent[j].st = "completed"}
    OBVIOUS
  <2> QED
    BY <2>1 DEF IntegrateLoad, Begin, DInv, ProcsOK, NoCmd
<1> QED
  BY <1>1, <1>2, <1>3, <1>4 DEF Load

(* A command that begins works on nothing. *)
LEMMA LoadKeeps == ASSUME WInv, NEW p \in Procs, Load(p)  PROVE WInv'
<1>1. DInv'
  BY LoadOK DEF WInv
<1>2. \A j \in Jobs : ~ Working(p, j)'
  <2>1. \E pt \in {"add", "mark", "reap", "settle", "extend", "gc", "merge"} : at'[p] = pt
    <3>1. RunLoad(p) => at'[p] \in {"add", "mark"}
      BY DEF RunLoad, Begin, WInv, DInv, ProcsOK
    <3>2. RecoverStart(p) => at'[p] = "reap"
      BY DEF RecoverStart, Begin, WInv, DInv, ProcsOK
    <3>3. GateLoad(p) => at'[p] \in {"settle", "extend"}
      BY DEF GateLoad, Begin, WInv, DInv, ProcsOK
    <3>4. PruneLoad(p) => at'[p] = "gc"
      BY DEF PruneLoad, Begin, WInv, DInv, ProcsOK
    <3>5. IntegrateLoad(p) => at'[p] = "merge"
      BY DEF IntegrateLoad, Begin, WInv, DInv, ProcsOK
    <3> QED
      BY <3>1, <3>2, <3>3, <3>4, <3>5 DEF Load
  <2> QED
    BY <2>1 DEF Working
<1>3. ent' = ent /\ worker' = worker
  BY DEF Load, RunLoad, RecoverStart, GateLoad, PruneLoad, IntegrateLoad
<1>4. \A q \in Procs \ {p} : at'[q] = at[q] /\ cmd'[q] = cmd[q]
  <2>1. \E pt, c : Begin(p, pt, c)
    BY Zenon DEF Load, RunLoad, RecoverStart, GateLoad, PruneLoad, IntegrateLoad
  <2> QED
    BY <2>1 DEF Begin, WInv, DInv, ProcsOK
<1>5. SweepFits(p)'
  <2>1. CASE RecoverStart(p)
    <3> DEFINE running == {j \in Jobs : ent[j].st = "running"}
               alive == {j \in running : worker[j] # None}
    <3>1. Begin(p, "reap", [NoCmd EXCEPT !.op = "recover", !.todo = running, !.live = alive])
      BY <2>1 DEF RecoverStart
    <3>2. PICK t, l : t = running /\ l = alive
      OBVIOUS
    <3>3. cmd'[p] = [NoCmd EXCEPT !.op = "recover", !.todo = t, !.live = l] /\ at'[p] = "reap"
      BY <3>1, <3>2 DEF Begin, WInv, DInv, ProcsOK
    <3>4. cmd'[p].todo = t /\ cmd'[p].live = l
      BY <3>3 DEF NoCmd
    <3>5. \A j \in t : ent[j].st # "created" /\ (j \notin l => worker[j] = None)
      BY <3>2
    <3> QED
      BY <1>3, <3>3, <3>4, <3>5 DEF SweepFits
  <2>2. CASE ~ RecoverStart(p)
    <3>1. cmd'[p].op # "recover"
      BY <2>2, OtherLoads DEF WInv
    <3> QED
      BY <3>1 DEF SweepFits, Sweeping
  <2> QED
    BY <2>1, <2>2
<1> QED
  BY <1>1, <1>2, <1>3, <1>4, <1>5, CalmStep

(* Process p moves on in its command. *)
LEMMA GotoStep ==
  ASSUME WInv, DInv', NEW p \in Procs, NEW pt, NEW c, Goto(p, pt, c),
         pt \in {"work", "commit", "decide", "finish"} => Working(p, c.job),
         \A j \in Jobs : \/ ent'[j].st = ent[j].st
                         \/ Working(p, j) /\ ent'[j].st # "created"
                            /\ pt \notin {"work", "commit", "decide", "finish"},
         SweepFits(p)'
  PROVE  WInv'
<1>1. /\ at'[p] = pt /\ cmd'[p] = c /\ worker' = worker
      /\ \A q \in Procs \ {p} : at'[q] = at[q] /\ cmd'[q] = cmd[q]
  BY DEF Goto, WInv, DInv, ProcsOK
<1>2. \A j \in Jobs : Working(p, j)' => Working(p, j)
  BY <1>1 DEF Working
<1>3. \A j \in Jobs : \/ ent'[j].st = ent[j].st
                      \/ Working(p, j) /\ ~ Working(p, j)' /\ ent'[j].st # "created"
  BY <1>1 DEF Working
<1> QED
  BY <1>1, <1>2, <1>3, CalmStep

(* A command that is no recover has nothing to sweep. *)
LEMMA NoSweep ==
  ASSUME NEW p \in Procs, cmd'[p].op # "recover"
  PROVE  SweepFits(p)'
BY DEF SweepFits, Sweeping

LEMMA OpKept ==
  ASSUME DInv, NEW p \in Procs, NEW pt, NEW c, Goto(p, pt, c)
  PROVE  at'[p] = pt /\ cmd'[p] = c /\ worker' = worker
BY DEF DInv, ProcsOK, Goto

LEMMA AddTreeKeeps == ASSUME WInv, NEW p \in Procs, AddTree(p)  PROVE WInv'
<1>1. DInv' /\ DInv
  BY AddTreeOK DEF WInv
<1>2. cmd[p].op = "run" /\ ent' = ent
  BY DEF AddTree, WInv, DInv, ProcsOK, Fits, RunPoints
<1>3. CASE Goto(p, "mark", cmd[p])
  <2>1. SweepFits(p)'
    BY <1>1, <1>2, <1>3, OpKept, NoSweep
  <2> QED
    BY <1>1, <1>2, <1>3, <2>1, GotoStep
<1>4. CASE Exit(p)
  BY <1>1, <1>2, <1>4, ExitStep
<1> QED
  BY <1>3, <1>4 DEF AddTree

LEMMA MarkRunningKeeps == ASSUME WInv, NEW p \in Procs, MarkRunning(p)  PROVE WInv'
<1>1. DInv' /\ DInv
  BY MarkRunningOK DEF WInv
<1>2. Fits("mark", cmd[p]) /\ at[p] = "mark"
  BY DEF MarkRunning, WInv, DInv, ProcsOK
<1>3. CASE Exit(p) /\ UNCHANGED ent
  BY <1>1, <1>3, ExitStep
<1>4. CASE Current(p)
  <2> DEFINE i == cmd[p].job
  <2>1. i \in Jobs /\ cmd[p].op = "run"
    BY <1>2 DEF Fits, RunPoints
  <2>2. JobStep(i, "running") /\ <<ent[i].st, "running">> \in JobLegal
    BY <1>1, <1>4, <2>1, MoveJob DEF MarkRunning, DInv
  <2>3. ent[i].st = "created" /\ ent'[i].st = "running"
        /\ \A j \in Jobs \ {i} : ent'[j] = ent[j]
    BY <2>2 DEF JobLegal, JobStep
  <2>4. worker' = [worker EXCEPT ![i] = p] /\ at' = [at EXCEPT ![p] = "work"]
    BY <1>4 DEF MarkRunning
  <2>5. PICK r : r = cmd[p].rev + 1
    OBVIOUS
  <2>6. cmd' = [cmd EXCEPT ![p] = [cmd[p] EXCEPT !.rev = r]]
    BY <1>4, <2>5 DEF MarkRunning
  <2>7. cmd'[p].job = i /\ cmd'[p].op = "run" /\ \A q \in Procs \ {p} : cmd'[q] = cmd[q]
    BY <1>1, <2>1, <2>6 DEF DInv, ProcsOK, Cmds
  <2>8. at'[p] = "work" /\ worker'[i] = p /\ \A q \in Procs \ {p} : at'[q] = at[q]
    BY <1>1, <2>1, <2>4 DEF DInv, ProcsOK
  <2>9. \A j \in Jobs \ {i} : worker'[j] = worker[j]
    BY <1>1, <2>1, <2>4 DEF DInv, ProcsOK
  <2> HIDE DEF i
  <2>10. WorkersOK'
    <3>1. ASSUME NEW q \in Procs, NEW j \in Jobs, Working(q, j)'
          PROVE  worker'[j] = q /\ ent'[j].st = "running"
      <4>1. CASE q = p
        <5>1. j = i
          BY <2>7, <3>1, <4>1 DEF Working
        <5> QED
          BY <2>3, <2>8, <4>1, <5>1
      <4>2. CASE q # p
        <5>1. Working(q, j)
          BY <2>7, <2>8, <3>1, <4>2 DEF Working
        <5>2. worker[j] = q /\ ent[j].st = "running"
          BY <5>1 DEF WInv, WorkersOK
        <5>3. j # i
          BY <2>3, <5>2
        <5> QED
          BY <2>3, <2>9, <5>2, <5>3
      <4> QED
        BY <4>1, <4>2
    <3> QED
      BY <3>1 DEF WorkersOK
  <2>11. ASSUME NEW q \in Procs
         PROVE  SweepFits(q)'
    <3>1. CASE q = p
      BY <2>7, <3>1, NoSweep
    <3>2. CASE q # p
      <4>1. SweepFits(q) /\ cmd[q].todo \subseteq Jobs
        BY DEF WInv, DInv, ProcsOK, Cmds
      <4>2. at'[q] = at[q] /\ cmd'[q] = cmd[q]
        BY <2>7, <2>8, <3>2
      <4>3. Sweeping(q) => i \notin cmd[q].todo
        BY <2>3, <4>1 DEF SweepFits
      <4> QED
        BY <2>3, <2>9, <4>1, <4>2, <4>3 DEF SweepFits, Sweeping
    <3> QED
      BY <3>1, <3>2
  <2> QED
    BY <1>1, <2>10, <2>11 DEF WInv
<1> QED
  BY <1>3, <1>4 DEF MarkRunning

LEMMA EditKeeps == ASSUME WInv, NEW p \in Procs, Edit(p)  PROVE WInv'
BY EditOK DEF WInv, Edit, WorkersOK, Working, SweepFits, Sweeping

LEMMA WorkKeeps == ASSUME WInv, NEW p \in Procs, Work(p)  PROVE WInv'
<1>1. DInv' /\ DInv
  BY WorkOK DEF WInv
<1>2. cmd[p].op = "run" /\ ent' = ent /\ Goto(p, "commit", cmd[p]) /\ at[p] = "work"
  BY DEF Work, WInv, DInv, ProcsOK, Fits, RunPoints
<1>3. SweepFits(p)'
  BY <1>1, <1>2, OpKept, NoSweep
<1>4. Working(p, cmd[p].job)
  BY <1>2 DEF Working
<1> QED
  BY <1>1, <1>2, <1>3, <1>4, GotoStep

(* The result of a run is decided. *)
LEMMA ResultKeeps ==
  ASSUME WInv, DInv', NEW p \in Procs, at[p] \in {"commit", "decide"},
         NEW pt \in {"decide", "finish"}, NEW c, Goto(p, pt, c),
         c.op = cmd[p].op, c.job = cmd[p].job, ent' = ent
  PROVE  WInv'
<1>1. cmd[p].op = "run" /\ DInv
  BY DEF WInv, DInv, ProcsOK, Fits, RunPoints
<1>2. SweepFits(p)'
  BY <1>1, OpKept, NoSweep
<1>3. Working(p, c.job)
  BY DEF Working
<1> QED
  BY <1>2, <1>3, GotoStep

LEMMA CommitKeeps == ASSUME WInv, NEW p \in Procs, Commit(p)  PROVE WInv'
<1>1. DInv' /\ DInv
  BY CommitOK DEF WInv
<1> DEFINE c == [cmd[p] EXCEPT !.result = "needs-human"]
<1>2. c.op = cmd[p].op /\ c.job = cmd[p].job
  BY <1>1 DEF DInv, ProcsOK, Cmds
<1>3. at[p] = "commit" /\ ent' = ent /\ (Goto(p, "decide", cmd[p]) \/ Goto(p, "finish", c))
  BY DEF Commit
<1> HIDE DEF c
<1> QED
  BY <1>1, <1>2, <1>3, ResultKeeps

LEMMA DecideKeeps == ASSUME WInv, NEW p \in Procs, Decide(p)  PROVE WInv'
<1>1. DInv' /\ DInv
  BY DecideOK DEF WInv
<1>2. PICK v : Goto(p, "finish", [cmd[p] EXCEPT !.result = v])
  BY DEF Decide
<1> DEFINE c == [cmd[p] EXCEPT !.result = v]
<1>3. c.op = cmd[p].op /\ c.job = cmd[p].job
  BY <1>1 DEF DInv, ProcsOK, Cmds
<1>4. at[p] = "decide" /\ ent' = ent /\ Goto(p, "finish", c)
  BY <1>2 DEF Decide
<1> HIDE DEF c
<1> QED
  BY <1>1, <1>3, <1>4, ResultKeeps

LEMMA FinishKeeps == ASSUME WInv, NEW p \in Procs, Finish(p)  PROVE WInv'
<1>1. DInv' /\ DInv
  BY FinishOK DEF WInv
<1>2. Fits("finish", cmd[p]) /\ at[p] = "finish"
  BY DEF Finish, WInv, DInv, ProcsOK
<1>3. cmd[p].op = "run" /\ cmd[p].job \in Jobs /\ cmd[p].result # "created"
      /\ Working(p, cmd[p].job)
  BY <1>2 DEF Fits, RunPoints, Working
<1>4. \A j \in Jobs : \/ ent'[j].st = ent[j].st
                      \/ Working(p, j) /\ ent'[j].st # "created"
  BY <1>1, <1>3, MoveJob DEF Finish, JobStep, DInv
<1>5. CASE Goto(p, "gate", cmd[p])
  <2>1. SweepFits(p)'
    BY <1>1, <1>3, <1>5, OpKept, NoSweep
  <2> QED
    BY <1>1, <1>4, <1>5, <2>1, GotoStep
<1>6. CASE Exit(p)
  BY <1>1, <1>4, <1>6, ExitStep
<1> QED
  BY <1>5, <1>6 DEF Finish

LEMMA OpenGateKeeps == ASSUME WInv, NEW p \in Procs, OpenGate(p)  PROVE WInv'
<1>1. DInv' /\ DInv
  BY OpenGateOK DEF WInv
<1>2. Fits("gate", cmd[p]) /\ at[p] = "gate"
  BY DEF OpenGate, WInv, DInv, ProcsOK
<1>3. cmd[p].job \in Jobs /\ cmd[p].op \in {"run", "recover", "integrate"}
  BY <1>2 DEF Fits
<1>4. \A j \in Jobs : ent'[j] = ent[j]
  BY <1>1, <1>3, OpenGateStep, ReasonsAreKnown DEF OpenGate, GateStep, DInv
<1>5. Exit(p) \/ (cmd[p].op = "recover" /\ Goto(p, "reap", cmd[p]))
  BY <1>3 DEF OpenGate
<1>6. CASE cmd[p].op = "recover" /\ Goto(p, "reap", cmd[p])
  <2>1. at'[p] = "reap" /\ cmd'[p] = cmd[p] /\ worker' = worker
    BY <1>1, <1>6, OpKept
  <2>2. SweepFits(p) /\ cmd[p].todo \subseteq Jobs
    BY DEF WInv, DInv, ProcsOK, Cmds
  <2>3. SweepFits(p)'
    BY <1>2, <1>4, <1>6, <2>1, <2>2 DEF SweepFits, Sweeping
  <2> QED
    BY <1>1, <1>4, <1>6, <2>3, GotoStep
<1>7. CASE Exit(p)
  BY <1>1, <1>4, <1>7, ExitStep
<1> QED
  BY <1>5, <1>6, <1>7

LEMMA RemoveTreeKeeps == ASSUME WInv, NEW p \in Procs, RemoveTree(p)  PROVE WInv'
<1>1. DInv' /\ DInv
  BY RemoveTreeOK DEF WInv
<1>2. Fits("rmtree", cmd[p]) /\ at[p] = "rmtree"
  BY DEF RemoveTree, WInv, DInv, ProcsOK
<1>3. ent' = ent /\ Goto(p, "rmbranch", cmd[p])
  BY DEF RemoveTree
<1>4. at'[p] = "rmbranch" /\ cmd'[p] = cmd[p] /\ worker' = worker
  BY <1>1, <1>3, OpKept
<1>5. SweepFits(p)'
  <2>1. cmd[p].op # "recover" => SweepFits(p)'
    BY <1>4, NoSweep
  <2>2. cmd[p].op = "recover" => SweepFits(p)'
    BY <1>2, <1>3, <1>4 DEF WInv, SweepFits, Sweeping
  <2> QED
    BY <2>1, <2>2
<1> QED
  BY <1>1, <1>3, <1>5, GotoStep

LEMMA RemoveBranchKeeps == ASSUME WInv, NEW p \in Procs, RemoveBranch(p)  PROVE WInv'
<1>1. DInv' /\ DInv
  BY RemoveBranchOK DEF WInv
<1>2. Fits("rmbranch", cmd[p]) /\ at[p] = "rmbranch"
  BY DEF RemoveBranch, WInv, DInv, ProcsOK
<1>3. cmd[p].op \in {"approve", "reject", "recover"} /\ ent' = ent
  BY <1>2 DEF Fits, RemoveBranch
<1>4. CASE cmd[p].op \in {"approve", "reject"}
  <2>1. Exit(p)
    BY <1>4 DEF RemoveBranch
  <2> QED
    BY <1>1, <1>3, <2>1, ExitStep
<1>5. CASE cmd[p].op = "recover"
  <2>1. \/ cmd[p].job \in cmd[p].todo /\ Goto(p, "reset", cmd[p])
        \/ cmd[p].job \notin cmd[p].todo /\ Goto(p, "prune", cmd[p])
    BY <1>5 DEF RemoveBranch
  <2>2. cmd'[p] = cmd[p] /\ worker' = worker
    BY <1>1, <2>1, OpKept
  <2>3. \/ cmd[p].job \in cmd[p].todo /\ at'[p] = "reset"
        \/ at'[p] = "prune"
    BY <1>1, <2>1, OpKept
  <2>4. SweepFits(p)'
    BY <1>2, <1>3, <1>5, <2>2, <2>3 DEF WInv, SweepFits, Sweeping
  <2> QED
    BY <1>1, <1>3, <2>1, <2>4, GotoStep
<1> QED
  BY <1>3, <1>4, <1>5

LEMMA ReapKeeps == ASSUME WInv, NEW p \in Procs, Reap(p)  PROVE WInv'
<1>1. DInv' /\ DInv
  BY ReapOK DEF WInv
<1>2. Fits("reap", cmd[p]) /\ at[p] = "reap" /\ ent' = ent
  BY DEF Reap, WInv, DInv, ProcsOK
<1>3. cmd[p].op = "recover" /\ cmd[p] \in Cmds
  BY <1>2 DEF Fits
<1>4. PICK j \in cmd[p].todo :
        IF Alive(p, j)
        THEN Goto(p, "reap", [cmd[p] EXCEPT !.todo = @ \ {j}, !.kept = @ \cup {j}])
        ELSE Goto(p, IF j \in WriteJobs THEN "rmtree" ELSE "reset", [cmd[p] EXCEPT !.job = j])
  BY DEF Reap
<1>5. PICK t, k : t = cmd[p].todo \ {j} /\ k = cmd[p].kept \cup {j}
  OBVIOUS
<1> DEFINE c == [cmd[p] EXCEPT !.todo = t, !.kept = k]
           d == [cmd[p] EXCEPT !.job = j]
<1>6. /\ c.todo = t /\ c.live = cmd[p].live
      /\ d.todo = cmd[p].todo /\ d.live = cmd[p].live /\ d.job = j
  BY <1>3 DEF Cmds
<1>7. \/ Goto(p, "reap", c)
      \/ j \notin cmd[p].live /\ Goto(p, "rmtree", d)
      \/ j \notin cmd[p].live /\ Goto(p, "reset", d)
  BY <1>4, <1>5 DEF Alive
<1> HIDE DEF c, d
<1>8. \A i \in cmd[p].todo : ent[i].st # "created" /\ (i \notin cmd[p].live => worker[i] = None)
  BY <1>2, <1>3 DEF WInv, SweepFits, Sweeping
<1>9. CASE Goto(p, "reap", c)
  <2>1. at'[p] = "reap" /\ cmd'[p] = c /\ worker' = worker
    BY <1>1, <1>9, OpKept
  <2>2. SweepFits(p)'
    BY <1>2, <1>5, <1>6, <1>8, <2>1 DEF SweepFits
  <2> QED
    BY <1>1, <1>2, <1>9, <2>2, GotoStep
<1>10. ASSUME NEW pt \in {"rmtree", "reset"}, Goto(p, pt, d), j \notin cmd[p].live
       PROVE  WInv'
  <2>1. at'[p] = pt /\ cmd'[p] = d /\ worker' = worker
    BY <1>1, <1>10, OpKept
  <2>2. SweepFits(p)'
    BY <1>2, <1>6, <1>8, <1>10, <2>1 DEF SweepFits
  <2> QED
    BY <1>1, <1>2, <1>10, <2>2, GotoStep
<1> QED
  BY <1>7, <1>9, <1>10

LEMMA ResetKeeps == ASSUME WInv, NEW p \in Procs, Reset(p)  PROVE WInv'
<1>1. DInv' /\ DInv
  BY ResetOK DEF WInv
<1>2. Fits("reset", cmd[p]) /\ at[p] = "reset"
  BY DEF Reset, WInv, DInv, ProcsOK
<1>3. cmd[p].op = "recover" /\ cmd[p].job \in Jobs /\ cmd[p] \in Cmds
  BY <1>2 DEF Fits
<1> DEFINE i == cmd[p].job
<1>4. /\ \A j \in cmd[p].todo : ent[j].st # "created" /\ (j \notin cmd[p].live => worker[j] = None)
      /\ i \in cmd[p].todo \ cmd[p].live
  BY <1>2, <1>3 DEF WInv, SweepFits, Sweeping
<1>5. \A j \in Jobs \ {i} : ent'[j] = ent[j]
  BY <1>1, <1>3, RecoverJob DEF Reset, JobStep, DInv
<1>6. \A q \in Procs : ~ Working(q, i)
  BY <1>3, <1>4, NoneIsNoProc DEF WInv, WorkersOK
<1>7. PICK t : t = cmd[p].todo \ {i}
  OBVIOUS
<1> DEFINE c == [cmd[p] EXCEPT !.todo = t]
<1>8. c.todo = t /\ c.live = cmd[p].live /\ c.op = "recover"
  BY <1>3 DEF Cmds
<1>9. PICK pt \in {"gate", "reap"} : Goto(p, pt, c)
  BY <1>7 DEF Reset
<1> HIDE DEF c, i
<1>10. at'[p] = pt /\ cmd'[p] = c /\ worker' = worker
       /\ \A q \in Procs \ {p} : at'[q] = at[q] /\ cmd'[q] = cmd[q]
  BY <1>1, <1>9 DEF DInv, ProcsOK, Goto
<1>11. WorkersOK'
  <2>1. ASSUME NEW q \in Procs, NEW j \in Jobs, Working(q, j)'
        PROVE  worker'[j] = q /\ ent'[j].st = "running"
    <3>1. Working(q, j)
      BY <1>10, <2>1 DEF Working
    <3>2. j # i /\ worker[j] = q /\ ent[j].st = "running"
      BY <1>6, <3>1 DEF WInv, WorkersOK
    <3> QED
      BY <1>5, <1>10, <3>2
  <2> QED
    BY <2>1 DEF WorkersOK
<1>12. ASSUME NEW q \in Procs
       PROVE  SweepFits(q)'
  <2>1. CASE q = p
    BY <1>3, <1>4, <1>5, <1>7, <1>8, <1>10, <2>1 DEF SweepFits, Cmds
  <2>2. CASE q # p
    <3>1. cmd'[q].op # "recover"
      BY <1>1, <1>3, <1>10, <2>2, OneSweep
    <3> QED
      BY <3>1, NoSweep
  <2> QED
    BY <2>1, <2>2
<1> QED
  BY <1>1, <1>11, <1>12 DEF WInv

(* A recover that prunes sweeps no job. *)
LEMMA ListOrphansKeeps == ASSUME WInv, NEW p \in Procs, ListOrphans(p)  PROVE WInv'
<1>1. DInv' /\ DInv
  BY ListOrphansOK DEF WInv
<1>2. PICK c : Goto(p, "prune", c) /\ ent' = ent
  BY DEF ListOrphans
<1>3. SweepFits(p)'
  BY <1>1, <1>2, OpKept DEF SweepFits, Sweeping
<1> QED
  BY <1>1, <1>2, <1>3, GotoStep

LEMMA PruneOrphanKeeps == ASSUME WInv, NEW p \in Procs, PruneOrphan(p)  PROVE WInv'
<1>1. DInv' /\ DInv
  BY PruneOrphanOK DEF WInv
<1>2. PICK j \in cmd[p].todo : Goto(p, "rmbranch", [cmd[p] EXCEPT !.job = j, !.todo = @ \ {j}])
  BY DEF PruneOrphan
<1>3. PICK t : t = cmd[p].todo \ {j}
  OBVIOUS
<1> DEFINE c == [cmd[p] EXCEPT !.job = j, !.todo = t]
<1>4. c.job = j /\ c.todo = t
  BY <1>1 DEF DInv, ProcsOK, Cmds
<1>5. Goto(p, "rmbranch", c) /\ ent' = ent
  BY <1>2, <1>3 DEF PruneOrphan
<1> HIDE DEF c
<1>6. at'[p] = "rmbranch" /\ cmd'[p] = c
  BY <1>1, <1>5, OpKept
<1>7. SweepFits(p)'
  BY <1>3, <1>4, <1>6 DEF SweepFits, Sweeping
<1> QED
  BY <1>1, <1>5, <1>7, GotoStep

LEMMA RecoverEndKeeps == ASSUME WInv, NEW p \in Procs, RecoverEnd(p)  PROVE WInv'
<1>1. DInv'
  BY RecoverEndOK DEF WInv
<1> QED
  BY <1>1, ExitStep DEF RecoverEnd

(* A gate command settles gates and extends scopes; a job it resolves has  *)
(* ended, and is not on the list of a recover.                             *)
LEMMA GateChanges ==
  ASSUME DInv, NEW p \in Procs, ExtendScope(p) \/ Reread(p) \/ Settle(p)
  PROVE  \A j \in Jobs : ent'[j].st = ent[j].st
<1>1. CASE ExtendScope(p)
  <2>1. cmd[p].job \in Jobs
    BY <1>1 DEF DInv, ProcsOK, Fits, ExtendScope
  <2>2. CASE \E x \in Globs : Store!Extend(cmd[p].job, x)
    BY <2>1, <2>2, ExtendJob DEF DInv, JobStep
  <2> QED
    BY <1>1, <2>2 DEF ExtendScope
<1>2. CASE Reread(p)
  BY <1>2 DEF Reread
<1>3. CASE Settle(p)
  <2>1. cmd[p].gate \in Gates
    BY <1>3 DEF DInv, ProcsOK, Fits, Settle, GatePoints
  <2>2. PICK to \in {"approved", "rejected"} : Store!ResolveGate(cmd[p].gate, to)
    BY <1>3 DEF Settle
  <2> QED
    BY <2>1, <2>2, SettleGate DEF DInv, GateStep
<1> QED
  BY <1>1, <1>2, <1>3

LEMMA GateKeeps ==
  ASSUME WInv, NEW p \in Procs, ExtendScope(p) \/ Reread(p) \/ Settle(p)
  PROVE  WInv'
<1>1. DInv' /\ DInv
  BY ExtendScopeOK, RereadOK, SettleOK DEF WInv
<1>2. at[p] \in GatePoints /\ cmd[p].op \in {"approve", "reject"} /\ cmd[p] \in Cmds
  BY DEF ExtendScope, Reread, Settle, GatePoints, WInv, DInv, ProcsOK, Fits
<1>3. \A j \in Jobs : ent'[j].st = ent[j].st
  BY <1>1, GateChanges
<1>4. CASE Exit(p)
  BY <1>1, <1>3, <1>4, ExitStep
<1>5. ASSUME NEW pt \in {"reread", "settle", "resolve"}, NEW c, Goto(p, pt, c), c.op = cmd[p].op
      PROVE  WInv'
  <2>1. SweepFits(p)'
    BY <1>1, <1>2, <1>5, OpKept, NoSweep
  <2> QED
    BY <1>1, <1>3, <1>5, <2>1, GotoStep
<1>6. ExtendScope(p) \/ Settle(p) =>
        Exit(p) \/ Goto(p, "reread", cmd[p]) \/ Goto(p, "resolve", cmd[p])
  BY DEF ExtendScope, Settle
<1>7. Reread(p) => \E v : Goto(p, "settle", [cmd[p] EXCEPT !.seen = v])
  BY DEF Reread
<1>8. \A v : [cmd[p] EXCEPT !.seen = v].op = cmd[p].op
  BY <1>2 DEF Cmds
<1> QED
  BY <1>4, <1>5, <1>6, <1>7, <1>8

(* What a decision does to its job. *)
LEMMA ResolveChanges ==
  ASSUME DInv, NEW p \in Procs, ResolveJob(p)
  PROVE  /\ cmd[p].job \in Jobs /\ cmd[p].op \in {"approve", "reject"}
         /\ \A j \in Jobs \ {cmd[p].job} : ent'[j] = ent[j]
         /\ \/ ent' = ent /\ Exit(p)
            \/ /\ ent[cmd[p].job].st \in Unfinished \cup {"completed"}
               /\ ent'[cmd[p].job].st = "cancelled" /\ cmd[p].op = "reject"
               /\ Goto(p, "rmtree", cmd[p])
            \/ /\ ent[cmd[p].job].st \in Unfinished
               /\ ent'[cmd[p].job].st = "created" /\ cmd[p].op = "approve"
               /\ Goto(p, "rmtree", cmd[p])
<1> DEFINE i == cmd[p].job
           to == IF cmd[p].op = "approve" THEN "created" ELSE "cancelled"
<1>1. i \in Jobs /\ cmd[p].op \in {"approve", "reject"}
  BY DEF ResolveJob, DInv, ProcsOK, Fits, GatePoints
<1>2. to \in {"created", "cancelled"}
  OBVIOUS
<1>3. \/ ent' = ent /\ Exit(p)
      \/ Resolvable(ent[i].st, to) /\ Store!Resolve(i, to) /\ Goto(p, "rmtree", cmd[p])
  BY DEF ResolveJob
<1>4. CASE Resolvable(ent[i].st, to) /\ Store!Resolve(i, to) /\ Goto(p, "rmtree", cmd[p])
  <2>1. JobStep(i, to)
    BY <1>1, <1>2, <1>4, ResolveJobStep DEF DInv
  <2>2. \/ to = "cancelled" /\ ent[i].st \in Unfinished \cup {"completed"}
        \/ to = "created" /\ ent[i].st \in Unfinished
    BY <1>4 DEF Resolvable
  <2> QED
    BY <1>1, <1>4, <2>1, <2>2 DEF JobStep
<1> QED
  BY <1>1, <1>3, <1>4

LEMMA ResolveJobKeeps ==
  ASSUME ApproveAvoids("recover"), OpsApart, WInv, NEW p \in Procs, ResolveJob(p)
  PROVE  WInv'
<1>1. DInv' /\ DInv
  BY ResolveJobOK DEF WInv
<1> DEFINE i == cmd[p].job
<1>2. /\ i \in Jobs /\ cmd[p].op \in {"approve", "reject"}
      /\ \A j \in Jobs \ {i} : ent'[j] = ent[j]
  BY <1>1, ResolveChanges
<1>3. CASE ent' = ent /\ Exit(p)
  BY <1>1, <1>3, ExitStep
<1>4. CASE /\ ent[i].st \in Unfinished \cup {"completed"}
           /\ ent'[i].st # "created" \/ cmd[p].op = "approve"
           /\ Goto(p, "rmtree", cmd[p])
  <2>1. /\ at'[p] = "rmtree" /\ cmd'[p] = cmd[p] /\ worker' = worker
        /\ \A q \in Procs \ {p} : at'[q] = at[q] /\ cmd'[q] = cmd[q]
    BY <1>1, <1>4 DEF Goto, DInv, ProcsOK
  <2>2. ASSUME NEW q \in Procs, NEW j \in Jobs, Working(q, j)'
        PROVE  worker'[j] = q /\ ent'[j].st = "running"
    <3>1. Working(q, j)
      BY <2>1, <2>2 DEF Working
    <3>2. worker[j] = q /\ ent[j].st = "running"
      BY <3>1 DEF WInv, WorkersOK
    <3>3. j # i
      BY <1>4, <3>2 DEF Unfinished
    <3> QED
      BY <1>2, <2>1, <3>2, <3>3
  <2>3. ASSUME NEW q \in Procs
        PROVE  SweepFits(q)'
    <3>1. CASE q = p
      BY <1>2, <2>1, <3>1, NoSweep
    <3>2. CASE q # p /\ cmd[q].op # "recover"
      BY <2>1, <3>2, NoSweep
    <3>3. CASE q # p /\ cmd[q].op = "recover"
      <4>1. ent'[i].st # "created"
        <5>1. cmd[p].op # "approve"
          BY <1>1, <1>2, <3>3, ApproveAway DEF OpsApart
        <5> QED
          BY <1>4, <5>1
      <4>2. SweepFits(q) /\ cmd[q].todo \subseteq Jobs
        BY DEF WInv, DInv, ProcsOK, Cmds
      <4> QED
        BY <1>2, <2>1, <3>3, <4>1, <4>2 DEF SweepFits, Sweeping
    <3> QED
      BY <3>1, <3>2, <3>3
  <2> QED
    BY <1>1, <2>2, <2>3 DEF WInv, WorkersOK
<1> QED
  BY <1>1, <1>3, <1>4, ResolveChanges

(* Prune and integrate work on no job and change none. *)
LEMMA DeliverKeeps ==
  ASSUME WInv, NEW p \in Procs, Merge(p) \/ Promote(p) \/ ReclaimTree(p)
  PROVE  WInv'
<1>1. DInv' /\ DInv
  BY MergeOK, PromoteOK, ReclaimTreeOK DEF WInv
<1>2. ent' = ent
  BY DEF Merge, Promote, ReclaimTree
<1>3. CASE Exit(p)
  BY <1>1, <1>2, <1>3, ExitStep
<1>4. ASSUME NEW pt \in {"gate", "merge", "gc"}, NEW c, Goto(p, pt, c), c.op = cmd[p].op
      PROVE  WInv'
  <2>1. at[p] \in {"merge", "gc"}
    BY DEF Merge, Promote, ReclaimTree
  <2>2. cmd[p].op # "recover"
    BY <1>1, <2>1 DEF DInv, ProcsOK, Fits
  <2>3. SweepFits(p)'
    BY <1>1, <1>4, <2>2, OpKept, NoSweep
  <2> QED
    BY <1>1, <1>2, <1>4, <2>3, GotoStep
<1>5. ASSUME NEW t, NEW k, NEW j
      PROVE  /\ [cmd[p] EXCEPT !.job = j].op = cmd[p].op
             /\ [cmd[p] EXCEPT !.todo = t].op = cmd[p].op
             /\ [cmd[p] EXCEPT !.todo = t, !.kept = k].op = cmd[p].op
  BY <1>1 DEF DInv, ProcsOK, Cmds
<1>6. CASE Merge(p)
  <2>1. PICK j, t, k : \/ Goto(p, "gate", [cmd[p] EXCEPT !.job = j])
                       \/ Goto(p, "merge", [cmd[p] EXCEPT !.todo = t, !.kept = k])
    BY <1>6, Zenon DEF Merge
  <2> QED
    BY <1>4, <1>5, <2>1
<1>7. CASE Promote(p) \/ ReclaimTree(p)
  <2>1. Exit(p) \/ \E t : Goto(p, "gc", [cmd[p] EXCEPT !.todo = t])
    BY <1>7, Zenon DEF Promote, ReclaimTree
  <2> QED
    BY <1>3, <1>4, <1>5, <2>1
<1> QED
  BY <1>6, <1>7

LEMMA DieKeeps == ASSUME WInv, NEW p \in Procs, Die(p)  PROVE WInv'
<1>1. DInv'
  BY DieOK DEF WInv
<1> QED
  BY <1>1, ExitStep DEF Die

LEMMA OrphansKeep ==
  ASSUME WInv, NEW j \in Jobs, OrphanEdit(j) \/ OrphanEnd(j)
  PROVE  WInv'
BY OrphansOK DEF WInv, OrphanEdit, OrphanEnd, WorkersOK, Working, SweepFits, Sweeping

LEMMA StepKeeps ==
  ASSUME ApproveAvoids("recover"), OpsApart, WInv, NEW p \in Procs, Step(p)
  PROVE  WInv'
BY AddTreeKeeps, MarkRunningKeeps, EditKeeps, WorkKeeps, CommitKeeps, DecideKeeps, FinishKeeps,
   OpenGateKeeps, RemoveTreeKeeps, RemoveBranchKeeps, ReapKeeps, ResetKeeps, ListOrphansKeeps,
   PruneOrphanKeeps, RecoverEndKeeps, GateKeeps, ResolveJobKeeps, DeliverKeeps DEF Step

LEMMA NextKeeps ==
  ASSUME ApproveAvoids("recover"), OpsApart, WInv, [Next]_vars
  PROVE  WInv' /\ OpsApart'
<1>1. OpsApart'
  BY ApartKept DEF WInv
<1>2. UNCHANGED vars => WInv'
  <2>1. DInv'
    BY NextOK DEF WInv
  <2> QED
    BY <2>1 DEF vars, git, WInv, WorkersOK, Working, SweepFits, Sweeping
<1> QED
  BY <1>1, <1>2, LoadKeeps, StepKeeps, DieKeeps, OrphansKeep DEF Next

LEMMA InitKeeps == Init => WInv /\ OpsApart
<1> SUFFICES ASSUME Init  PROVE WInv /\ OpsApart
  OBVIOUS
<1>1. DInv
  BY InitOK
<1>2. \A p \in Procs : at[p] = "idle" /\ cmd[p] = NoCmd
  BY DEF Init
<1>3. \A p \in Procs : SweepFits(p)
  BY <1>2, NoCmdFits, NoneIsNoCommand DEF SweepFits, Sweeping, AllCommands
<1>4. OpsApart
  BY <1>2, NoCmdFits, NoneApart DEF OpsApart
<1> QED
  BY <1>1, <1>2, <1>3, <1>4 DEF WInv, WorkersOK, Working

LEMMA Works == ASSUME ApproveAvoids("recover") PROVE Spec => [](WInv /\ OpsApart)
<1>1. WInv /\ OpsApart /\ [Next]_vars => (WInv /\ OpsApart)'
  BY NextKeeps
<1> QED
  BY <1>1, InitKeeps, PTL DEF Spec

(* With any number of runs, recovers, gate commands, prunes and integrates *)
(* in any order, and processes that die anywhere: no two processes work on *)
(* one job, if no gate is approved while a recover is under way.           *)
THEOREM JobHasOneWorker == ASSUME ApproveAvoids("recover") PROVE Spec => []OneWorker
<1>1. WInv => OneWorker
  BY DEF WInv, WorkersOK, OneWorker
<1> QED
  BY <1>1, Works, PTL

-----------------------------------------------------------------------------
(* Who changes which job *)

Decides(p) == ExtendScope(p) \/ Reread(p) \/ Settle(p)

(* The steps that touch the store. *)
LEMMA StoreSteps ==
  ASSUME NEW p \in Procs, Acts(p)
  PROVE  \/ ent' = ent \/ MarkRunning(p) \/ Finish(p) \/ Reset(p) \/ OpenGate(p)
         \/ Decides(p) \/ ResolveJob(p)
<1>1. Load(p) \/ Die(p) => ent' = ent
  BY DEF Load, RunLoad, RecoverStart, GateLoad, PruneLoad, IntegrateLoad, Die
<1>2. AddTree(p) \/ Edit(p) \/ Work(p) \/ Commit(p) \/ Decide(p) => ent' = ent
  BY DEF AddTree, Edit, Work, Commit, Decide
<1>3. RemoveTree(p) \/ RemoveBranch(p) \/ Reap(p) \/ ListOrphans(p) \/ PruneOrphan(p)
      \/ RecoverEnd(p) => ent' = ent
  BY DEF RemoveTree, RemoveBranch, Reap, ListOrphans, PruneOrphan, RecoverEnd
<1>4. Merge(p) \/ Promote(p) \/ ReclaimTree(p) => ent' = ent
  BY DEF Merge, Promote, ReclaimTree
<1> QED
  BY <1>1, <1>2, <1>3, <1>4 DEF Acts, Step, Decides

(* What they do to the jobs. *)
LEMMA MarkChanges ==
  ASSUME WInv, NEW p \in Procs, MarkRunning(p)
  PROVE  /\ \A j \in Jobs : ent'[j] = ent[j] \/ ent'[j].st = "running"
         /\ \A g \in Gates : ent'[g] = ent[g]
<1>1. cmd[p].job \in Jobs
  BY DEF MarkRunning, WInv, DInv, ProcsOK, Fits
<1>2. CASE Current(p)
  <2>1. JobStep(cmd[p].job, "running")
    BY <1>1, <1>2, MoveJob DEF MarkRunning, WInv, DInv
  <2> QED
    BY <2>1 DEF JobStep
<1> QED
  BY <1>2 DEF MarkRunning

LEMMA FinishChanges ==
  ASSUME WInv, NEW p \in Procs, Finish(p)
  PROVE  /\ \A j \in Jobs \ {cmd[p].job} : ent'[j] = ent[j]
         /\ \A g \in Gates : ent'[g] = ent[g]
         /\ at[p] = "finish" /\ cmd[p].job \in Jobs /\ worker[cmd[p].job] = p
         /\ \/ ent' = ent
            \/ ent'[cmd[p].job].st # "needs-human"
            \/ at'[p] = "gate" /\ cmd'[p] = cmd[p]
<1>1. cmd[p].job \in Jobs /\ at[p] = "finish" /\ DInv
  BY DEF Finish, WInv, DInv, ProcsOK, Fits
<1>2. worker[cmd[p].job] = p
  BY <1>1 DEF WInv, WorkersOK, Working
<1>3. CASE Current(p)
  <2>1. JobStep(cmd[p].job, cmd[p].result)
    BY <1>1, <1>3, MoveJob DEF Finish, DInv
  <2>2. cmd[p].result = "needs-human" => at'[p] = "gate" /\ cmd'[p] = cmd[p]
    BY <1>1, <1>3, OpKept DEF Finish
  <2> QED
    BY <1>1, <1>2, <2>1, <2>2 DEF JobStep
<1> QED
  BY <1>1, <1>2, <1>3 DEF Finish

LEMMA ResetChanges ==
  ASSUME WInv, NEW p \in Procs, Reset(p)
  PROVE  /\ \A j \in Jobs \ {cmd[p].job} : ent'[j] = ent[j]
         /\ \A g \in Gates : ent'[g] = ent[g]
         /\ at[p] = "reset" /\ cmd[p].job \in Jobs /\ worker[cmd[p].job] = None
         /\ \/ ent'[cmd[p].job].st # "needs-human"
            \/ at'[p] = "gate" /\ cmd'[p].job = cmd[p].job
<1>1. Fits("reset", cmd[p]) /\ at[p] = "reset" /\ DInv
  BY DEF Reset, WInv, DInv, ProcsOK
<1>2. cmd[p].op = "recover" /\ cmd[p].job \in Jobs /\ cmd[p] \in Cmds
  BY <1>1 DEF Fits
<1>3. cmd[p].job \in cmd[p].todo \ cmd[p].live /\ worker[cmd[p].job] = None
  BY <1>1, <1>2 DEF WInv, SweepFits, Sweeping
<1>4. /\ \A j \in Jobs \ {cmd[p].job} : ent'[j] = ent[j]
      /\ \A g \in Gates : ent'[g] = ent[g]
  BY <1>1, <1>2, RecoverJob DEF Reset, JobStep, DInv
<1>5. ent'[cmd[p].job].st = "needs-human" => at'[p] = "gate" /\ cmd'[p].job = cmd[p].job
  <2> SUFFICES ASSUME ent'[cmd[p].job].st = "needs-human"
               PROVE  at'[p] = "gate" /\ cmd'[p].job = cmd[p].job
    OBVIOUS
  <2>1. PICK t : t = cmd[p].todo \ {cmd[p].job}
    OBVIOUS
  <2> DEFINE c == [cmd[p] EXCEPT !.todo = t]
  <2>2. Goto(p, "gate", c)
    BY <2>1 DEF Reset
  <2>3. c.job = cmd[p].job
    BY <1>2 DEF Cmds
  <2> HIDE DEF c
  <2> QED
    BY <1>1, <2>2, <2>3, OpKept
<1> QED
  BY <1>1, <1>2, <1>3, <1>4, <1>5

LEMMA OpenChanges ==
  ASSUME WInv, NEW p \in Procs, OpenGate(p)
  PROVE  /\ \A j \in Jobs : ent'[j] = ent[j]
         /\ \E g \in Gates : ent'[g].st = "open" /\ ent'[g].job = cmd[p].job
         /\ \A g \in Gates : ent'[g] = ent[g] \/ (ent[g] = Absent /\ ent'[g].st = "open")
<1>1. Fits("gate", cmd[p]) /\ EntOK
  BY DEF OpenGate, WInv, DInv, ProcsOK
<1>2. cmd[p].job \in Jobs /\ cmd[p].op \in {"run", "recover", "integrate"}
  BY <1>1 DEF Fits
<1>3. PICK r \in {"review", "exhausted", "conflict"} : OpenGateForJob(cmd[p].job, r)
  BY <1>2 DEF OpenGate
<1> QED
  BY <1>1, <1>2, <1>3, OpenGateStep, ReasonsAreKnown DEF GateStep

-----------------------------------------------------------------------------
(* The job's own worker ends its run *)

(* What OnlyWorkerEnds says of one step. *)
EndedByWorker ==
  \A j \in Jobs : ent[j].st = "running" /\ worker[j] # None /\ ent'[j].st # "running"
    => at[worker[j]] = "finish" /\ cmd[worker[j]].job = j

LEMMA EndsByWorker == ASSUME WInv, [Next]_vars  PROVE EndedByWorker
<1>1. ASSUME NEW p \in Procs, Acts(p)
      PROVE  EndedByWorker
  <2>1. CASE ent' = ent
    BY <2>1 DEF EndedByWorker
  <2>2. CASE MarkRunning(p)
    BY <2>2, MarkChanges DEF EndedByWorker
  <2>3. CASE Finish(p)
    BY <2>3, FinishChanges DEF EndedByWorker
  <2>4. CASE Reset(p)
    BY <2>4, ResetChanges DEF EndedByWorker
  <2>5. CASE OpenGate(p)
    BY <2>5, OpenChanges DEF EndedByWorker
  <2>6. CASE Decides(p)
    BY <2>6, GateChanges DEF EndedByWorker, Decides, WInv
  <2>7. CASE ResolveJob(p)
    BY <2>7, ResolveChanges DEF EndedByWorker, WInv, Unfinished
  <2> QED
    BY <1>1, <2>1, <2>2, <2>3, <2>4, <2>5, <2>6, <2>7, StoreSteps
<1>2. ASSUME NEW j \in Jobs, OrphanEdit(j) \/ OrphanEnd(j)
      PROVE  EndedByWorker
  BY <1>2 DEF OrphanEdit, OrphanEnd, EndedByWorker
<1>3. CASE UNCHANGED vars
  BY <1>3 DEF vars, EndedByWorker
<1> QED
  BY <1>1, <1>2, <1>3 DEF Next, Acts

(* A running job with a live worker is ended by that worker only: whatever *)
(* else runs, if no gate is approved while a recover is under way.         *)
THEOREM WorkerEndsItsRun == ASSUME ApproveAvoids("recover") PROVE Spec => OnlyWorkerEnds
<1>1. WInv /\ [Next]_vars =>
        [\A j \in Jobs :
           ent[j].st = "running" /\ worker[j] # None /\ ent'[j].st # "running"
             => at[worker[j]] = "finish" /\ cmd[worker[j]].job = j]_vars
  BY EndsByWorker DEF EndedByWorker
<1> QED
  BY <1>1, Works, PTL DEF Spec, OnlyWorkerEnds

-----------------------------------------------------------------------------
(* A job starts on a fresh checkout *)

(* An operation changes a job by one revision, and its scope only grows. *)
JobAdvances(j) == \/ ent'[j] = ent[j]
                  \/ /\ ent'[j].rev = ent[j].rev + 1
                     /\ ent[j].allowed \subseteq ent'[j].allowed

LEMMA JobsAdvance == ASSUME DInv, [Next]_vars, NEW j \in Jobs  PROVE JobAdvances(j)
<1>1. ASSUME NEW i \in Jobs, NEW st, JobStep(i, st)
      PROVE  JobAdvances(j)
  BY <1>1 DEF JobStep, JobAdvances
<1>2. ASSUME ent' = ent \/ GateStep
      PROVE  JobAdvances(j)
  BY <1>2 DEF GateStep, JobAdvances
<1>3. ASSUME NEW p \in Procs, Acts(p)
      PROVE  JobAdvances(j)
  <2>1. CASE MarkRunning(p) \/ Finish(p)
    <3>1. cmd[p].job \in Jobs
      BY <2>1 DEF MarkRunning, Finish, DInv, ProcsOK, Fits
    <3>2. ent' = ent \/ \E to : Store!Move(cmd[p].job, to)
      BY <2>1, Zenon DEF MarkRunning, Finish
    <3> QED
      BY <1>1, <1>2, <3>1, <3>2, MoveJob DEF DInv
  <2>2. CASE Reset(p)
    <3>1. cmd[p].job \in Jobs
      BY <2>2 DEF Reset, DInv, ProcsOK, Fits
    <3>2. ent' = ent \/ Store!Recover(cmd[p].job)
      BY <2>2 DEF Reset
    <3> QED
      BY <1>1, <1>2, <3>1, <3>2, RecoverJob DEF DInv
  <2>3. CASE ResolveJob(p)
    <3>1. cmd[p].job \in Jobs
      BY <2>3 DEF ResolveJob, DInv, ProcsOK, Fits
    <3>2. ent' = ent \/ \E to \in {"created", "cancelled"} : Store!Resolve(cmd[p].job, to)
      BY <2>3 DEF ResolveJob
    <3> QED
      BY <1>1, <1>2, <3>1, <3>2, ResolveJobStep DEF DInv
  <2>4. CASE ExtendScope(p)
    <3>1. cmd[p].job \in Jobs
      BY <2>4 DEF ExtendScope, DInv, ProcsOK, Fits
    <3>2. ent' = ent \/ \E x \in Globs : Store!Extend(cmd[p].job, x)
      BY <2>4 DEF ExtendScope
    <3> QED
      BY <1>1, <1>2, <3>1, <3>2, ExtendJob DEF DInv
  <2>5. CASE OpenGate(p)
    <3>1. cmd[p].job \in Jobs /\ cmd[p].op \in {"run", "recover", "integrate"}
      BY <2>5 DEF OpenGate, DInv, ProcsOK, Fits
    <3>2. \E r \in Reasons : OpenGateForJob(cmd[p].job, r)
      BY <2>5, <3>1, ReasonsAreKnown DEF OpenGate
    <3> QED
      BY <1>2, <3>1, <3>2, OpenGateStep DEF DInv
  <2>6. CASE Settle(p)
    <3>1. cmd[p].gate \in Gates
      BY <2>6 DEF Settle, DInv, ProcsOK, Fits, GatePoints
    <3>2. \E to \in {"approved", "rejected"} : Store!ResolveGate(cmd[p].gate, to)
      BY <2>6 DEF Settle
    <3> QED
      BY <1>2, <3>1, <3>2, SettleGate DEF DInv
  <2> QED
    BY <1>2, <1>3, <2>1, <2>2, <2>3, <2>4, <2>5, <2>6, StoreSteps DEF Decides, Reread
<1>4. (\E i \in Jobs : OrphanEdit(i) \/ OrphanEnd(i)) \/ UNCHANGED vars => ent' = ent
  BY DEF OrphanEdit, OrphanEnd, vars
<1> QED
  BY <1>2, <1>3, <1>4 DEF Next, Acts

(* A run that has not marked its job: while its CAS would succeed, the job *)
(* is created, and once the checkout is there it is fresh.                 *)
FreshFits(p) ==
  LET j == cmd[p].job
  IN  /\ at[p] \in {"add", "mark"} =>
           cmd[p].rev <= ent[j].rev /\ (Current(p) => ent[j].st = "created")
      /\ at[p] = "mark" /\ Current(p) => tree[j] # "dirty" /\ branch[j] # "work"

FInv == WInv /\ OpsApart /\ orphan = {} /\ \A p \in Procs : FreshFits(p)

(* Only who works on a job makes its checkout dirty, or commits there. *)
LEMMA WorkerDirties ==
  ASSUME DInv, NEW p \in Procs, Acts(p), NEW j \in Jobs, ~ Working(p, j)
  PROVE  /\ tree[j] # "dirty" => tree'[j] # "dirty"
         /\ branch[j] # "work" => branch'[j] # "work"
<1>1. Load(p) \/ Die(p) => UNCHANGED git
  BY DEF Load, RunLoad, RecoverStart, GateLoad, PruneLoad, IntegrateLoad, Die
<1>2. MarkRunning(p) \/ Work(p) \/ Decide(p) \/ Finish(p) \/ OpenGate(p) => UNCHANGED git
  BY DEF MarkRunning, Work, Decide, Finish, OpenGate
<1>3. Reap(p) \/ Reset(p) \/ ListOrphans(p) \/ RecoverEnd(p) => UNCHANGED git
  BY DEF Reap, Reset, ListOrphans, RecoverEnd
<1>4. ExtendScope(p) \/ Reread(p) \/ Settle(p) \/ ResolveJob(p) \/ Merge(p) \/ Promote(p)
      => UNCHANGED git
  BY DEF ExtendScope, Reread, Settle, ResolveJob, Merge, Promote
<1>5. CASE UNCHANGED git
  BY <1>5 DEF git
<1>6. CASE AddTree(p)
  BY <1>6 DEF AddTree, git, DInv, GitOK
<1>7. CASE Edit(p) \/ Commit(p)
  BY <1>7 DEF Edit, Commit, Working, git, DInv, GitOK
<1>8. CASE RemoveTree(p) \/ RemoveBranch(p) \/ PruneOrphan(p) \/ ReclaimTree(p)
  BY <1>8 DEF RemoveTree, RemoveBranch, PruneOrphan, ReclaimTree, DInv, GitOK
<1> QED
  BY <1>1, <1>2, <1>3, <1>4, <1>5, <1>6, <1>7, <1>8 DEF Acts, Step

(* How a process comes to these points. *)
LEMMA ToMark ==
  ASSUME DInv, NEW p \in Procs, Acts(p), at'[p] \in {"add", "mark"}
  PROVE  RunLoad(p) \/ (AddTree(p) /\ Goto(p, "mark", cmd[p]))
<1>1. Exit(p) => at'[p] = "idle"
  BY ExitOK DEF DInv
<1>2. ASSUME NEW pt, NEW c, Begin(p, pt, c) \/ Goto(p, pt, c)
      PROVE  at'[p] = pt
  BY <1>2 DEF Begin, Goto, DInv, ProcsOK
<1>3. ~ (Load(p) /\ ~ RunLoad(p)) /\ ~ Die(p)
  <2>1. ~ RecoverStart(p) /\ ~ GateLoad(p) /\ ~ PruneLoad(p) /\ ~ IntegrateLoad(p)
    BY <1>2 DEF RecoverStart, GateLoad, PruneLoad, IntegrateLoad
  <2> QED
    BY <1>1, <2>1 DEF Load, Die
<1>4. ~ MarkRunning(p) /\ ~ Edit(p) /\ ~ Work(p) /\ ~ Commit(p) /\ ~ Decide(p) /\ ~ Finish(p)
  <2>1. ~ MarkRunning(p) /\ ~ Edit(p)
    BY <1>1 DEF MarkRunning, Edit, DInv, ProcsOK
  <2> QED
    BY <1>1, <1>2, <2>1 DEF Work, Commit, Decide, Finish
<1>5. ~ OpenGate(p)
  <2>1. OpenGate(p) => Exit(p) \/ Goto(p, "reap", cmd[p])
    BY DEF OpenGate, DInv, ProcsOK, Fits
  <2> QED
    BY <1>1, <1>2, <2>1
<1>6. ~ RemoveTree(p) /\ ~ RemoveBranch(p)
  <2>1. RemoveBranch(p) => Exit(p) \/ Goto(p, "reset", cmd[p]) \/ Goto(p, "prune", cmd[p])
    BY DEF RemoveBranch
  <2> QED
    BY <1>1, <1>2, <2>1 DEF RemoveTree
<1>7. ~ Reap(p) /\ ~ Reset(p) /\ ~ ListOrphans(p) /\ ~ PruneOrphan(p) /\ ~ RecoverEnd(p)
  <2>1. Reap(p) \/ Reset(p) =>
          \E c : Goto(p, "reap", c) \/ Goto(p, "rmtree", c) \/ Goto(p, "reset", c) \/ Goto(p, "gate", c)
    BY Zenon DEF Reap, Reset
  <2> QED
    BY <1>1, <1>2, <2>1 DEF ListOrphans, PruneOrphan, RecoverEnd
<1>8. ~ ExtendScope(p) /\ ~ Reread(p) /\ ~ Settle(p) /\ ~ ResolveJob(p)
  BY <1>1, <1>2 DEF ExtendScope, Reread, Settle, ResolveJob
<1>9. ~ Merge(p) /\ ~ Promote(p) /\ ~ ReclaimTree(p)
  BY <1>1, <1>2 DEF Merge, Promote, ReclaimTree
<1> QED
  BY <1>1, <1>3, <1>4, <1>5, <1>6, <1>7, <1>8, <1>9 DEF Acts, Step, AddTree

LEMMA OthersFresh ==
  ASSUME FInv, WInv', NEW p \in Procs, Acts(p), NEW q \in Procs \ {p}
  PROVE  FreshFits(q)'
<1> SUFFICES ASSUME at'[q] \in {"add", "mark"}  PROVE FreshFits(q)'
  BY DEF FreshFits
<1>1. at'[q] = at[q] /\ cmd'[q].job = cmd[q].job /\ cmd'[q].rev = cmd[q].rev
  BY OthersStay DEF FInv, WInv, Stays
<1>2. PICK j \in Jobs, r \in Nat : j = cmd[q].job /\ r = cmd[q].rev
  BY <1>1, WriteJobsAreJobs DEF FInv, WInv, DInv, ProcsOK, Fits, Cmds
<1>3. r <= ent[j].rev /\ ent[j].rev \in Nat
  BY <1>1, <1>2 DEF FInv, FreshFits, WInv, DInv, EntOK, Image
<1>4. \/ ent'[j] = ent[j]
      \/ ent'[j].rev = ent[j].rev + 1
  BY JobsAdvance DEF FInv, WInv, Next, Acts, JobAdvances
<1>5. CASE ent'[j] = ent[j]
  <2>1. at[q] = "mark" /\ ent[j].rev = r => ~ Working(p, j) /\ tree[j] # "dirty" /\ branch[j] # "work"
    BY <1>1, <1>2 DEF FInv, FreshFits, Current, WInv, WorkersOK
  <2>2. at[q] = "mark" /\ ent[j].rev = r => tree'[j] # "dirty" /\ branch'[j] # "work"
    BY <2>1, WorkerDirties DEF FInv, WInv
  <2> QED
    BY <1>1, <1>2, <1>3, <1>5, <2>2 DEF FInv, FreshFits, Current
<1>6. CASE ent'[j].rev = ent[j].rev + 1
  BY <1>1, <1>2, <1>3, <1>6 DEF FreshFits, Current
<1> QED
  BY <1>4, <1>5, <1>6

LEMMA ActorFresh ==
  ASSUME FInv, NEW p \in Procs, Acts(p)
  PROVE  FreshFits(p)'
<1> SUFFICES ASSUME at'[p] \in {"add", "mark"}  PROVE FreshFits(p)'
  BY DEF FreshFits
<1>1. DInv
  BY DEF FInv, WInv
<1>2. CASE RunLoad(p)
  <2>1. PICK j \in Jobs :
          /\ ent[j].st = "created"
          /\ Begin(p, IF j \in WriteJobs THEN "add" ELSE "mark",
                   [NoCmd EXCEPT !.op = "run", !.job = j, !.rev = ent[j].rev])
    BY <1>2 DEF RunLoad
  <2>2. PICK r \in Nat : r = ent[j].rev
    BY <1>1 DEF DInv, EntOK, Image
  <2>3. /\ cmd'[p] = [NoCmd EXCEPT !.op = "run", !.job = j, !.rev = r]
        /\ at'[p] = (IF j \in WriteJobs THEN "add" ELSE "mark")
    BY <1>1, <2>1, <2>2 DEF Begin, DInv, ProcsOK
  <2>4. cmd'[p].job = j /\ cmd'[p].rev = r
    BY <2>3 DEF NoCmd
  <2>5. ent' = ent /\ tree' = tree /\ branch' = branch
    BY <1>2 DEF RunLoad, git
  <2>6. at'[p] = "mark" => tree[j] = "none" /\ branch[j] = "none"
    BY <1>1, <2>3 DEF DInv, GitOK
  <2> QED
    BY <2>1, <2>2, <2>4, <2>5, <2>6 DEF FreshFits, Current
<1>3. CASE AddTree(p) /\ Goto(p, "mark", cmd[p])
  <2>1. at[p] = "add" /\ ent' = ent /\ cmd'[p] = cmd[p] /\ at'[p] = "mark" /\ cmd[p].job \in Jobs
    BY <1>1, <1>3, OpKept DEF AddTree, DInv, ProcsOK, Fits
  <2>2. tree'[cmd[p].job] = "clean" /\ branch'[cmd[p].job] = "base"
    <3>1. ~ Exit(p)
      BY <1>1, <2>1, ExitOK DEF DInv
    <3> QED
      BY <1>1, <1>3, <2>1, <3>1 DEF AddTree, DInv, GitOK
  <2> QED
    BY <2>1, <2>2 DEF FInv, FreshFits, Current
<1> QED
  BY <1>1, <1>2, <1>3, ToMark

(* Where no runtime outlives its run, there is no orphan. *)
LEMMA OrphansStay ==
  ASSUME Outliving = {}, NEW p \in Procs, Acts(p)
  PROVE  orphan' = orphan
<1>1. Load(p) \/ Work(p) \/ Die(p) => orphan' = orphan
  BY DEF Load, RunLoad, RecoverStart, GateLoad, PruneLoad, IntegrateLoad, Work, Die
<1>2. AddTree(p) \/ MarkRunning(p) \/ Edit(p) \/ Commit(p) \/ Decide(p) \/ Finish(p)
      \/ OpenGate(p) => orphan' = orphan
  BY DEF AddTree, MarkRunning, Edit, Commit, Decide, Finish, OpenGate
<1>3. RemoveTree(p) \/ RemoveBranch(p) \/ Reap(p) \/ Reset(p) \/ ListOrphans(p)
      \/ PruneOrphan(p) \/ RecoverEnd(p) => orphan' = orphan
  BY DEF RemoveTree, RemoveBranch, Reap, Reset, ListOrphans, PruneOrphan, RecoverEnd
<1>4. ExtendScope(p) \/ Reread(p) \/ Settle(p) \/ ResolveJob(p) \/ Merge(p) \/ Promote(p)
      \/ ReclaimTree(p) => orphan' = orphan
  BY DEF ExtendScope, Reread, Settle, ResolveJob, Merge, Promote, ReclaimTree
<1> QED
  BY <1>1, <1>2, <1>3, <1>4 DEF Acts, Step

LEMMA FreshKept ==
  ASSUME ApproveAvoids("recover"), Outliving = {}, FInv, [Next]_vars
  PROVE  FInv'
<1>1. WInv' /\ OpsApart'
  BY NextKeeps DEF FInv
<1>2. ASSUME NEW p \in Procs, Acts(p)
      PROVE  FInv'
  <2>1. orphan' = {}
    BY <1>2, OrphansStay DEF FInv
  <2> QED
    BY <1>1, <1>2, <2>1, OthersFresh, ActorFresh DEF FInv
<1>3. CASE UNCHANGED vars
  BY <1>1, <1>3 DEF vars, git, FInv, FreshFits, Current
<1> QED
  BY <1>2, <1>3 DEF Next, Acts, FInv, OrphanEdit, OrphanEnd

LEMMA StartsFresh ==
  ASSUME FInv, [Next]_vars, NEW j \in Jobs, ent[j].st # "running", ent'[j].st = "running"
  PROVE  tree[j] # "dirty" /\ branch[j] # "work"
<1>1. PICK p \in Procs : Acts(p)
  BY DEF Next, Acts, OrphanEdit, OrphanEnd, vars
<1>2. DInv /\ WInv
  BY DEF FInv, WInv
<1>3. CASE MarkRunning(p)
  <2>1. Current(p) /\ at[p] = "mark" /\ cmd[p].job \in Jobs
    BY <1>2, <1>3 DEF MarkRunning, DInv, ProcsOK, Fits
  <2>2. \A i \in Jobs \ {cmd[p].job} : ent'[i] = ent[i]
    BY <1>2, <1>3, <2>1, MoveJob DEF MarkRunning, JobStep, DInv
  <2> QED
    BY <2>1, <2>2 DEF FInv, FreshFits
<1>4. ~ Finish(p)
  <2>1. Finish(p) => ent'[j] = ent[j] \/ ent'[j].st = cmd[p].result
    <3>1. Finish(p) => cmd[p].job \in Jobs
      BY <1>2 DEF Finish, DInv, ProcsOK, Fits
    <3> QED
      BY <1>2, <3>1, MoveJob DEF Finish, JobStep, DInv
  <2> QED
    BY <1>2, <2>1 DEF Finish, DInv, ProcsOK, Fits
<1>5. ~ Reset(p)
  <2>1. Reset(p) => cmd[p].job \in Jobs
    BY <1>2 DEF Reset, DInv, ProcsOK, Fits
  <2> QED
    BY <1>2, <2>1, RecoverJob DEF Reset, JobStep, DInv
<1> QED
  BY <1>1, <1>2, <1>3, <1>4, <1>5, StoreSteps, OpenChanges, GateChanges, ResolveChanges DEF Decides

(* A job never starts on edits or commits of a run that was abandoned, if  *)
(* no gate is approved while a recover is under way, and no process of the *)
(* runtime outlives its run: whoever prunes, dies or decides meanwhile.    *)
THEOREM RerunIsClean ==
  ASSUME ApproveAvoids("recover"), Outliving = {}
  PROVE  Spec => CleanRerun
<1>1. Init => FInv
  BY InitKeeps DEF Init, FInv, FreshFits
<1>2. FInv /\ [Next]_vars => FInv'
  BY FreshKept
<1>3. FInv /\ [Next]_vars =>
        [\A j \in Jobs : ent[j].st # "running" /\ ent'[j].st = "running"
           => tree[j] # "dirty" /\ branch[j] # "work"]_vars
  BY StartsFresh
<1> QED
  BY <1>1, <1>2, <1>3, PTL DEF Spec, CleanRerun

-----------------------------------------------------------------------------
(* What a recover leaves that no other command overlapped *)

Closed == {"completed", "cancelled"}

(* The jobs on the list of an integrate have ended for good, and the job   *)
(* whose checkout a reject removes is cancelled.                           *)
ClosedFits(p) ==
  LET c == cmd[p]
  IN  /\ at[p] \in {"merge", "gc"} /\ c.op = "integrate" =>
           \A j \in c.todo \cup c.kept : ent[j].st \in Closed
      /\ at[p] \in {"rmtree", "rmbranch"} /\ c.op = "reject" => ent[c.job].st = "cancelled"

(* The jobs on the list of a prune have ended, and a running job that      *)
(* recover is about to reset has no branch without a checkout.             *)
PruneFits(p) ==
  at[p] = "gc" /\ cmd[p].op = "prune" => \A j \in cmd[p].todo : ent[j].st \in Prunable

ResetFits(p) ==
  LET j == cmd[p].job
  IN  at[p] = "reset" /\ ent[j].st = "running" /\ tree[j] = "none" => branch[j] = "none"

ListFits(p) == PruneFits(p) /\ ResetFits(p)

RunnersOK == \A j \in Jobs, q \in Procs : worker[j] = q => cmd[q].op = "run"

(* The branch of a created job that has no checkout is being removed.      *)
BranchOK ==
  \A j \in Jobs : ent[j].st = "created" /\ tree[j] = "none" /\ branch[j] # "none" =>
    \E q \in Procs : at[q] \in {"rmtree", "rmbranch"} /\ cmd[q].job = j

(* Recover p on its own: it still has all running jobs before it, or none  *)
(* runs and it still has all checkouts before it.                          *)
SoloFits(p) ==
  /\ cmd[p].op = "recover" /\ cmd[p].live = {} /\ cmd[p].kept = {}
  /\ \A q \in Procs \ {p} : at[q] = "idle"
  /\ \/ /\ Sweeping(p)
        /\ \A j \in Jobs : ent[j].st = "running" => j \in cmd[p].todo
     \/ /\ at[p] \in {"rmbranch", "prune"} /\ ~ Sweeping(p)
        /\ \A j \in Jobs : /\ ent[j].st # "running"
                           /\ tree[j] # "none" => j \in cmd[p].todo

AloneOK == sweep = "alone" => \E p \in Procs : SoloFits(p)
DoneOK  == sweep = "done" => SweptClean /\ \A p \in Procs : at[p] = "idle"

SInv == /\ WInv /\ OpsApart /\ \A p \in Procs : ClosedFits(p) /\ ListFits(p)
        /\ RunnersOK /\ BranchOK /\ AloneOK /\ DoneOK

(* What a process does at the points of these commands. *)
LEMMA PointActs ==
  ASSUME NEW p \in Procs, Acts(p)
  PROVE  /\ Load(p) <=> at[p] = "idle"
         /\ at[p] = "rmtree" => RemoveTree(p) \/ Die(p)
         /\ at[p] = "rmbranch" => RemoveBranch(p) \/ Die(p)
         /\ at[p] = "reap" => Reap(p) \/ ListOrphans(p) \/ Die(p)
         /\ at[p] = "reset" => Reset(p) \/ Die(p)
         /\ at[p] = "gate" => OpenGate(p) \/ Die(p)
         /\ at[p] = "prune" => PruneOrphan(p) \/ RecoverEnd(p) \/ Die(p)
<1>1. Load(p) => at[p] = "idle"
  BY Zenon DEF Load, RunLoad, RecoverStart, GateLoad, PruneLoad, IntegrateLoad, Begin
<1>2. Die(p) => at[p] # "idle"
  BY CrashAtPoints DEF Die, Points
<1>3. AddTree(p) \/ MarkRunning(p) \/ Edit(p) \/ Work(p) \/ Commit(p) \/ Decide(p) \/ Finish(p)
      => at[p] \in RunPoints
  BY DEF AddTree, MarkRunning, Edit, Work, Commit, Decide, Finish, RunPoints
<1>4. /\ RemoveTree(p) => at[p] = "rmtree"
      /\ RemoveBranch(p) => at[p] = "rmbranch"
      /\ Reap(p) \/ ListOrphans(p) => at[p] = "reap"
      /\ Reset(p) => at[p] = "reset"
      /\ OpenGate(p) => at[p] = "gate"
      /\ PruneOrphan(p) \/ RecoverEnd(p) => at[p] = "prune"
  BY DEF RemoveTree, RemoveBranch, Reap, ListOrphans, Reset, OpenGate, PruneOrphan, RecoverEnd
<1>5. ExtendScope(p) \/ Reread(p) \/ Settle(p) \/ ResolveJob(p) => at[p] \in GatePoints
  BY DEF ExtendScope, Reread, Settle, ResolveJob, GatePoints
<1>6. Merge(p) \/ Promote(p) \/ ReclaimTree(p) => at[p] \in {"merge", "gc"}
  BY DEF Merge, Promote, ReclaimTree
<1> QED
  BY <1>1, <1>2, <1>3, <1>4, <1>5, <1>6 DEF Acts, Step, RunPoints, GatePoints

(* Which step changes the status of a job, and how. *)
LEMMA StatusSteps ==
  ASSUME WInv, NEW p \in Procs, Acts(p), NEW j \in Jobs
  PROVE  \/ ent'[j].st = ent[j].st
         \/ ent[j].st = "created" /\ ent'[j].st = "running"
         \/ Finish(p) /\ ent[j].st = "running"
            /\ ent'[j].st \in {"completed", "failed", "needs-human", "timeout"}
         \/ Reset(p) /\ cmd[p].job = j /\ ent[j].st = "running"
            /\ ent'[j].st \in {"created", "needs-human"}
         \/ /\ ResolveJob(p) /\ cmd[p].job = j /\ at'[p] = "rmtree" /\ cmd'[p] = cmd[p]
            /\ \/ cmd[p].op = "reject" /\ ent'[j].st = "cancelled"
                  /\ ent[j].st \in Unfinished \cup {"completed"}
               \/ cmd[p].op = "approve" /\ ent'[j].st = "created" /\ ent[j].st \in Unfinished
<1>1. DInv
  BY DEF WInv
<1>2. CASE MarkRunning(p)
  <2>1. cmd[p].job \in Jobs
    BY <1>1, <1>2 DEF MarkRunning, DInv, ProcsOK, Fits
  <2>2. ent' = ent \/ (JobStep(cmd[p].job, "running")
                       /\ <<ent[cmd[p].job].st, "running">> \in JobLegal)
    BY <1>1, <1>2, <2>1, MoveJob DEF MarkRunning, DInv
  <2> QED
    BY <2>1, <2>2 DEF JobStep, JobLegal
<1>3. CASE Finish(p)
  <2>1. cmd[p].job \in Jobs /\ cmd[p].result \in {"completed", "failed", "needs-human", "timeout"}
    BY <1>1, <1>3 DEF Finish, DInv, ProcsOK, Fits
  <2>2. ent' = ent \/ (JobStep(cmd[p].job, cmd[p].result)
                       /\ <<ent[cmd[p].job].st, cmd[p].result>> \in JobLegal)
    BY <1>1, <1>3, <2>1, MoveJob DEF Finish, DInv
  <2> QED
    BY <1>3, <2>1, <2>2 DEF JobStep, JobLegal
<1>4. CASE Reset(p)
  <2>1. cmd[p].job \in Jobs
    BY <1>1, <1>4 DEF Reset, DInv, ProcsOK, Fits
  <2>2. \/ ent' = ent
        \/ /\ ent[cmd[p].job].st = "running"
           /\ \E to \in {"created", "needs-human"} : JobStep(cmd[p].job, to)
    BY <1>1, <1>4, <2>1, RecoverJob DEF Reset, DInv
  <2> QED
    BY <1>4, <2>1, <2>2 DEF JobStep
<1>5. CASE ResolveJob(p)
  <2>1. \A c : Goto(p, "rmtree", c) => at'[p] = "rmtree" /\ cmd'[p] = c
    BY <1>1, OpKept
  <2> QED
    BY <1>1, <1>5, <2>1, ResolveChanges
<1>6. CASE OpenGate(p)
  BY <1>6, OpenChanges
<1>7. CASE Decides(p)
  BY <1>1, <1>7, GateChanges DEF Decides
<1> QED
  BY <1>2, <1>3, <1>4, <1>5, <1>6, <1>7, StoreSteps

(* Which step removes a checkout. *)
LEMMA TreeGoes ==
  ASSUME DInv, NEW p \in Procs, Acts(p), NEW j \in Jobs, tree[j] # "none", tree'[j] = "none"
  PROVE  \/ /\ at'[p] = "rmbranch" /\ cmd'[p].job = j
            /\ \/ at[p] = "rmtree" /\ cmd[p].job = j
               \/ at[p] = "prune" /\ j \in cmd[p].todo
         \/ ReclaimTree(p) /\ at[p] = "gc" /\ j \in cmd[p].todo /\ ent' = ent
<1>1. Load(p) \/ Die(p) => UNCHANGED git
  BY DEF Load, RunLoad, RecoverStart, GateLoad, PruneLoad, IntegrateLoad, Die
<1>2. MarkRunning(p) \/ Work(p) \/ Decide(p) \/ Finish(p) \/ OpenGate(p) => UNCHANGED git
  BY DEF MarkRunning, Work, Decide, Finish, OpenGate
<1>3. Reap(p) \/ Reset(p) \/ ListOrphans(p) \/ RecoverEnd(p) => UNCHANGED git
  BY DEF Reap, Reset, ListOrphans, RecoverEnd
<1>4. ExtendScope(p) \/ Reread(p) \/ Settle(p) \/ ResolveJob(p) \/ Merge(p) \/ Promote(p)
      => UNCHANGED git
  BY DEF ExtendScope, Reread, Settle, ResolveJob, Merge, Promote
<1>5. ~ UNCHANGED git
  BY DEF git
<1>6. ~ AddTree(p) /\ ~ Edit(p) /\ ~ Commit(p) /\ ~ RemoveBranch(p)
  BY DEF AddTree, Edit, Commit, RemoveBranch, git, DInv, GitOK
<1>7. CASE RemoveTree(p)
  <2>1. cmd[p].job = j
    BY <1>7 DEF RemoveTree, DInv, GitOK
  <2>2. at'[p] = "rmbranch" /\ cmd'[p] = cmd[p] /\ at[p] = "rmtree"
    BY <1>7, OpKept DEF RemoveTree
  <2> QED
    BY <2>1, <2>2
<1>8. CASE PruneOrphan(p)
  <2>1. PICK i \in cmd[p].todo :
          /\ tree' = [tree EXCEPT ![i] = "none"]
          /\ Goto(p, "rmbranch", [cmd[p] EXCEPT !.job = i, !.todo = @ \ {i}])
    BY <1>8 DEF PruneOrphan
  <2>2. i = j
    BY <2>1 DEF DInv, GitOK
  <2>3. PICK t : t = cmd[p].todo \ {i}
    OBVIOUS
  <2>4. cmd'[p] = [cmd[p] EXCEPT !.job = i, !.todo = t] /\ at'[p] = "rmbranch"
    BY <2>1, <2>3, OpKept
  <2> QED
    BY <1>8, <2>2, <2>4 DEF PruneOrphan, DInv, ProcsOK, Cmds
<1>9. CASE ReclaimTree(p)
  BY <1>9 DEF ReclaimTree, DInv, GitOK
<1> QED
  BY <1>1, <1>2, <1>3, <1>4, <1>5, <1>6, <1>7, <1>8, <1>9 DEF Acts, Step

(* A branch is made with its checkout, or by a commit in it. *)
LEMMA BranchComes ==
  ASSUME DInv, NEW p \in Procs, Acts(p), NEW j \in Jobs, branch[j] = "none", branch'[j] # "none"
  PROVE  tree'[j] # "none"
<1>1. Load(p) \/ Die(p) => branch' = branch
  BY DEF Load, RunLoad, RecoverStart, GateLoad, PruneLoad, IntegrateLoad, Die, git
<1>2. MarkRunning(p) \/ Edit(p) \/ Work(p) \/ Decide(p) \/ Finish(p) \/ OpenGate(p)
      => branch' = branch
  BY DEF MarkRunning, Edit, Work, Decide, Finish, OpenGate, git
<1>3. Reap(p) \/ Reset(p) \/ ListOrphans(p) \/ RecoverEnd(p) \/ RemoveTree(p) \/ PruneOrphan(p)
      => branch' = branch
  BY DEF Reap, Reset, ListOrphans, RecoverEnd, RemoveTree, PruneOrphan, git
<1>4. ExtendScope(p) \/ Reread(p) \/ Settle(p) \/ ResolveJob(p) \/ Merge(p) \/ Promote(p)
      \/ ReclaimTree(p) => branch' = branch
  BY DEF ExtendScope, Reread, Settle, ResolveJob, Merge, Promote, ReclaimTree, git
<1>5. RemoveBranch(p) => branch'[j] = "none"
  BY DEF RemoveBranch, DInv, GitOK
<1>6. CASE AddTree(p) \/ Commit(p)
  BY <1>6 DEF AddTree, Commit, git, DInv, GitOK
<1> QED
  BY <1>1, <1>2, <1>3, <1>4, <1>5, <1>6 DEF Acts, Step

LEMMA OthersClosed ==
  ASSUME WInv, NEW p \in Procs, Acts(p), NEW q \in Procs \ {p}, ClosedFits(q)
  PROVE  ClosedFits(q)'
<1>1. DInv
  BY DEF WInv
<1>2. /\ at'[q] = at[q] /\ cmd'[q].op = cmd[q].op /\ cmd'[q].job = cmd[q].job
      /\ cmd'[q].todo = cmd[q].todo /\ cmd'[q].kept = cmd[q].kept
  BY <1>1, OthersStay DEF Stays
<1>3. cmd[q].todo \subseteq Jobs /\ cmd[q].kept \subseteq Jobs
  BY <1>1 DEF DInv, ProcsOK, Cmds
<1>4. ASSUME at[q] \in {"merge", "gc"}, cmd[q].op = "integrate",
             NEW j \in cmd[q].todo \cup cmd[q].kept
      PROVE  ent'[j].st \in Closed
  <2>1. ent[j].st \in Closed
    BY <1>4 DEF ClosedFits
  <2> QED
    BY <1>3, <1>4, <2>1, StatusSteps DEF Closed, Unfinished
<1>5. ASSUME at[q] \in {"rmtree", "rmbranch"}, cmd[q].op = "reject"
      PROVE  ent'[cmd[q].job].st = "cancelled"
  <2>1. ent[cmd[q].job].st = "cancelled" /\ cmd[q].job \in Jobs
    BY <1>1, <1>5 DEF ClosedFits, DInv, ProcsOK, Fits
  <2> QED
    BY <2>1, StatusSteps DEF Unfinished
<1> QED
  BY <1>2, <1>4, <1>5 DEF ClosedFits

LEMMA OthersPrune ==
  ASSUME ApproveAvoids("prune"), WInv, OpsApart, NEW p \in Procs, Acts(p),
         NEW q \in Procs \ {p}, PruneFits(q)
  PROVE  PruneFits(q)'
<1>1. DInv
  BY DEF WInv
<1>2. at'[q] = at[q] /\ cmd'[q].op = cmd[q].op /\ cmd'[q].todo = cmd[q].todo
  BY <1>1, OthersStay DEF Stays
<1>3. cmd[q].todo \subseteq Jobs
  BY <1>1 DEF DInv, ProcsOK, Cmds
<1>4. ASSUME at[q] = "gc", cmd[q].op = "prune", NEW j \in cmd[q].todo
      PROVE  ent'[j].st \in Prunable
  <2>1. cmd[p].op # "approve"
    BY <1>1, <1>4, ApproveAway
  <2>2. ent[j].st \in Prunable
    BY <1>4 DEF PruneFits
  <2> QED
    BY <1>3, <1>4, <2>1, <2>2, StatusSteps DEF Prunable
<1> QED
  BY <1>2, <1>4 DEF PruneFits

LEMMA OthersList ==
  ASSUME ApproveAvoids("recover"), ApproveAvoids("prune"), SInv, NEW p \in Procs, Acts(p),
         NEW q \in Procs \ {p}
  PROVE  ListFits(q)'
<1>1. WInv /\ DInv /\ ListFits(q) /\ OpsApart
  BY DEF SInv, WInv
<1>2. /\ at'[q] = at[q] /\ cmd'[q].op = cmd[q].op /\ cmd'[q].job = cmd[q].job
      /\ cmd'[q].todo = cmd[q].todo /\ cmd'[q].kept = cmd[q].kept
  BY <1>1, OthersStay DEF Stays
<1>3. cmd[q].todo \subseteq Jobs /\ cmd[q].kept \subseteq Jobs
  BY <1>1 DEF DInv, ProcsOK, Cmds
<1>4. PruneFits(q)'
  BY <1>1, OthersPrune DEF ListFits
<1>5. ASSUME at[q] = "reset", ent'[cmd[q].job].st = "running", tree'[cmd[q].job] = "none"
      PROVE  branch'[cmd[q].job] = "none"
  <2>1. PICK j \in Jobs : j = cmd[q].job
    BY <1>1, <1>5 DEF DInv, ProcsOK, Fits
  <2>2. cmd[q].op = "recover"
    BY <1>1, <1>5 DEF DInv, ProcsOK, Fits
  <2>3. ent[j].st # "created"
    BY <1>1, <1>5, <2>1, <2>2 DEF WInv, SweepFits, Sweeping
  <2>4. ent[j].st = "running"
    BY <1>1, <1>5, <2>1, <2>3, StatusSteps
  <2>5. tree[j] = "none"
    <3> SUFFICES ASSUME tree[j] # "none"  PROVE FALSE
      OBVIOUS
    <3>1. cmd[p].op # "recover" /\ cmd[p].op # "approve"
      BY <1>1, <2>2, OneSweep, ApproveAway
    <3>2. CASE at[p] = "rmtree" /\ cmd[p].job = j
      <4>1. cmd[p].op = "reject" /\ ClosedFits(p)
        BY <1>1, <3>1, <3>2 DEF SInv, DInv, ProcsOK, Fits
      <4> QED
        BY <2>4, <3>2, <4>1 DEF ClosedFits
    <3>3. CASE at[p] = "prune"
      BY <1>1, <3>1, <3>3 DEF DInv, ProcsOK, Fits
    <3>4. CASE at[p] = "gc" /\ j \in cmd[p].todo
      <4>1. cmd[p].op \in {"prune", "integrate"} /\ ClosedFits(p) /\ ListFits(p)
        BY <1>1, <3>4 DEF SInv, DInv, ProcsOK, Fits
      <4> QED
        BY <2>4, <3>4, <4>1 DEF ClosedFits, ListFits, PruneFits, Prunable, Closed
    <3> QED
      BY <1>1, <1>5, <2>1, <3>2, <3>3, <3>4, TreeGoes
  <2>6. branch[j] = "none"
    BY <1>1, <1>5, <2>1, <2>4, <2>5 DEF ListFits, ResetFits
  <2> QED
    BY <1>1, <1>5, <2>1, <2>6, BranchComes
<1> QED
  BY <1>2, <1>4, <1>5 DEF ListFits, ResetFits

ListPoints == {"gc", "merge", "rmtree", "rmbranch", "reset"}

LEMMA ActorList ==
  ASSUME WInv, NEW p \in Procs, Acts(p), ClosedFits(p)
  PROVE  ClosedFits(p)' /\ (PruneFits(p) => PruneFits(p)') /\ ResetFits(p)'
<1> SUFFICES ASSUME at'[p] \in ListPoints
             PROVE  ClosedFits(p)' /\ (PruneFits(p) => PruneFits(p)') /\ ResetFits(p)'
  BY DEF ClosedFits, PruneFits, ResetFits, ListPoints
<1>1. DInv /\ ClosedFits(p) /\ Fits(at[p], cmd[p]) /\ cmd[p] \in Cmds
  BY DEF WInv, DInv, ProcsOK
<1>2. ASSUME NEW pt, NEW c, Begin(p, pt, c) \/ Goto(p, pt, c)
      PROVE  at'[p] = pt /\ cmd'[p] = c
  BY <1>1, <1>2 DEF Begin, Goto, DInv, ProcsOK
<1>3. ~ Exit(p)
  BY <1>1, ExitOK DEF ListPoints, DInv
<1>4. CASE Load(p)
  <2>1. ent' = ent
    BY <1>4 DEF Load, RunLoad, RecoverStart, GateLoad, PruneLoad, IntegrateLoad
  <2>2. ~ RunLoad(p) /\ ~ RecoverStart(p) /\ ~ GateLoad(p)
    <3>1. ~ RunLoad(p)
      BY <1>1 DEF RunLoad, Begin, ListPoints, DInv, ProcsOK
    <3>2. ~ RecoverStart(p)
      BY <1>2 DEF RecoverStart, ListPoints
    <3>3. ~ GateLoad(p)
      BY <1>2 DEF GateLoad, ListPoints
    <3> QED
      BY <3>1, <3>2, <3>3
  <2>3. CASE PruneLoad(p)
    <3>1. PICK t : t = {j \in WriteJobs : ent[j].st \in Prunable}
      OBVIOUS
    <3>2. at'[p] = "gc" /\ cmd'[p] = [NoCmd EXCEPT !.op = "prune", !.todo = t]
      BY <1>2, <2>3, <3>1 DEF PruneLoad
    <3> QED
      BY <2>1, <3>1, <3>2 DEF ClosedFits, PruneFits, ResetFits, NoCmd
  <2>4. CASE IntegrateLoad(p)
    <3>1. PICK t : t = {j \in WriteJobs : ent[j].st = "completed"}
      OBVIOUS
    <3>2. at'[p] = "merge" /\ cmd'[p] = [NoCmd EXCEPT !.op = "integrate", !.todo = t]
      BY <1>2, <2>4, <3>1 DEF IntegrateLoad
    <3> QED
      BY <2>1, <3>1, <3>2 DEF ClosedFits, PruneFits, ResetFits, NoCmd, Closed
  <2> QED
    BY <1>4, <2>2, <2>3, <2>4 DEF Load
<1>5. ~ AddTree(p) /\ ~ MarkRunning(p) /\ ~ Edit(p) /\ ~ Work(p) /\ ~ Commit(p) /\ ~ Decide(p)
      /\ ~ Finish(p)
  <2>1. ~ MarkRunning(p)
    BY <1>1, <1>3 DEF MarkRunning, ListPoints, DInv, ProcsOK
  <2>2. ~ Edit(p)
    BY DEF Edit, ListPoints
  <2>3. AddTree(p) \/ Work(p) \/ Finish(p) =>
          Exit(p) \/ \E c : Goto(p, "mark", c) \/ Goto(p, "commit", c) \/ Goto(p, "gate", c)
    BY Zenon DEF AddTree, Work, Finish
  <2>4. Commit(p) \/ Decide(p) => \E c : Goto(p, "decide", c) \/ Goto(p, "finish", c)
    BY Zenon DEF Commit, Decide
  <2> QED
    BY <1>2, <1>3, <2>1, <2>2, <2>3, <2>4 DEF ListPoints
<1>6. ~ OpenGate(p) /\ ~ ListOrphans(p) /\ ~ RecoverEnd(p) /\ ~ Reset(p)
  <2>1. OpenGate(p) => Goto(p, "reap", cmd[p])
    BY <1>1, <1>3 DEF OpenGate, Fits
  <2>2. Reset(p) => \E c : Goto(p, "gate", c) \/ Goto(p, "reap", c)
    BY Zenon DEF Reset
  <2> QED
    BY <1>2, <1>3, <2>1, <2>2 DEF ListOrphans, RecoverEnd, ListPoints
<1>7. ~ ExtendScope(p) /\ ~ Reread(p) /\ ~ Settle(p) /\ ~ Die(p)
  BY <1>2, <1>3 DEF ExtendScope, Reread, Settle, Die, ListPoints
<1>8. CASE RemoveTree(p)
  <2>1. at[p] = "rmtree" /\ ent' = ent /\ at'[p] = "rmbranch" /\ cmd'[p] = cmd[p]
    BY <1>2, <1>8 DEF RemoveTree
  <2> QED
    BY <1>1, <2>1 DEF ClosedFits, PruneFits, ResetFits
<1>9. CASE RemoveBranch(p)
  <2>1. Goto(p, "reset", cmd[p]) \/ Goto(p, "prune", cmd[p])
    BY <1>3, <1>9 DEF RemoveBranch
  <2>2. at'[p] = "reset" /\ cmd'[p] = cmd[p]
    BY <1>2, <2>1 DEF ListPoints
  <2>3. cmd[p].job \in Jobs
    BY <1>1, <1>9 DEF RemoveBranch, Fits
  <2>4. tree'[cmd[p].job] = "none" => branch'[cmd[p].job] = "none"
    BY <1>1, <1>9, <2>3 DEF RemoveBranch, DInv, GitOK
  <2> QED
    BY <2>2, <2>4 DEF ClosedFits, PruneFits, ResetFits
<1>10. CASE PruneOrphan(p)
  <2>1. PICK c : Goto(p, "rmbranch", c)
    BY <1>10 DEF PruneOrphan
  <2>2. cmd[p].op = "recover"
    BY <1>1, <1>10 DEF PruneOrphan, Fits
  <2>3. cmd'[p].op = cmd[p].op
    BY <1>1, <1>3, <1>10, OpStays, PointActs DEF PruneOrphan
  <2> QED
    BY <1>2, <2>1, <2>2, <2>3 DEF ClosedFits, PruneFits, ResetFits
<1>11. CASE Reap(p)
  <2>1. PICK j \in cmd[p].todo, pt \in {"reap", "rmtree", "reset"} :
          /\ \E c : Goto(p, pt, c)
          /\ pt = "reset" => j \notin WriteJobs /\ Goto(p, pt, [cmd[p] EXCEPT !.job = j])
    BY <1>11 DEF Reap
  <2>2. UNCHANGED git /\ cmd[p].op = "recover"
    BY <1>1, <1>11 DEF Reap, Fits
  <2>3. cmd'[p].op = cmd[p].op
    BY <1>1, <1>3, <1>11, OpStays, PointActs DEF Reap
  <2>4. at'[p] = pt
    BY <1>2, <2>1
  <2>5. CASE pt = "rmtree"
    BY <2>2, <2>3, <2>4, <2>5 DEF ClosedFits, PruneFits, ResetFits
  <2>6. CASE pt = "reset"
    <3>1. cmd'[p] = [cmd[p] EXCEPT !.job = j] /\ j \in Jobs \ WriteJobs
      BY <1>1, <1>2, <2>1, <2>6 DEF Cmds
    <3>2. cmd'[p].job = j
      BY <1>1, <3>1 DEF Cmds
    <3> QED
      BY <1>1, <2>2, <2>4, <2>6, <3>1, <3>2 DEF ClosedFits, PruneFits, ResetFits, git, DInv, GitOK
  <2> QED
    BY <2>4, <2>5, <2>6 DEF ListPoints
<1>12. CASE ResolveJob(p)
  <2>1. at'[p] = "rmtree" /\ cmd'[p] = cmd[p]
        /\ (cmd[p].op = "reject" => ent'[cmd[p].job].st = "cancelled")
    BY <1>1, <1>2, <1>3, <1>12, ResolveChanges
  <2> QED
    BY <2>1 DEF ClosedFits, PruneFits, ResetFits
<1>13. CASE Merge(p)
  <2>1. PICK j \in cmd[p].todo :
          \/ \E c : Goto(p, "gate", c)
          \/ Goto(p, "merge", [cmd[p] EXCEPT !.todo = @ \ {j}, !.kept = @ \cup {j}])
    BY <1>13, Zenon DEF Merge
  <2>2. PICK t, k : t = cmd[p].todo \ {j} /\ k = cmd[p].kept \cup {j}
    OBVIOUS
  <2>3. at'[p] = "merge" /\ cmd'[p] = [cmd[p] EXCEPT !.todo = t, !.kept = k]
    BY <1>2, <2>1, <2>2 DEF ListPoints
  <2>4. cmd'[p].todo = t /\ cmd'[p].kept = k /\ cmd'[p].op = cmd[p].op
    BY <1>1, <2>3 DEF Cmds
  <2>5. at[p] = "merge" /\ ent' = ent
    BY <1>13 DEF Merge
  <2> QED
    BY <1>1, <2>2, <2>3, <2>4, <2>5 DEF ClosedFits, PruneFits, ResetFits
<1>14. CASE Promote(p)
  <2>1. PICK k : k = cmd[p].kept
    OBVIOUS
  <2>2. at'[p] = "gc" /\ cmd'[p] = [cmd[p] EXCEPT !.todo = k]
    BY <1>2, <1>3, <1>14, <2>1 DEF Promote
  <2>3. cmd'[p].todo = k /\ cmd'[p].kept = k /\ cmd'[p].op = "integrate" /\ cmd[p].op = "integrate"
    BY <1>1, <1>14, <2>1, <2>2 DEF Cmds, Promote, Fits
  <2>4. at[p] = "merge" /\ ent' = ent
    BY <1>14 DEF Promote
  <2> QED
    BY <1>1, <2>1, <2>2, <2>3, <2>4 DEF ClosedFits, PruneFits, ResetFits
<1>15. CASE ReclaimTree(p)
  <2>1. PICK j \in cmd[p].todo : Goto(p, "gc", [cmd[p] EXCEPT !.todo = @ \ {j}])
    BY <1>3, <1>15 DEF ReclaimTree
  <2>2. PICK t : t = cmd[p].todo \ {j}
    OBVIOUS
  <2>3. at'[p] = "gc" /\ cmd'[p] = [cmd[p] EXCEPT !.todo = t]
    BY <1>2, <2>1, <2>2
  <2>4. cmd'[p].todo = t /\ cmd'[p].kept = cmd[p].kept /\ cmd'[p].op = cmd[p].op
    BY <1>1, <2>3 DEF Cmds
  <2>5. at[p] = "gc" /\ ent' = ent
    BY <1>15 DEF ReclaimTree
  <2> QED
    BY <1>1, <2>2, <2>3, <2>4, <2>5 DEF ClosedFits, PruneFits, ResetFits
<1> QED
  BY <1>4, <1>5, <1>6, <1>7, <1>8, <1>9, <1>10, <1>11, <1>12, <1>13, <1>14, <1>15 DEF Acts, Step

(* A worker is a process that runs a job. *)
LEMMA RunnersKept ==
  ASSUME DInv, RunnersOK, NEW p \in Procs, Acts(p)
  PROVE  RunnersOK'
<1>1. \A q \in Procs \ {p} : cmd'[q].op = cmd[q].op
  BY OthersStay DEF Stays
<1>2. CASE Exit(p)
  <2>1. \A j \in Jobs : worker'[j] = IF worker[j] = p THEN None ELSE worker[j]
    BY <1>2 DEF Exit
  <2> QED
    BY <1>1, <2>1, NoneIsNoProc DEF RunnersOK
<1>3. CASE Load(p)
  <2>1. worker' = worker
    BY <1>3 DEF Load, RunLoad, RecoverStart, GateLoad, PruneLoad, IntegrateLoad
  <2>2. cmd[p].op # "run"
    BY <1>3, PointActs, NoCmdFits, NoneIsNoCommand DEF DInv, ProcsOK, Fits, AllCommands
  <2> QED
    BY <1>1, <2>1, <2>2 DEF RunnersOK
<1>4. CASE MarkRunning(p) /\ ~ Exit(p)
  <2>1. cmd[p].op = "run" /\ cmd'[p].op = "run"
    BY <1>4, OpStays, PointActs DEF MarkRunning, DInv, ProcsOK, Fits, RunPoints
  <2>2. \A j \in Jobs : worker'[j] \in {p, worker[j]}
    BY <1>4 DEF MarkRunning, DInv, ProcsOK
  <2> QED
    BY <1>1, <2>1, <2>2 DEF RunnersOK
<1>5. CASE ~ Exit(p) /\ ~ Load(p) /\ ~ MarkRunning(p)
  <2>1. cmd'[p].op = cmd[p].op
    BY <1>5, OpStays
  <2>2. worker' = worker
    <3>1. AddTree(p) \/ Edit(p) \/ Work(p) \/ Commit(p) \/ Decide(p) \/ Finish(p)
          => worker' = worker
      BY <1>5 DEF AddTree, Edit, Work, Commit, Decide, Finish, Goto
    <3>2. OpenGate(p) => worker' = worker
      BY <1>5 DEF OpenGate, Goto, DInv, ProcsOK, Fits
    <3>3. RemoveTree(p) \/ RemoveBranch(p) \/ Reap(p) \/ Reset(p) \/ ListOrphans(p)
          \/ PruneOrphan(p) \/ RecoverEnd(p) => worker' = worker
      BY <1>5 DEF RemoveTree, RemoveBranch, Reap, Reset, ListOrphans, PruneOrphan, RecoverEnd, Goto
    <3>4. ExtendScope(p) \/ Reread(p) \/ Settle(p) \/ ResolveJob(p) \/ Merge(p) \/ Promote(p)
          \/ ReclaimTree(p) => worker' = worker
      BY <1>5 DEF ExtendScope, Reread, Settle, ResolveJob, Merge, Promote, ReclaimTree, Goto
    <3> QED
      BY <1>5, <3>1, <3>2, <3>3, <3>4 DEF Acts, Step, Die
  <2> QED
    BY <1>1, <2>1, <2>2 DEF RunnersOK
<1> QED
  BY <1>2, <1>3, <1>4, <1>5

LEMMA BranchKept ==
  ASSUME CrashAt \cap {"rmtree", "rmbranch"} = {}, SInv, NEW p \in Procs, Acts(p)
  PROVE  BranchOK'
<1>1. DInv /\ WInv /\ ClosedFits(p) /\ ListFits(p)
  BY DEF SInv, WInv
<1>2. ASSUME NEW j \in Jobs, ent'[j].st = "created", tree'[j] = "none", branch'[j] # "none"
      PROVE  \E q \in Procs : at'[q] \in {"rmtree", "rmbranch"} /\ cmd'[q].job = j
  <2>1. branch[j] # "none"
    BY <1>1, <1>2, BranchComes
  <2>2. CASE tree[j] # "none"
    <3>1. ~ (at[p] = "gc" /\ j \in cmd[p].todo /\ ent' = ent)
      BY <1>1, <1>2 DEF ClosedFits, ListFits, PruneFits, Prunable, Closed, DInv, ProcsOK, Fits
    <3> QED
      BY <1>1, <1>2, <2>2, <3>1, TreeGoes
  <2>3. CASE tree[j] = "none" /\ ent[j].st = "created"
    <3>1. PICK q \in Procs : at[q] \in {"rmtree", "rmbranch"} /\ cmd[q].job = j
      BY <2>1, <2>3 DEF SInv, BranchOK
    <3>2. CASE q # p
      BY <1>1, <3>1, <3>2, OthersStay DEF Stays
    <3>3. CASE q = p
      <4>1. RemoveTree(p) \/ RemoveBranch(p)
        BY <3>1, <3>3, PointActs DEF Die
      <4>2. ~ RemoveBranch(p)
        BY <1>1, <1>2, <2>3, <3>1, <3>3 DEF RemoveBranch, DInv, GitOK
      <4>3. at'[p] = "rmbranch" /\ cmd'[p] = cmd[p]
        BY <1>1, <4>1, <4>2, OpKept DEF RemoveTree
      <4> QED
        BY <3>1, <3>3, <4>3
    <3> QED
      BY <3>2, <3>3
  <2>4. CASE tree[j] = "none" /\ ent[j].st # "created"
    <3>1. ~ Reset(p) \/ cmd[p].job # j \/ ent[j].st # "running"
      BY <1>1, <2>1, <2>4 DEF Reset, ListFits, ResetFits
    <3> QED
      BY <1>1, <1>2, <2>4, <3>1, StatusSteps
  <2> QED
    BY <2>2, <2>3, <2>4
<1> QED
  BY <1>2 DEF BranchOK

(* The history variable moves when a command begins or ends. *)
LEMMA SweepMoves ==
  ASSUME DInv, NEW p \in Procs, Acts(p), ~ Load(p), ~ Exit(p)
  PROVE  sweep' = sweep
<1>1. AddTree(p) \/ MarkRunning(p) \/ Edit(p) \/ Work(p) \/ Commit(p) \/ Decide(p) \/ Finish(p)
      => sweep' = sweep
  BY DEF AddTree, MarkRunning, Edit, Work, Commit, Decide, Finish, Goto
<1>2. OpenGate(p) => sweep' = sweep
  BY DEF OpenGate, Goto, DInv, ProcsOK, Fits
<1>3. RemoveTree(p) \/ RemoveBranch(p) \/ Reap(p) \/ Reset(p) \/ ListOrphans(p)
      \/ PruneOrphan(p) \/ RecoverEnd(p) => sweep' = sweep
  BY DEF RemoveTree, RemoveBranch, Reap, Reset, ListOrphans, PruneOrphan, RecoverEnd, Goto
<1>4. ExtendScope(p) \/ Reread(p) \/ Settle(p) \/ ResolveJob(p) \/ Merge(p) \/ Promote(p)
      \/ ReclaimTree(p) => sweep' = sweep
  BY DEF ExtendScope, Reread, Settle, ResolveJob, Merge, Promote, ReclaimTree, Goto
<1> QED
  BY <1>1, <1>2, <1>3, <1>4 DEF Acts, Step, Die

(* A recover begins alone: nobody works, so no stamp names a live process. *)
LEMMA SoloBegins ==
  ASSUME SInv, NEW p \in Procs, Load(p), sweep' = "alone"
  PROVE  SoloFits(p)'
<1>1. DInv
  BY DEF SInv, WInv
<1>2. RecoverStart(p) /\ Alone(p)
  BY DEF Load, RunLoad, RecoverStart, GateLoad, PruneLoad, IntegrateLoad
<1>3. \A q \in Procs : cmd[q].op # "run"
  <2>1. \A q \in Procs : at[q] = "idle"
    BY <1>2, PointActs DEF Alone, Acts
  <2> QED
    BY <1>1, <2>1, NoCmdFits, NoneIsNoCommand DEF DInv, ProcsOK, Fits, AllCommands
<1>4. \A j \in Jobs : worker[j] = None
  BY <1>1, <1>3 DEF SInv, RunnersOK, DInv, ProcsOK
<1> DEFINE running == {j \in Jobs : ent[j].st = "running"}
           alive == {j \in running : worker[j] # None}
<1>5. Begin(p, "reap", [NoCmd EXCEPT !.op = "recover", !.todo = running, !.live = alive])
  BY <1>2 DEF RecoverStart
<1>6. alive = {}
  BY <1>4
<1>7. PICK t : t = running
  OBVIOUS
<1>8. /\ cmd'[p] = [NoCmd EXCEPT !.op = "recover", !.todo = t, !.live = {}] /\ at'[p] = "reap"
      /\ \A q \in Procs \ {p} : at'[q] = at[q]
  BY <1>1, <1>5, <1>6, <1>7 DEF Begin, DInv, ProcsOK
<1>9. /\ cmd'[p].op = "recover" /\ cmd'[p].todo = t /\ cmd'[p].live = {} /\ cmd'[p].kept = {}
  BY <1>8 DEF NoCmd
<1>10. ent' = ent
  BY <1>2 DEF RecoverStart
<1> QED
  BY <1>2, <1>7, <1>8, <1>9, <1>10 DEF SoloFits, Sweeping, Alone

LEMMA SoloStep ==
  ASSUME SInv, NEW p \in Procs, SoloFits(p), Acts(p), ~ Load(p), ~ Exit(p)
  PROVE  SoloFits(p)'
<1>1. DInv /\ WInv /\ Fits(at[p], cmd[p]) /\ cmd[p] \in Cmds
  BY DEF SInv, WInv, DInv, ProcsOK
<1>2. \A q \in Procs \ {p} : at'[q] = "idle"
  BY <1>1, OthersStay DEF SoloFits, Stays
<1>3. ASSUME NEW pt, NEW c, Goto(p, pt, c)
      PROVE  at'[p] = pt /\ cmd'[p] = c
  BY <1>1, <1>3, OpKept
<1>4. CASE at[p] = "reap"
  <2>1. Sweeping(p) /\ \A j \in Jobs : ent[j].st = "running" => j \in cmd[p].todo
    BY <1>4 DEF SoloFits
  <2>2. CASE Reap(p)
    <3>1. PICK j \in cmd[p].todo, pt \in {"rmtree", "reset"} : Goto(p, pt, [cmd[p] EXCEPT !.job = j])
      BY <2>2 DEF Reap, Alive, SoloFits
    <3>2. at'[p] = pt /\ cmd'[p] = [cmd[p] EXCEPT !.job = j]
      BY <1>3, <3>1
    <3>3. /\ cmd'[p].op = cmd[p].op /\ cmd'[p].todo = cmd[p].todo
          /\ cmd'[p].live = cmd[p].live /\ cmd'[p].kept = cmd[p].kept
      BY <1>1, <3>2 DEF Cmds
    <3>4. ent' = ent
      BY <2>2 DEF Reap
    <3> QED
      BY <1>2, <2>1, <3>2, <3>3, <3>4 DEF SoloFits, Sweeping
  <2>3. CASE ListOrphans(p)
    <3>1. PICK t : t = Orphans(p)
      OBVIOUS
    <3>2. at'[p] = "prune" /\ cmd'[p] = [cmd[p] EXCEPT !.todo = t]
      BY <1>3, <2>3, <3>1 DEF ListOrphans
    <3>3. /\ cmd'[p].op = cmd[p].op /\ cmd'[p].todo = t
          /\ cmd'[p].live = cmd[p].live /\ cmd'[p].kept = cmd[p].kept
      BY <1>1, <3>2 DEF Cmds
    <3>4. ent' = ent /\ tree' = tree /\ cmd[p].todo = {}
      BY <2>3 DEF ListOrphans, git
    <3>5. \A j \in Jobs : tree[j] # "none" => j \in t
      BY <3>1 DEF Orphans, SoloFits
    <3> QED
      BY <1>2, <2>1, <3>2, <3>3, <3>4, <3>5 DEF SoloFits, Sweeping
  <2> QED
    BY <1>4, <2>2, <2>3, PointActs DEF Die
<1>5. CASE at[p] = "rmtree"
  <2>1. RemoveTree(p)
    BY <1>5, PointActs DEF Die
  <2>2. at'[p] = "rmbranch" /\ cmd'[p] = cmd[p] /\ ent' = ent
    BY <1>3, <2>1 DEF RemoveTree
  <2>3. cmd[p].job \in cmd[p].todo
    BY <1>1, <1>5 DEF SoloFits, WInv, SweepFits, Sweeping
  <2> QED
    BY <1>2, <1>5, <2>2, <2>3 DEF SoloFits, Sweeping
<1>6. CASE at[p] = "rmbranch"
  <2>1. RemoveBranch(p)
    BY <1>6, PointActs DEF Die
  <2>2. \/ cmd[p].job \in cmd[p].todo /\ Goto(p, "reset", cmd[p])
        \/ cmd[p].job \notin cmd[p].todo /\ Goto(p, "prune", cmd[p])
    BY <2>1 DEF RemoveBranch, SoloFits
  <2>3. cmd'[p] = cmd[p] /\ \/ cmd[p].job \in cmd[p].todo /\ at'[p] = "reset"
                            \/ cmd[p].job \notin cmd[p].todo /\ at'[p] = "prune"
    BY <1>3, <2>2
  <2>4. ent' = ent /\ tree' = tree
    BY <2>1 DEF RemoveBranch
  <2> QED
    BY <1>2, <1>6, <2>3, <2>4 DEF SoloFits, Sweeping
<1>7. CASE at[p] = "reset"
  <2>1. Reset(p)
    BY <1>7, PointActs DEF Die
  <2>2. PICK j \in Jobs : j = cmd[p].job
    BY <1>1, <1>7 DEF Fits
  <2>3. PICK t : t = cmd[p].todo \ {j}
    OBVIOUS
  <2>4. at'[p] \in {"gate", "reap"} /\ cmd'[p] = [cmd[p] EXCEPT !.todo = t]
    BY <1>3, <2>1, <2>2, <2>3 DEF Reset
  <2>5. /\ cmd'[p].op = cmd[p].op /\ cmd'[p].todo = t
        /\ cmd'[p].live = cmd[p].live /\ cmd'[p].kept = cmd[p].kept
    BY <1>1, <2>4 DEF Cmds
  <2>6. /\ ent'[j].st # "running"
        /\ \A i \in Jobs \ {j} : ent'[i] = ent[i]
    BY <1>1, <2>1, <2>2, RecoverJob DEF Reset, JobStep, DInv
  <2>7. \A i \in Jobs : ent[i].st = "running" => i \in cmd[p].todo
    BY <1>7 DEF SoloFits
  <2> QED
    BY <1>2, <2>3, <2>4, <2>5, <2>6, <2>7 DEF SoloFits, Sweeping
<1>8. CASE at[p] = "gate"
  <2>1. OpenGate(p)
    BY <1>8, PointActs DEF Die
  <2>2. Goto(p, "reap", cmd[p])
    BY <2>1 DEF OpenGate, SoloFits
  <2>3. at'[p] = "reap" /\ cmd'[p] = cmd[p]
    BY <1>3, <2>2
  <2>4. \A j \in Jobs : ent'[j] = ent[j]
    BY <1>1, <2>1, OpenChanges
  <2> QED
    BY <1>2, <1>8, <2>3, <2>4 DEF SoloFits, Sweeping
<1>9. CASE at[p] = "prune"
  <2>1. PruneOrphan(p)
    BY <1>9, PointActs DEF Die, RecoverEnd
  <2>2. PICK j \in cmd[p].todo :
          /\ tree' = [tree EXCEPT ![j] = "none"]
          /\ Goto(p, "rmbranch", [cmd[p] EXCEPT !.job = j, !.todo = @ \ {j}])
    BY <2>1 DEF PruneOrphan
  <2>3. PICK t : t = cmd[p].todo \ {j}
    OBVIOUS
  <2>4. at'[p] = "rmbranch" /\ cmd'[p] = [cmd[p] EXCEPT !.job = j, !.todo = t]
    BY <1>3, <2>2, <2>3
  <2>5. /\ cmd'[p].op = cmd[p].op /\ cmd'[p].todo = t /\ cmd'[p].job = j
        /\ cmd'[p].live = cmd[p].live /\ cmd'[p].kept = cmd[p].kept
    BY <1>1, <2>4 DEF Cmds
  <2>6. ent' = ent /\ \A i \in Jobs : tree'[i] # "none" => tree[i] # "none" /\ i # j
    BY <1>1, <2>1, <2>2 DEF PruneOrphan, DInv, GitOK
  <2>7. \A i \in Jobs : ent[i].st # "running" /\ (tree[i] # "none" => i \in cmd[p].todo)
    BY <1>9 DEF SoloFits, Sweeping
  <2> QED
    BY <1>2, <2>3, <2>4, <2>5, <2>6, <2>7 DEF SoloFits, Sweeping
<1> QED
  BY <1>4, <1>5, <1>6, <1>7, <1>8, <1>9 DEF SoloFits, Sweeping

LEMMA AloneKept == ASSUME SInv, NEW p \in Procs, Acts(p)  PROVE AloneOK'
<1> SUFFICES ASSUME sweep' = "alone"  PROVE \E r \in Procs : SoloFits(r)'
  BY DEF AloneOK
<1>1. CASE Load(p)
  BY <1>1, SoloBegins
<1>2. CASE ~ Load(p)
  <2>1. sweep = "alone"
    BY <1>2, SweepMoves DEF Exit, SInv, WInv
  <2>2. PICK r \in Procs : SoloFits(r)
    BY <2>1 DEF SInv, AloneOK
  <2>3. r = p
    BY <1>2, <2>2, PointActs DEF SoloFits
  <2>4. ~ Exit(p)
    BY <2>2, <2>3 DEF Exit, SoloFits
  <2> QED
    BY <1>2, <2>2, <2>3, <2>4, SoloStep
<1> QED
  BY <1>1, <1>2

(* It ends with nothing before it; and until a command begins, nothing     *)
(* changes.                                                                *)
LEMMA DoneKept == ASSUME SInv, NEW p \in Procs, Acts(p)  PROVE DoneOK'
<1> SUFFICES ASSUME sweep' = "done"  PROVE SweptClean' /\ \A q \in Procs : at'[q] = "idle"
  BY DEF DoneOK
<1>1. DInv
  BY DEF SInv, WInv
<1>2. ~ Load(p)
  BY DEF Load, RunLoad, RecoverStart, GateLoad, PruneLoad, IntegrateLoad
<1>3. sweep # "done"
  BY <1>2, PointActs DEF SInv, DoneOK
<1>4. Exit(p)
  BY <1>1, <1>2, <1>3, SweepMoves
<1>5. sweep = "alone" /\ at[p] = "prune" /\ cmd[p].todo = {}
  BY <1>3, <1>4 DEF Exit
<1>6. PICK r \in Procs : SoloFits(r)
  BY <1>5 DEF SInv, AloneOK
<1>7. SoloFits(p)
  BY <1>5, <1>6 DEF SoloFits
<1>8. at'[p] = "idle" /\ \A q \in Procs \ {p} : at'[q] = "idle"
  BY <1>1, <1>4, <1>7, ExitOK, OthersStay DEF SoloFits, Stays, DInv
<1>9. UNCHANGED <<ent, tree, branch>>
  BY <1>5, PointActs DEF PruneOrphan, RecoverEnd, Die, git
<1>10. ASSUME NEW j \in Jobs
       PROVE  /\ ent[j].st # "running" /\ tree[j] = "none"
              /\ ent[j].st = "created" => branch[j] = "none"
  <2>1. ent[j].st # "running" /\ tree[j] = "none"
    BY <1>5, <1>7 DEF SoloFits, Sweeping
  <2>2. \A q \in Procs : at[q] \notin {"rmtree", "rmbranch"}
    BY <1>5, <1>7 DEF SoloFits
  <2> QED
    BY <2>1, <2>2 DEF SInv, BranchOK
<1> QED
  BY <1>8, <1>9, <1>10 DEF SweptClean

(* What SInv is about stays the same.  *)
LEMMA QuietKeeps ==
  ASSUME SInv, WInv', OpsApart', UNCHANGED <<ent, branch, worker, at, cmd, sweep>>,
         \A j \in Jobs : tree'[j] = "none" <=> tree[j] = "none"
  PROVE  SInv'
<1>1. \A p \in Procs : ClosedFits(p)' /\ ListFits(p)'
  <2> SUFFICES ASSUME NEW p \in Procs  PROVE ClosedFits(p)' /\ ListFits(p)'
    OBVIOUS
  <2>1. at[p] = "reset" => cmd[p].job \in Jobs
    BY DEF SInv, WInv, DInv, ProcsOK, Fits
  <2> QED
    BY <2>1 DEF SInv, ClosedFits, ListFits, PruneFits, ResetFits
<1>2. RunnersOK' /\ BranchOK'
  BY DEF SInv, RunnersOK, BranchOK
<1>3. AloneOK'
  BY DEF SInv, AloneOK, SoloFits, Sweeping
<1>4. DoneOK'
  BY DEF SInv, DoneOK, SweptClean
<1> QED
  BY <1>1, <1>2, <1>3, <1>4 DEF SInv

LEMMA SweepKept ==
  ASSUME ApproveAvoids("recover"), ApproveAvoids("prune"),
         CrashAt \cap {"rmtree", "rmbranch"} = {}, SInv, [Next]_vars
  PROVE  SInv'
<1>1. WInv' /\ OpsApart' /\ DInv
  BY NextKeeps DEF SInv, WInv
<1>2. ASSUME NEW p \in Procs, Acts(p)
      PROVE  SInv'
  <2>1. \A q \in Procs : ClosedFits(q)' /\ ListFits(q)'
    BY <1>2, OthersClosed, OthersList, ActorList DEF SInv, ListFits
  <2>2. RunnersOK' /\ BranchOK' /\ AloneOK' /\ DoneOK'
    BY <1>1, <1>2, RunnersKept, BranchKept, AloneKept, DoneKept DEF SInv
  <2> QED
    BY <1>1, <2>1, <2>2 DEF SInv
<1>3. CASE (\E j \in Jobs : OrphanEdit(j) \/ OrphanEnd(j)) \/ UNCHANGED vars
  <2>1. UNCHANGED <<ent, branch, worker, at, cmd, sweep>>
    BY <1>3 DEF OrphanEdit, OrphanEnd, vars, git
  <2>2. \A j \in Jobs : tree'[j] = "none" <=> tree[j] = "none"
    BY <1>1, <1>3 DEF OrphanEdit, OrphanEnd, MayEdit, vars, git, DInv, GitOK
  <2> QED
    BY <1>1, <2>1, <2>2, QuietKeeps
<1> QED
  BY <1>2, <1>3 DEF Next, Acts

(* A recover that no other command overlaps leaves no job running, no      *)
(* checkout, and no created job with a branch that would keep it from      *)
(* being dispatched: whatever ran, died or raced before, if no process     *)
(* dies inside worktree.Remove, and no gate is approved while a recover or *)
(* a prune is under way.                                                   *)
THEOREM RecoverSweepsClean ==
  ASSUME ApproveAvoids("recover"), ApproveAvoids("prune"),
         CrashAt \cap {"rmtree", "rmbranch"} = {}
  PROVE  Spec => []SweptClean
<1>1. Init => SInv
  <2> SUFFICES ASSUME Init  PROVE SInv
    OBVIOUS
  <2>1. WInv /\ OpsApart
    BY InitKeeps
  <2>2. \A p \in Procs : ClosedFits(p) /\ ListFits(p)
    BY DEF Init, ClosedFits, ListFits, PruneFits, ResetFits
  <2>3. RunnersOK /\ BranchOK /\ AloneOK /\ DoneOK
    BY NoneIsNoProc DEF Init, RunnersOK, BranchOK, AloneOK, DoneOK
  <2> QED
    BY <2>1, <2>2, <2>3 DEF SInv
<1>2. SInv /\ [Next]_vars => SInv'
  BY SweepKept
<1>3. SInv => SweptClean
  BY DEF SInv, DoneOK, SweptClean
<1> QED
  BY <1>1, <1>2, <1>3, PTL DEF Spec

-----------------------------------------------------------------------------
(* Jobs in need of a human *)

HasGate(j)  == \E g \in Gates : ent[g].st = "open" /\ ent[g].job = j
Opening(j)  == \E p \in Procs : at[p] = "gate" /\ cmd[p].job = j
Deciding(j) == \E p \in Procs : at[p] = "resolve" /\ cmd[p].job = j

(* A gate command has a gate of its job, and an approve that is about to   *)
(* settle it knows whether the job needs a human.                          *)
GateFits(p) ==
  LET c == cmd[p]
  IN  /\ at[p] \in GatePoints => ent[c.gate] # Absent /\ ent[c.gate].job = c.job
      /\ at[p] = "settle" /\ c.op = "approve" /\ ent[c.job].st = "needs-human"
           => c.seen = "needs-human"

HInv == /\ WInv /\ OpsApart /\ \A p \in Procs : GateFits(p)
        /\ \A j \in Jobs : ent[j].st = "needs-human" => HasGate(j) \/ Opening(j) \/ Deciding(j)

(* A gate stays the gate of its job, and only a decision settles it. *)
LEMMA GateViews ==
  ASSUME WInv, NEW p \in Procs, Acts(p), NEW g \in Gates, ent[g] # Absent
  PROVE  /\ ent'[g] # Absent /\ ent'[g].job = ent[g].job
         /\ ent'[g] = ent[g] \/ (Settle(p) /\ g = cmd[p].gate)
<1>1. DInv /\ EntOK
  BY DEF WInv, DInv
<1>2. CASE MarkRunning(p) \/ Finish(p) \/ Reset(p) \/ OpenGate(p)
  BY <1>2, MarkChanges, FinishChanges, ResetChanges, OpenChanges
<1>3. CASE ExtendScope(p)
  <2>1. cmd[p].job \in Jobs
    BY <1>1, <1>3 DEF ExtendScope, DInv, ProcsOK, Fits
  <2>2. ent' = ent \/ \E x \in Globs : Store!Extend(cmd[p].job, x)
    BY <1>3 DEF ExtendScope
  <2> QED
    BY <1>1, <2>1, <2>2, ExtendJob DEF JobStep
<1>4. CASE Settle(p)
  <2>1. PICK h \in Gates : h = cmd[p].gate
    BY <1>1, <1>4 DEF Settle, DInv, ProcsOK, Fits, GatePoints
  <2>2. PICK to \in {"approved", "rejected"} : Store!ResolveGate(h, to)
    BY <1>4, <2>1 DEF Settle
  <2>3. ent[h] # Absent /\ Store!Put(h, [ent[h] EXCEPT !.st = to])
    BY <2>2 DEF Store!ResolveGate, Store!Absent, Absent
  <2>4. ent' = [ent EXCEPT ![h] = [ent[h] EXCEPT !.st = to]]
    BY <2>3 DEF Store!Put
  <2>5. ent[h] \in Image /\ h \in Entities /\ g \in Entities
    BY <1>1, <2>3 DEF EntOK, Entities
  <2>6. g = h => ent'[g].st = to /\ ent'[g].job = ent[g].job
    BY <1>1, <2>4, <2>5 DEF EntOK, Image
  <2>7. g # h => ent'[g] = ent[g]
    BY <1>1, <2>4, <2>5 DEF EntOK
  <2> QED
    BY <1>4, <2>1, <2>6, <2>7, NoneIsNoStatus DEF Absent, Status, GateStatus
<1>5. CASE Reread(p)
  BY <1>5 DEF Reread
<1>6. CASE ResolveJob(p)
  <2>1. cmd[p].job \in Jobs
    BY <1>1, <1>6 DEF ResolveJob, DInv, ProcsOK, Fits
  <2>2. ent' = ent \/ \E to \in {"created", "cancelled"} : Store!Resolve(cmd[p].job, to)
    BY <1>6 DEF ResolveJob
  <2> QED
    BY <1>1, <2>1, <2>2, ResolveJobStep DEF JobStep
<1> QED
  BY <1>2, <1>3, <1>4, <1>5, <1>6, StoreSteps DEF Decides

(* A job comes to need a human by the step of a run or of a recover, which *)
(* goes on to open its gate.                                               *)
LEMMA ComesToNeed ==
  ASSUME WInv, NEW p \in Procs, Acts(p), NEW j \in Jobs,
         ent'[j].st = "needs-human", ent[j].st # "needs-human"
  PROVE  at'[p] = "gate" /\ cmd'[p].job = j /\ cmd[p].op \in {"run", "recover"}
<1>1. DInv
  BY DEF WInv
<1>2. Finish(p) \/ Reset(p)
  BY StatusSteps
<1>3. CASE Finish(p)
  <2>1. cmd[p].op = "run"
    BY <1>1, <1>3 DEF Finish, DInv, ProcsOK, Fits, RunPoints
  <2> QED
    BY <1>3, <2>1, FinishChanges
<1>4. CASE Reset(p)
  <2>1. cmd[p].op = "recover"
    BY <1>1, <1>4 DEF Reset, DInv, ProcsOK, Fits
  <2> QED
    BY <1>4, <2>1, ResetChanges
<1> QED
  BY <1>2, <1>3, <1>4

(* What the others know of their gates stays right: where an approve is    *)
(* under way, no job comes to need a human.                                *)
LEMMA OthersGates ==
  ASSUME ApproveAvoids("run"), ApproveAvoids("recover"), HInv, NEW p \in Procs, Acts(p),
         NEW q \in Procs \ {p}
  PROVE  GateFits(q)'
<1>1. WInv /\ DInv /\ OpsApart /\ GateFits(q)
  BY DEF HInv, WInv
<1>2. /\ at'[q] = at[q] /\ cmd'[q].op = cmd[q].op /\ cmd'[q].job = cmd[q].job
      /\ cmd'[q].gate = cmd[q].gate /\ cmd'[q].seen = cmd[q].seen
  BY <1>1, OthersStay DEF Stays
<1> SUFFICES ASSUME at[q] \in GatePoints  PROVE GateFits(q)'
  BY <1>2 DEF GateFits, GatePoints
<1>3. PICK g \in Gates, j \in Jobs : g = cmd[q].gate /\ j = cmd[q].job
  BY <1>1 DEF DInv, ProcsOK, Fits, GatePoints
<1>4. ent'[g] # Absent /\ ent'[g].job = j
  BY <1>1, <1>3, GateViews DEF GateFits
<1>5. ASSUME cmd[q].op = "approve", ent'[j].st = "needs-human"
      PROVE  ent[j].st = "needs-human"
  <2>1. CASE cmd[p].op \in {"run", "recover"}
    BY <1>1, <1>5, <2>1, ApproveAway
  <2>2. CASE cmd[p].op \notin {"run", "recover"}
    BY <1>1, <1>3, <1>5, <2>2, ComesToNeed
  <2> QED
    BY <2>1, <2>2
<1> QED
  BY <1>1, <1>2, <1>3, <1>4, <1>5 DEF GateFits

(* Only gate commands come to these points. *)
LEMMA ToGate ==
  ASSUME DInv, NEW p \in Procs, Acts(p), ~ GateLoad(p), ~ Decides(p)
  PROVE  at'[p] \notin GatePoints
<1>1. Exit(p) => at'[p] \notin GatePoints
  BY ExitOK DEF DInv, GatePoints
<1>2. ASSUME NEW pt, NEW c, Begin(p, pt, c) \/ Goto(p, pt, c)
      PROVE  at'[p] = pt
  BY <1>2 DEF Begin, Goto, DInv, ProcsOK
<1>3. CASE RunLoad(p) \/ RecoverStart(p) \/ PruneLoad(p) \/ IntegrateLoad(p)
  <2>1. \E pt \in {"add", "mark", "reap", "gc", "merge"} : \E c : Begin(p, pt, c)
    BY <1>3, Zenon DEF RunLoad, RecoverStart, PruneLoad, IntegrateLoad
  <2> QED
    BY <1>2, <2>1 DEF GatePoints
<1>4. CASE AddTree(p) \/ Work(p) \/ Commit(p) \/ Decide(p) \/ Finish(p)
  <2>1. Exit(p) \/ \E pt \in {"mark", "commit", "decide", "finish", "gate"} : \E c : Goto(p, pt, c)
    BY <1>4, Zenon DEF AddTree, Work, Commit, Decide, Finish
  <2> QED
    BY <1>1, <1>2, <2>1 DEF GatePoints
<1>5. CASE MarkRunning(p) \/ Edit(p)
  BY <1>1, <1>5 DEF MarkRunning, Edit, GatePoints, DInv, ProcsOK
<1>6. CASE OpenGate(p)
  <2>1. Exit(p) \/ Goto(p, "reap", cmd[p])
    BY <1>6 DEF OpenGate, DInv, ProcsOK, Fits
  <2> QED
    BY <1>1, <1>2, <2>1 DEF GatePoints
<1>7. CASE RemoveBranch(p)
  <2>1. Exit(p) \/ Goto(p, "reset", cmd[p]) \/ Goto(p, "prune", cmd[p])
    BY <1>7 DEF RemoveBranch
  <2> QED
    BY <1>1, <1>2, <2>1 DEF GatePoints
<1>8. CASE RemoveTree(p) \/ Reap(p) \/ Reset(p) \/ ListOrphans(p) \/ PruneOrphan(p)
           \/ RecoverEnd(p)
  <2>1. Exit(p) \/ \E pt \in {"rmbranch", "reap", "rmtree", "reset", "gate", "prune"} : \E c :
                     Goto(p, pt, c)
    BY <1>8, Zenon DEF RemoveTree, Reap, Reset, ListOrphans, PruneOrphan, RecoverEnd
  <2> QED
    BY <1>1, <1>2, <2>1 DEF GatePoints
<1>9. CASE ResolveJob(p) \/ Merge(p) \/ Promote(p) \/ ReclaimTree(p) \/ Die(p)
  <2>1. Exit(p) \/ \E pt \in {"rmtree", "gate", "merge", "gc"} : \E c : Goto(p, pt, c)
    BY <1>9, Zenon DEF ResolveJob, Merge, Promote, ReclaimTree, Die
  <2> QED
    BY <1>1, <1>2, <2>1 DEF GatePoints
<1> QED
  BY <1>3, <1>4, <1>5, <1>6, <1>7, <1>8, <1>9 DEF Acts, Load, Step, Decides

LEMMA ActorGates ==
  ASSUME HInv, NEW p \in Procs, Acts(p)
  PROVE  GateFits(p)'
<1>1. WInv /\ DInv /\ GateFits(p)
  BY DEF HInv, WInv
<1>2. Exit(p) => at'[p] = "idle"
  BY <1>1, ExitOK DEF DInv
<1>3. CASE GateLoad(p)
  <2>1. PICK g \in Gates, op \in {"approve", "reject"}, step \in {"settle", "extend"} :
          /\ ent[g] # Absent
          /\ Begin(p, step, [NoCmd EXCEPT !.op = op, !.job = ent[g].job, !.gate = g,
                                          !.rev = ent[ent[g].job].rev, !.seen = ent[ent[g].job].st])
    BY <1>3, Zenon DEF GateLoad
  <2>2. PICK j, r, v : j = ent[g].job /\ r = ent[j].rev /\ v = ent[j].st
    OBVIOUS
  <2>3. cmd' = [cmd EXCEPT ![p] = [NoCmd EXCEPT !.op = op, !.job = j, !.gate = g,
                                                !.rev = r, !.seen = v]]
    BY <2>1, <2>2 DEF Begin
  <2>4. cmd'[p].gate = g /\ cmd'[p].job = j /\ cmd'[p].seen = v
    BY <1>1, <2>3 DEF NoCmd, DInv, ProcsOK
  <2>5. ent' = ent
    BY <1>3 DEF GateLoad
  <2> QED
    BY <2>1, <2>2, <2>4, <2>5 DEF GateFits
<1>4. CASE ExtendScope(p) \/ Reread(p) \/ Settle(p)
  <2>1. PICK g \in Gates, j \in Jobs : g = cmd[p].gate /\ j = cmd[p].job
    BY <1>1, <1>4 DEF ExtendScope, Reread, Settle, DInv, ProcsOK, Fits, GatePoints
  <2>2. ent'[g] # Absent /\ ent'[g].job = j
    <3>1. ent[g] # Absent /\ ent[g].job = j
      BY <1>1, <1>4, <2>1 DEF ExtendScope, Reread, Settle, GateFits, GatePoints
    <3> QED
      BY <1>1, <3>1, GateViews
  <2>3. CASE Exit(p)
    BY <1>2, <2>3 DEF GateFits, GatePoints
  <2>4. CASE ~ Exit(p) /\ (ExtendScope(p) \/ Settle(p))
    <3>1. Goto(p, "reread", cmd[p]) \/ Goto(p, "resolve", cmd[p])
      BY <2>4 DEF ExtendScope, Settle
    <3>2. at'[p] \in {"reread", "resolve"} /\ cmd'[p] = cmd[p]
      BY <1>1, <3>1, OpKept
    <3> QED
      BY <2>1, <2>2, <3>2 DEF GateFits
  <2>5. CASE Reread(p)
    <3>1. PICK v : v = ent[j].st
      OBVIOUS
    <3>2. ent' = ent /\ Goto(p, "settle", [cmd[p] EXCEPT !.seen = v])
      BY <2>1, <2>5, <3>1 DEF Reread
    <3>3. cmd'[p] = [cmd[p] EXCEPT !.seen = v] /\ at'[p] = "settle"
      BY <1>1, <3>2, OpKept
    <3>4. cmd'[p].gate = g /\ cmd'[p].job = j /\ cmd'[p].seen = v
      BY <1>1, <2>1, <3>3 DEF DInv, ProcsOK, Cmds
    <3> QED
      BY <2>2, <3>1, <3>2, <3>4 DEF GateFits
  <2> QED
    BY <1>4, <2>3, <2>4, <2>5
<1>5. CASE ~ GateLoad(p) /\ ~ ExtendScope(p) /\ ~ Reread(p) /\ ~ Settle(p)
  <2>1. at'[p] \notin GatePoints
    BY <1>1, <1>5, ToGate DEF Decides
  <2> QED
    BY <2>1 DEF GateFits, GatePoints
<1> QED
  BY <1>3, <1>4, <1>5

(* Who is about to apply a decision does so, if it does not die there. *)
LEMMA AtResolve ==
  ASSUME "resolve" \notin CrashAt, NEW p \in Procs, Acts(p), at[p] = "resolve"
  PROVE  ResolveJob(p)
<1>1. ~ Load(p) /\ ~ Die(p)
  BY PointActs DEF Die
<1>2. ~ AddTree(p) /\ ~ MarkRunning(p) /\ ~ Edit(p) /\ ~ Work(p) /\ ~ Commit(p) /\ ~ Decide(p)
      /\ ~ Finish(p) /\ ~ OpenGate(p)
  BY DEF AddTree, MarkRunning, Edit, Work, Commit, Decide, Finish, OpenGate
<1>3. ~ RemoveTree(p) /\ ~ RemoveBranch(p) /\ ~ Reap(p) /\ ~ Reset(p) /\ ~ ListOrphans(p)
      /\ ~ PruneOrphan(p) /\ ~ RecoverEnd(p)
  BY DEF RemoveTree, RemoveBranch, Reap, Reset, ListOrphans, PruneOrphan, RecoverEnd
<1>4. ~ ExtendScope(p) /\ ~ Reread(p) /\ ~ Settle(p) /\ ~ Merge(p) /\ ~ Promote(p)
      /\ ~ ReclaimTree(p)
  BY DEF ExtendScope, Reread, Settle, Merge, Promote, ReclaimTree
<1> QED
  BY <1>1, <1>2, <1>3, <1>4 DEF Acts, Step

(* A job that needs a human still has its gate, or somebody about to open  *)
(* it, or somebody about to apply a decision to it.                        *)
Asked(j) == HasGate(j) \/ Opening(j) \/ Deciding(j)

LEMMA AskedStays ==
  ASSUME "gate" \notin CrashAt, "resolve" \notin CrashAt,
         HInv, NEW p \in Procs, Acts(p), NEW j \in Jobs,
         ent[j].st = "needs-human", ent'[j].st = "needs-human"
  PROVE  Asked(j)'
<1>1. WInv /\ DInv /\ GateFits(p)
  BY DEF HInv, WInv
<1>2. CASE HasGate(j)
  <2>1. PICK g \in Gates : ent[g].st = "open" /\ ent[g].job = j
    BY <1>2 DEF HasGate
  <2>2. ent[g] # Absent
    BY <2>1, NoneIsNoStatus DEF Absent, Status, GateStatus
  <2>3. CASE ent'[g] = ent[g]
    BY <2>1, <2>3 DEF Asked, HasGate
  <2>4. CASE Settle(p) /\ g = cmd[p].gate
    <3>1. /\ at[p] = "settle" /\ cmd[p].job = j /\ cmd[p].op \in {"approve", "reject"}
          /\ cmd[p].op = "approve" => cmd[p].seen = "needs-human"
      BY <1>1, <2>1, <2>4 DEF Settle, GateFits, GatePoints, DInv, ProcsOK, Fits
    <3>2. Goto(p, "resolve", cmd[p])
      BY <2>4, <3>1 DEF Settle, Unfinished
    <3>3. at'[p] = "resolve" /\ cmd'[p].job = j
      BY <1>1, <3>1, <3>2, OpKept
    <3> QED
      BY <3>3 DEF Asked, Deciding
  <2> QED
    BY <1>1, <2>1, <2>2, <2>3, <2>4, GateViews
<1>3. CASE Opening(j)
  <2>1. PICK q \in Procs : at[q] = "gate" /\ cmd[q].job = j
    BY <1>3 DEF Opening
  <2>2. CASE q # p
    BY <1>1, <2>1, <2>2, OthersStay DEF Stays, Asked, Opening
  <2>3. CASE q = p
    <3>1. OpenGate(p)
      BY <2>1, <2>3, PointActs DEF Die
    <3> QED
      BY <1>1, <2>1, <2>3, <3>1, OpenChanges DEF Asked, HasGate
  <2> QED
    BY <2>2, <2>3
<1>4. CASE Deciding(j)
  <2>1. PICK q \in Procs : at[q] = "resolve" /\ cmd[q].job = j
    BY <1>4 DEF Deciding
  <2>2. CASE q # p
    BY <1>1, <2>1, <2>2, OthersStay DEF Stays, Asked, Deciding
  <2>3. q # p
    <3> SUFFICES ASSUME q = p  PROVE FALSE
      OBVIOUS
    <3>1. ResolveJob(p)
      BY <2>1, AtResolve
    <3>2. PICK to \in {"created", "cancelled"} : Store!Resolve(j, to)
      BY <2>1, <3>1 DEF ResolveJob, Resolvable, Unfinished
    <3>3. JobStep(j, to)
      BY <1>1, <3>2, ResolveJobStep DEF DInv
    <3> QED
      BY <3>3 DEF JobStep
  <2> QED
    BY <2>2, <2>3
<1> QED
  BY <1>2, <1>3, <1>4 DEF HInv

LEMMA HumanKept ==
  ASSUME ApproveAvoids("run"), ApproveAvoids("recover"),
         "gate" \notin CrashAt, "resolve" \notin CrashAt, HInv, [Next]_vars
  PROVE  HInv'
<1>1. WInv' /\ OpsApart' /\ WInv
  BY NextKeeps DEF HInv
<1>2. ASSUME NEW p \in Procs, Acts(p)
      PROVE  HInv'
  <2>1. \A q \in Procs : GateFits(q)'
    BY <1>2, OthersGates, ActorGates
  <2>2. ASSUME NEW j \in Jobs, ent'[j].st = "needs-human", ent[j].st # "needs-human"
        PROVE  Asked(j)'
    BY <1>1, <1>2, <2>2, ComesToNeed DEF Asked, Opening
  <2>3. ASSUME NEW j \in Jobs, ent'[j].st = "needs-human"
        PROVE  Asked(j)'
    BY <1>2, <2>2, <2>3, AskedStays
  <2> QED
    BY <1>1, <2>1, <2>3 DEF HInv, Asked
<1>3. CASE UNCHANGED <<ent, at, cmd>>
  BY <1>1, <1>3 DEF HInv, GateFits, HasGate, Opening, Deciding
<1> QED
  BY <1>2, <1>3 DEF Next, Acts, OrphanEdit, OrphanEnd, vars

(* While no gate is approved during a run or a recover, and no process     *)
(* dies right before it opens a gate or between the two steps of a         *)
(* decision: a job in need of a human has an open gate once all commands   *)
(* ended.                                                                  *)
THEOREM HumanIsAsked ==
  ASSUME ApproveAvoids("run"), ApproveAvoids("recover"), CrashAt \cap {"gate", "resolve"} = {}
  PROVE  Spec => []NeedsHumanHasGate
<1>1. Init => HInv
  <2>1. ASSUME Init, NEW j \in Jobs
        PROVE  ent[j].st # "needs-human"
    BY <2>1, EntitiesDistinct DEF Init, Entities, Fresh, Absent, FreshStatus
  <2>2. ASSUME Init, NEW p \in Procs
        PROVE  GateFits(p)
    BY <2>2 DEF Init, GateFits, GatePoints
  <2> QED
    BY <2>1, <2>2, InitKeeps DEF HInv
<1>2. HInv /\ [Next]_vars => HInv'
  BY HumanKept
<1>3. HInv => NeedsHumanHasGate
  BY DEF HInv, HasGate, Opening, Deciding, NeedsHumanHasGate
<1> QED
  BY <1>1, <1>2, <1>3, PTL DEF Spec
-----------------------------------------------------------------------------
(* A job that is worked on, and the checkout it is in *)

AtWork == {"work", "commit", "decide", "finish"}

(* Only an approve extends a scope, and recover does not prune what it     *)
(* found alive.                                                            *)
OwnFits(p) ==
  LET c == cmd[p]
  IN  /\ at[p] = "extend" => c.op = "approve"
      /\ c.op = "recover" => c.todo \cap c.kept = {}

LInv == WInv /\ OpsApart /\ \A p \in Procs : OwnFits(p) /\ ClosedFits(p)

(* Nobody else changes a job that is worked on, but for its scope. *)
LEMMA WorkedOnStays ==
  ASSUME LInv, NEW p \in Procs, Acts(p),
         NEW q \in Procs \ {p}, NEW j \in Jobs, Working(q, j)
  PROVE  ent'[j] = ent[j] \/ (Extends(p, j) /\ ent'[j].st = "running")
<1>1. WInv /\ DInv /\ OpsApart /\ OwnFits(p)
  BY DEF LInv, WInv
<1>2. worker[j] = q /\ ent[j].st = "running" /\ cmd[q].op = "run"
  BY <1>1 DEF WInv, WorkersOK, Working, DInv, ProcsOK, Fits, RunPoints
<1>3. CASE MarkRunning(p)
  <2>1. cmd[p].job \in Jobs
    BY <1>1, <1>3 DEF MarkRunning, DInv, ProcsOK, Fits
  <2>2. ent' = ent \/ (JobStep(cmd[p].job, "running")
                       /\ <<ent[cmd[p].job].st, "running">> \in JobLegal)
    BY <1>1, <1>3, <2>1, MoveJob DEF MarkRunning, DInv
  <2> QED
    BY <1>2, <2>1, <2>2 DEF JobStep, JobLegal
<1>4. CASE Finish(p)
  BY <1>1, <1>2, <1>4, FinishChanges
<1>5. CASE Reset(p)
  BY <1>1, <1>2, <1>5, ResetChanges, NoneIsNoProc
<1>6. CASE OpenGate(p)
  BY <1>1, <1>6, OpenChanges
<1>7. CASE Decides(p)
  <2>1. CASE ExtendScope(p)
    <3>1. at[p] = "extend" /\ cmd[p].op = "approve" /\ cmd[p].job \in Jobs
      BY <1>1, <2>1 DEF ExtendScope, OwnFits, DInv, ProcsOK, Fits, GatePoints
    <3>2. CASE Current(p)
      <4>1. PICK x \in Globs : Store!Extend(cmd[p].job, x)
        BY <2>1, <3>2 DEF ExtendScope
      <4>2. /\ \A i \in Jobs \ {cmd[p].job} : ent'[i] = ent[i]
            /\ ent'[cmd[p].job].st = ent[cmd[p].job].st
        BY <1>1, <3>1, <4>1, ExtendJob DEF DInv, JobStep
      <4>3. at'[p] = "reread"
        BY <1>1, <2>1, <3>2, OpKept DEF ExtendScope
      <4> QED
        BY <1>2, <3>1, <4>2, <4>3 DEF Extends, Moves
    <3> QED
      BY <2>1, <3>2 DEF ExtendScope
  <2>2. CASE Settle(p)
    <3>1. cmd[p].gate \in Gates
      BY <1>1, <2>2 DEF Settle, DInv, ProcsOK, Fits, GatePoints
    <3>2. \E to \in {"approved", "rejected"} : Store!ResolveGate(cmd[p].gate, to)
      BY <2>2 DEF Settle
    <3> QED
      BY <1>1, <3>1, <3>2, SettleGate DEF DInv, GateStep
  <2> QED
    BY <1>7, <2>1, <2>2 DEF Decides, Reread
<1>8. CASE ResolveJob(p)
  BY <1>1, <1>2, <1>8, ResolveChanges DEF Unfinished
<1> QED
  BY <1>3, <1>4, <1>5, <1>6, <1>7, <1>8, StoreSteps

LEMMA OthersOwn ==
  ASSUME LInv, NEW p \in Procs, Acts(p), NEW q \in Procs \ {p}
  PROVE  OwnFits(q)'
<1>1. DInv /\ OwnFits(q)
  BY DEF LInv, WInv
<1>2. /\ at'[q] = at[q] /\ cmd'[q].op = cmd[q].op
      /\ cmd'[q].todo = cmd[q].todo /\ cmd'[q].kept = cmd[q].kept
  BY <1>1, OthersStay DEF Stays
<1> QED
  BY <1>1, <1>2 DEF OwnFits

(* How a process comes to these points. *)
LEMMA ToWork ==
  ASSUME DInv, NEW p \in Procs, Acts(p), at'[p] \in AtWork
  PROVE  \/ MarkRunning(p) /\ ~ Exit(p)
         \/ /\ at[p] \in AtWork /\ ent' = ent
            /\ cmd'[p].job = cmd[p].job /\ cmd'[p].rev = cmd[p].rev
<1>1. Exit(p) => at'[p] = "idle"
  BY ExitOK DEF DInv
<1>2. ASSUME NEW pt, NEW c, Begin(p, pt, c) \/ Goto(p, pt, c)
      PROVE  at'[p] = pt /\ cmd'[p] = c
  BY <1>2 DEF Begin, Goto, DInv, ProcsOK
<1>3. ~ Load(p) /\ ~ Die(p)
  <2>1. Load(p) => \E pt \in {"add", "mark", "reap", "settle", "extend", "gc", "merge"} :
                     \E c : Begin(p, pt, c)
    BY Zenon DEF Load, RunLoad, RecoverStart, GateLoad, PruneLoad, IntegrateLoad
  <2> QED
    BY <1>1, <1>2, <2>1 DEF Die, AtWork
<1>4. CASE MarkRunning(p)
  BY <1>1, <1>4 DEF AtWork
<1>5. CASE Edit(p)
  BY <1>5 DEF Edit, AtWork
<1>6. CASE Work(p)
  <2>1. at[p] = "work" /\ ent' = ent /\ cmd'[p] = cmd[p]
    BY <1>2, <1>6 DEF Work
  <2> QED
    BY <2>1 DEF AtWork
<1>7. CASE Commit(p) \/ Decide(p)
  <2>1. PICK pt, v : Goto(p, pt, cmd[p]) \/ Goto(p, pt, [cmd[p] EXCEPT !.result = v])
    BY <1>7, Zenon DEF Commit, Decide
  <2>2. cmd'[p] = cmd[p] \/ cmd'[p] = [cmd[p] EXCEPT !.result = v]
    BY <1>2, <2>1
  <2>3. cmd'[p].job = cmd[p].job /\ cmd'[p].rev = cmd[p].rev
    BY <2>2 DEF DInv, ProcsOK, Cmds
  <2> QED
    BY <1>7, <2>3 DEF Commit, Decide, AtWork
<1>8. ~ AddTree(p) /\ ~ Finish(p) /\ ~ OpenGate(p)
  <2>1. OpenGate(p) => Exit(p) \/ Goto(p, "reap", cmd[p])
    BY DEF OpenGate, DInv, ProcsOK, Fits
  <2>2. AddTree(p) \/ Finish(p) => Exit(p) \/ Goto(p, "mark", cmd[p]) \/ Goto(p, "gate", cmd[p])
    BY DEF AddTree, Finish
  <2> QED
    BY <1>1, <1>2, <2>1, <2>2 DEF AtWork
<1>9. ~ RemoveTree(p) /\ ~ RemoveBranch(p) /\ ~ Reap(p) /\ ~ Reset(p) /\ ~ ListOrphans(p)
      /\ ~ PruneOrphan(p) /\ ~ RecoverEnd(p)
  <2>1. RemoveBranch(p) => Exit(p) \/ Goto(p, "reset", cmd[p]) \/ Goto(p, "prune", cmd[p])
    BY DEF RemoveBranch
  <2>2. RemoveTree(p) \/ Reap(p) \/ Reset(p) \/ ListOrphans(p) \/ PruneOrphan(p) \/ RecoverEnd(p)
        => Exit(p) \/ \E pt \in {"rmbranch", "reap", "rmtree", "reset", "gate", "prune"} :
                        \E c : Goto(p, pt, c)
    BY Zenon DEF RemoveTree, Reap, Reset, ListOrphans, PruneOrphan, RecoverEnd
  <2> QED
    BY <1>1, <1>2, <2>1, <2>2 DEF AtWork
<1>10. ~ ExtendScope(p) /\ ~ Reread(p) /\ ~ Settle(p) /\ ~ ResolveJob(p) /\ ~ Merge(p)
       /\ ~ Promote(p) /\ ~ ReclaimTree(p)
  <2>1. ExtendScope(p) \/ Reread(p) \/ Settle(p) \/ ResolveJob(p) \/ Merge(p) \/ Promote(p)
        \/ ReclaimTree(p)
        => Exit(p) \/ \E pt \in {"reread", "settle", "resolve", "rmtree", "gate", "merge", "gc"} :
                        \E c : Goto(p, pt, c)
    BY Zenon DEF ExtendScope, Reread, Settle, ResolveJob, Merge, Promote, ReclaimTree
  <2> QED
    BY <1>1, <1>2, <2>1 DEF AtWork
<1> QED
  BY <1>3, <1>4, <1>5, <1>6, <1>7, <1>8, <1>9, <1>10 DEF Acts, Step

(* A recover sets a job aside, or takes it off its list. *)
LEMMA KeptApart ==
  ASSUME DInv, NEW p \in Procs, OwnFits(p), Acts(p), cmd'[p].op = "recover"
  PROVE  cmd'[p].todo \cap cmd'[p].kept = {}
<1>1. cmd[p] \in Cmds /\ Fits(at[p], cmd[p])
  BY DEF DInv, ProcsOK
<1>2. ASSUME NEW pt, NEW c, Begin(p, pt, c) \/ Goto(p, pt, c)
      PROVE  cmd'[p] = c
  BY <1>2 DEF Begin, Goto, DInv, ProcsOK
<1>3. ~ Exit(p)
  BY ExitOK, NoCmdFits, NoneIsNoCommand DEF DInv, AllCommands
<1>4. CASE RecoverStart(p)
  <2>1. PICK t, l : Begin(p, "reap", [NoCmd EXCEPT !.op = "recover", !.todo = t, !.live = l])
    BY <1>4 DEF RecoverStart
  <2> QED
    BY <1>2, <2>1 DEF NoCmd
<1>5. CASE Load(p) /\ ~ RecoverStart(p)
  BY <1>5, OtherLoads
<1>6. CASE ~ Load(p)
  <2>1. cmd[p].op = "recover" /\ cmd[p].todo \cap cmd[p].kept = {}
    BY <1>3, <1>6, OpStays DEF OwnFits
  <2>2. at[p] \in {"reap", "reset", "prune", "gate", "rmtree", "rmbranch"}
    BY <1>1, <2>1, NoCmdFits, NoneIsNoCommand, CommandsAreKnown
    DEF Fits, RunPoints, GatePoints, Points, AllCommands
  <2>3. CASE Reap(p)
    <3>1. PICK j \in cmd[p].todo :
            \/ Goto(p, "reap", [cmd[p] EXCEPT !.todo = @ \ {j}, !.kept = @ \cup {j}])
            \/ \E pt : Goto(p, pt, [cmd[p] EXCEPT !.job = j])
      BY <2>3, Zenon DEF Reap
    <3>2. PICK t, k : t = cmd[p].todo \ {j} /\ k = cmd[p].kept \cup {j}
      OBVIOUS
    <3>3. \/ cmd'[p] = [cmd[p] EXCEPT !.todo = t, !.kept = k]
          \/ cmd'[p] = [cmd[p] EXCEPT !.job = j]
      BY <1>2, <3>1, <3>2
    <3> QED
      BY <1>1, <2>1, <3>2, <3>3 DEF Cmds
  <2>4. CASE Reset(p) \/ ListOrphans(p) \/ PruneOrphan(p)
    <3>1. PICK t, j : /\ t \cap cmd[p].kept = {}
                      /\ \/ \E pt : Goto(p, pt, [cmd[p] EXCEPT !.todo = t])
                         \/ \E pt : Goto(p, pt, [cmd[p] EXCEPT !.job = j, !.todo = t])
      <4>1. Reset(p) => \E pt : Goto(p, pt, [cmd[p] EXCEPT !.todo = cmd[p].todo \ {cmd[p].job}])
        BY Zenon DEF Reset
      <4>2. ListOrphans(p) => Goto(p, "prune", [cmd[p] EXCEPT !.todo = Orphans(p)])
        BY DEF ListOrphans
      <4>3. PruneOrphan(p) => \E i, t : /\ t = cmd[p].todo \ {i}
                                        /\ Goto(p, "rmbranch", [cmd[p] EXCEPT !.job = i, !.todo = t])
        BY Zenon DEF PruneOrphan
      <4>4. Orphans(p) \cap cmd[p].kept = {}
        BY DEF Orphans
      <4> QED
        BY <2>1, <2>4, <4>1, <4>2, <4>3, <4>4
    <3>2. \/ cmd'[p] = [cmd[p] EXCEPT !.todo = t]
          \/ cmd'[p] = [cmd[p] EXCEPT !.job = j, !.todo = t]
      BY <1>2, <3>1
    <3> QED
      BY <1>1, <3>1, <3>2 DEF Cmds
  <2>5. CASE OpenGate(p) \/ RemoveTree(p) \/ RemoveBranch(p)
    <3>1. Goto(p, "reap", cmd[p]) \/ Goto(p, "rmbranch", cmd[p]) \/ Goto(p, "reset", cmd[p])
          \/ Goto(p, "prune", cmd[p])
      BY <2>1, <2>5 DEF OpenGate, RemoveTree, RemoveBranch
    <3> QED
      BY <1>2, <2>1, <3>1
  <2> QED
    BY <1>3, <2>2, <2>3, <2>4, <2>5, PointActs DEF Die, RecoverEnd
<1> QED
  BY <1>4, <1>5, <1>6
LEMMA ActorOwn == ASSUME LInv, NEW p \in Procs, Acts(p)  PROVE OwnFits(p)'
<1>1. DInv /\ OwnFits(p)
  BY DEF LInv, WInv
<1>3. at'[p] = "extend" => cmd'[p].op = "approve"
  <2> SUFFICES ASSUME at'[p] = "extend"  PROVE cmd'[p].op = "approve"
    OBVIOUS
  <2>1. ~ Decides(p)
    <3>1. Exit(p) => at'[p] = "idle"
      BY <1>1, ExitOK DEF DInv
    <3>2. Decides(p) => Exit(p) \/ \E pt \in {"reread", "settle", "resolve"} : \E c : Goto(p, pt, c)
      BY Zenon DEF Decides, ExtendScope, Reread, Settle
    <3> QED
      BY <1>1, <3>1, <3>2, OpKept
  <2>2. GateLoad(p)
    BY <1>1, <2>1, ToGate DEF GatePoints
  <2>3. PICK g, op, pt, j, r, v :
          /\ pt = "extend" => op = "approve"
          /\ Begin(p, pt, [NoCmd EXCEPT !.op = op, !.job = j, !.gate = g, !.rev = r, !.seen = v])
    BY <2>2, Zenon DEF GateLoad
  <2>4. /\ at'[p] = pt
        /\ cmd'[p] = [NoCmd EXCEPT !.op = op, !.job = j, !.gate = g, !.rev = r, !.seen = v]
    BY <1>1, <2>3 DEF Begin, DInv, ProcsOK
  <2> QED
    BY <2>3, <2>4 DEF NoCmd
<1>4. cmd'[p].op = "recover" => cmd'[p].todo \cap cmd'[p].kept = {}
  BY <1>1, KeptApart
<1> QED
  BY <1>3, <1>4 DEF OwnFits

LEMMA LandKept ==
  ASSUME ApproveAvoids("recover"), LInv, [Next]_vars
  PROVE  LInv'
<1>1. WInv' /\ OpsApart' /\ WInv
  BY NextKeeps DEF LInv
<1>2. ASSUME NEW p \in Procs, Acts(p)
      PROVE  LInv'
  <2>1. \A q \in Procs : OwnFits(q)' /\ ClosedFits(q)'
    BY <1>1, <1>2, OthersOwn, ActorOwn, OthersClosed, ActorList DEF LInv
  <2> QED
    BY <1>1, <2>1 DEF LInv
<1>3. CASE UNCHANGED <<ent, at, cmd>>
  BY <1>1, <1>3 DEF LInv, OwnFits, ClosedFits
<1> QED
  BY <1>2, <1>3 DEF Next, Acts, OrphanEdit, OrphanEnd, vars

LEMMA InitLands == Init => LInv
<1> SUFFICES ASSUME Init, NEW p \in Procs  PROVE OwnFits(p) /\ ClosedFits(p)
  BY InitKeeps DEF LInv
<1> QED
  BY NoCmdFits, NoneIsNoCommand DEF Init, OwnFits, ClosedFits, AllCommands

LEMMA Lands ==
  ASSUME ApproveAvoids("recover")
  PROVE  Spec => []LInv
<1>1. LInv /\ [Next]_vars => LInv'
  BY LandKept
<1> QED
  BY <1>1, InitLands, PTL DEF Spec

(* What OnlyScopeIntervenes says of one step. *)
ChangedByScope ==
  \A j \in Jobs, p \in Procs :
    Working(p, j) /\ ent'[j] # ent[j]
      => \/ at[p] = "finish" /\ Moves(p)
         \/ /\ \E q \in Procs : Extends(q, j)
            /\ ent'[j].st = "running"

LEMMA ChangesByScope == ASSUME LInv, [Next]_vars  PROVE ChangedByScope
<1> SUFFICES ASSUME NEW j \in Jobs, NEW p \in Procs, Working(p, j), ent'[j] # ent[j]
             PROVE  \/ at[p] = "finish" /\ Moves(p)
                    \/ /\ \E q \in Procs : Extends(q, j)
                       /\ ent'[j].st = "running"
  BY DEF ChangedByScope
<1>1. DInv
  BY DEF LInv, WInv
<1>2. PICK q \in Procs : Acts(q)
  BY DEF Next, Acts, OrphanEdit, OrphanEnd, vars
<1>3. CASE q # p
  BY <1>2, <1>3, WorkedOnStays
<1>4. CASE q = p
  <2>1. at[p] \in {"work", "commit", "decide", "finish"}
    BY DEF Working
  <2>2. Finish(p)
    <3>1. ~ MarkRunning(p) /\ ~ Reset(p) /\ ~ OpenGate(p) /\ ~ ResolveJob(p) /\ ~ Decides(p)
      BY <2>1 DEF MarkRunning, Reset, OpenGate, ResolveJob, Decides, ExtendScope, Reread, Settle
    <3> QED
      BY <1>2, <1>4, <3>1, StoreSteps
  <2>3. Exit(p) => at'[p] = "idle"
    BY <1>1, ExitOK DEF DInv
  <2>4. Goto(p, "gate", cmd[p]) => at'[p] = "gate"
    BY <1>1, OpKept
  <2> QED
    BY <2>2, <2>3, <2>4 DEF Finish, Moves
<1> QED
  BY <1>3, <1>4

(* While no gate is approved during a recover: only its own process and a  *)
(* human who widens its scope change a job that is worked on, whatever     *)
(* else starts, dies or is decided meanwhile.                              *)
THEOREM ScopeAloneIntervenes ==
  ASSUME ApproveAvoids("recover")
  PROVE  Spec => OnlyScopeIntervenes
<1>1. LInv /\ [Next]_vars =>
        [\A j \in Jobs, p \in Procs :
           Working(p, j) /\ ent'[j] # ent[j]
             => \/ at[p] = "finish" /\ Moves(p)
                \/ /\ \E q \in Procs : Extends(q, j)
                   /\ ent'[j].st = "running"]_vars
  BY ChangesByScope DEF ChangedByScope
<1> QED
  BY <1>1, Lands, PTL DEF Spec, OnlyScopeIntervenes

(* What LiveCheckoutStays says of one step. *)
TakenByOldList ==
  \A j \in Jobs, p \in Procs :
    Working(p, j) /\ tree[j] # "none" /\ tree'[j] = "none"
      => \E q \in Procs : ActsOnOldList(q, j)

LEMMA TakesByOldList ==
  ASSUME LInv, [Next]_vars
  PROVE  TakenByOldList
<1> SUFFICES ASSUME NEW j \in Jobs, NEW p \in Procs, Working(p, j),
                    tree[j] # "none", tree'[j] = "none"
             PROVE  \E q \in Procs : ActsOnOldList(q, j)
  BY DEF TakenByOldList
<1>1. WInv /\ DInv /\ OpsApart
  BY DEF LInv, WInv
<1>2. worker[j] = p /\ ent[j].st = "running" /\ cmd[p].op = "run"
  BY <1>1 DEF WInv, WorkersOK, Working, DInv, ProcsOK, Fits, RunPoints
<1>3. PICK q \in Procs : Acts(q)
  BY <1>1 DEF Next, Acts, OrphanEdit, OrphanEnd, MayEdit, vars, git, DInv, GitOK
<1>4. Fits(at[q], cmd[q]) /\ OwnFits(q) /\ ClosedFits(q) /\ SweepFits(q)
  BY <1>1 DEF LInv, WInv, DInv, ProcsOK
<1>5. ASSUME at'[q] = "rmbranch", at[q] = "rmtree", cmd[q].job = j
      PROVE  ActsOnOldList(q, j)
  <2>1. cmd[q].op # "reject"
    BY <1>2, <1>4, <1>5 DEF ClosedFits
  <2>2. cmd[q].op # "recover"
    BY <1>1, <1>2, <1>4, <1>5, NoneIsNoProc DEF SweepFits, Sweeping
  <2>3. cmd[q].op = "approve"
    BY <1>4, <1>5, <2>1, <2>2 DEF Fits
  <2> QED
    BY <1>5, <2>3 DEF ActsOnOldList, Moves
<1>6. ASSUME at'[q] = "rmbranch", at[q] = "prune", j \in cmd[q].todo
      PROVE  ActsOnOldList(q, j)
  BY <1>4, <1>6 DEF Fits, OwnFits, ActsOnOldList, Moves
<1>7. ASSUME ReclaimTree(q), at[q] = "gc", j \in cmd[q].todo
      PROVE  ActsOnOldList(q, j)
  <2>1. cmd[q].op = "prune"
    BY <1>2, <1>4, <1>7 DEF Fits, ClosedFits, Closed
  <2>2. PICK i \in cmd[q].todo :
          Exit(q) \/ Goto(q, "gc", [cmd[q] EXCEPT !.todo = @ \ {i}])
    BY <1>7 DEF ReclaimTree
  <2>3. Exit(q) => at'[q] = "idle"
    BY <1>1, ExitOK DEF DInv
  <2>4. PICK t : t = cmd[q].todo \ {i}
    OBVIOUS
  <2>5. Goto(q, "gc", [cmd[q] EXCEPT !.todo = t]) => cmd'[q].todo = t
    <3>1. Goto(q, "gc", [cmd[q] EXCEPT !.todo = t]) => cmd'[q] = [cmd[q] EXCEPT !.todo = t]
      BY <1>1, OpKept
    <3> QED
      BY <1>1, <3>1 DEF DInv, ProcsOK, Cmds
  <2>6. Moves(q)
    BY <1>7, <2>2, <2>3, <2>4, <2>5 DEF Moves
  <2> QED
    BY <1>7, <2>1, <2>6 DEF ActsOnOldList
<1> QED
  BY <1>1, <1>3, <1>5, <1>6, <1>7, TreeGoes

(* While no gate is approved during a recover: the checkout of a job that  *)
(* is worked on is taken only by a recover that did not find the job alive *)
(* when it began, by a prune that found it ended, or by an approve that    *)
(* has not removed the old one yet.                                        *)
THEOREM CheckoutStays ==
  ASSUME ApproveAvoids("recover")
  PROVE  Spec => LiveCheckoutStays
<1>1. LInv /\ [Next]_vars =>
        [\A j \in Jobs, p \in Procs :
           Working(p, j) /\ tree[j] # "none" /\ tree'[j] = "none"
             => \E q \in Procs : ActsOnOldList(q, j)]_vars
  BY TakesByOldList DEF TakenByOldList
<1> QED
  BY <1>1, Lands, PTL DEF Spec, LiveCheckoutStays
-----------------------------------------------------------------------------
(* What a completed job has committed *)

(* Which step removes a branch: it takes the commits along. *)
LEMMA BranchGoes ==
  ASSUME DInv, NEW p \in Procs, Acts(p), NEW j \in Jobs,
         branch[j] # "none", branch'[j] \notin {branch[j], "work"}
  PROVE  RemoveBranch(p) /\ at[p] = "rmbranch" /\ cmd[p].job = j
<1>1. Load(p) \/ Die(p) => branch' = branch
  BY DEF Load, RunLoad, RecoverStart, GateLoad, PruneLoad, IntegrateLoad, Die, git
<1>2. MarkRunning(p) \/ Edit(p) \/ Work(p) \/ Decide(p) \/ Finish(p) \/ OpenGate(p)
      => branch' = branch
  BY DEF MarkRunning, Edit, Work, Decide, Finish, OpenGate, git
<1>3. Reap(p) \/ Reset(p) \/ ListOrphans(p) \/ RecoverEnd(p) \/ RemoveTree(p) \/ PruneOrphan(p)
      => branch' = branch
  BY DEF Reap, Reset, ListOrphans, RecoverEnd, RemoveTree, PruneOrphan, git
<1>4. ExtendScope(p) \/ Reread(p) \/ Settle(p) \/ ResolveJob(p) \/ Merge(p) \/ Promote(p)
      \/ ReclaimTree(p) => branch' = branch
  BY DEF ExtendScope, Reread, Settle, ResolveJob, Merge, Promote, ReclaimTree, git
<1>5. ~ AddTree(p) /\ ~ Commit(p)
  BY DEF AddTree, Commit, git, DInv, GitOK
<1>6. RemoveBranch(p) => at[p] = "rmbranch" /\ cmd[p].job = j
  BY DEF RemoveBranch, DInv, GitOK
<1> QED
  BY <1>1, <1>2, <1>3, <1>4, <1>5, <1>6 DEF Acts, Step

(* What CompletedWorkStays says of one step. *)
DiscardedByFew ==
  \A j \in Jobs : ent[j].st = "completed" /\ branch[j] = "work" /\ branch'[j] # "work"
    => \E q \in Procs : Discards(q, j)

LEMMA DiscardsByFew ==
  ASSUME WInv, \A p \in Procs : ClosedFits(p), [Next]_vars
  PROVE  DiscardedByFew
<1> SUFFICES ASSUME NEW j \in Jobs, ent[j].st = "completed",
                    branch[j] = "work", branch'[j] # "work"
             PROVE  \E q \in Procs : Discards(q, j)
  BY DEF DiscardedByFew
<1>1. DInv
  BY DEF WInv
<1>2. PICK q \in Procs : Acts(q)
  BY DEF Next, Acts, OrphanEdit, OrphanEnd, vars, git
<1>3. RemoveBranch(q) /\ at[q] = "rmbranch" /\ cmd[q].job = j
  BY <1>1, <1>2, BranchGoes
<1>4. cmd[q].op \in {"approve", "reject", "recover"}
  BY <1>1, <1>3 DEF DInv, ProcsOK, Fits
<1>5. cmd[q].op # "reject"
  BY <1>3 DEF ClosedFits
<1>6. Moves(q)
  <2>1. Exit(q) \/ Goto(q, "reset", cmd[q]) \/ Goto(q, "prune", cmd[q])
    BY <1>3 DEF RemoveBranch
  <2>2. at'[q] \in {"idle", "reset", "prune"}
    BY <1>1, <2>1, ExitOK, OpKept DEF DInv
  <2> QED
    BY <1>3, <2>2 DEF Moves
<1> QED
  BY <1>3, <1>4, <1>5, <1>6 DEF Discards

(* While no gate is approved during a recover: what a completed job has    *)
(* committed is deleted by a recover or a late approve only.               *)
THEOREM FewDiscardWork ==
  ASSUME ApproveAvoids("recover")
  PROVE  Spec => CompletedWorkStays
<1>1. LInv /\ [Next]_vars =>
        [\A j \in Jobs : ent[j].st = "completed" /\ branch[j] = "work" /\ branch'[j] # "work"
           => \E q \in Procs : Discards(q, j)]_vars
  BY DiscardsByFew DEF DiscardedByFew, LInv
<1> QED
  BY <1>1, Lands, PTL DEF Spec, CompletedWorkStays

(* The job whose checkout an approve removes has not completed since. *)
DecidedFits(p) ==
  at[p] \in {"rmtree", "rmbranch"} /\ cmd[p].op = "approve" => ent[cmd[p].job].st # "completed"

RInv == WInv /\ OpsApart /\ \A p \in Procs : ClosedFits(p) /\ DecidedFits(p)

(* A decision comes to its removal. *)
LEMMA ToRemove ==
  ASSUME DInv, NEW p \in Procs, Acts(p), at'[p] \in {"rmtree", "rmbranch"},
         cmd'[p].op # "recover"
  PROVE  \/ ResolveJob(p) /\ ~ Exit(p)
         \/ RemoveTree(p) /\ at[p] = "rmtree" /\ cmd'[p] = cmd[p] /\ ent' = ent
<1>1. Exit(p) => at'[p] = "idle"
  BY ExitOK DEF DInv
<1>2. ASSUME NEW pt, NEW c, Begin(p, pt, c) \/ Goto(p, pt, c)
      PROVE  at'[p] = pt /\ cmd'[p] = c
  BY <1>2 DEF Begin, Goto, DInv, ProcsOK
<1>3. ~ Load(p) /\ ~ Die(p)
  <2>1. Load(p) => \E pt \in {"add", "mark", "reap", "settle", "extend", "gc", "merge"} :
                     \E c : Begin(p, pt, c)
    BY Zenon DEF Load, RunLoad, RecoverStart, GateLoad, PruneLoad, IntegrateLoad
  <2> QED
    BY <1>1, <1>2, <2>1 DEF Die
<1>4. cmd'[p].op = cmd[p].op
  BY <1>1, <1>3, OpStays
<1>5. ~ AddTree(p) /\ ~ MarkRunning(p) /\ ~ Edit(p) /\ ~ Work(p) /\ ~ Commit(p) /\ ~ Decide(p)
      /\ ~ Finish(p)
  <2>1. ~ MarkRunning(p) /\ ~ Edit(p)
    BY <1>1 DEF MarkRunning, Edit, DInv, ProcsOK
  <2>2. AddTree(p) \/ Work(p) \/ Commit(p) \/ Decide(p) \/ Finish(p)
        => Exit(p) \/ \E pt \in {"mark", "commit", "decide", "finish", "gate"} :
                        \E c : Goto(p, pt, c)
    BY Zenon DEF AddTree, Work, Commit, Decide, Finish
  <2> QED
    BY <1>1, <1>2, <2>1, <2>2
<1>6. ~ OpenGate(p) /\ ~ Reap(p) /\ ~ Reset(p) /\ ~ ListOrphans(p) /\ ~ PruneOrphan(p)
      /\ ~ RecoverEnd(p)
  <2>1. Reap(p) \/ Reset(p) \/ ListOrphans(p) \/ PruneOrphan(p) \/ RecoverEnd(p)
        => at[p] \in {"reap", "reset", "prune"}
    BY DEF Reap, Reset, ListOrphans, PruneOrphan, RecoverEnd
  <2>2. OpenGate(p) => Exit(p) \/ Goto(p, "reap", cmd[p])
    BY DEF OpenGate, DInv, ProcsOK, Fits
  <2> QED
    BY <1>1, <1>2, <1>4, <2>1, <2>2 DEF DInv, ProcsOK, Fits
<1>7. ~ RemoveBranch(p)
  <2>1. RemoveBranch(p) => Exit(p) \/ Goto(p, "reset", cmd[p]) \/ Goto(p, "prune", cmd[p])
    BY DEF RemoveBranch
  <2> QED
    BY <1>1, <1>2, <2>1
<1>8. ~ ExtendScope(p) /\ ~ Reread(p) /\ ~ Settle(p) /\ ~ Merge(p) /\ ~ Promote(p)
      /\ ~ ReclaimTree(p)
  <2>1. ExtendScope(p) \/ Reread(p) \/ Settle(p) \/ Merge(p) \/ Promote(p) \/ ReclaimTree(p)
        => Exit(p) \/ \E pt \in {"reread", "settle", "resolve", "gate", "merge", "gc"} :
                        \E c : Goto(p, pt, c)
    BY Zenon DEF ExtendScope, Reread, Settle, Merge, Promote, ReclaimTree
  <2> QED
    BY <1>1, <1>2, <2>1
<1>9. RemoveTree(p) => at[p] = "rmtree" /\ cmd'[p] = cmd[p] /\ ent' = ent
  BY OpKept DEF RemoveTree
<1>10. ResolveJob(p) => ~ Exit(p)
  BY <1>1
<1> QED
  BY <1>3, <1>5, <1>6, <1>7, <1>8, <1>9, <1>10 DEF Acts, Step

LEMMA DecidedKept ==
  ASSUME ApproveAvoids("run"), RInv, NEW p \in Procs, Acts(p), NEW q \in Procs
  PROVE  DecidedFits(q)'
<1> SUFFICES ASSUME at'[q] \in {"rmtree", "rmbranch"}, cmd'[q].op = "approve"
             PROVE  ent'[cmd'[q].job].st # "completed"
  BY DEF DecidedFits
<1>1. WInv /\ DInv /\ OpsApart /\ DecidedFits(q)
  BY DEF RInv, WInv
<1>2. CASE q # p
  <2>1. at'[q] = at[q] /\ cmd'[q].op = cmd[q].op /\ cmd'[q].job = cmd[q].job
    BY <1>1, <1>2, OthersStay DEF Stays
  <2>2. PICK j \in Jobs : j = cmd[q].job
    BY <1>1, <2>1 DEF DInv, ProcsOK, Fits
  <2>3. ~ Finish(p)
    <3>1. Finish(p) => cmd[p].op = "run"
      BY <1>1 DEF Finish, DInv, ProcsOK, Fits, RunPoints
    <3> QED
      BY <1>1, <2>1, <3>1, ApproveAway
  <2>4. ent[j].st # "completed"
    BY <1>1, <2>1, <2>2 DEF DecidedFits
  <2> QED
    BY <1>1, <2>1, <2>2, <2>3, <2>4, StatusSteps
<1>3. CASE q = p
  <2>1. CASE ResolveJob(p) /\ ~ Exit(p)
    <3>1. Goto(p, "rmtree", cmd[p]) /\ cmd[p].job \in Jobs
          /\ (cmd[p].op = "reject" \/ ent'[cmd[p].job].st = "created")
      BY <1>1, <2>1, ResolveChanges
    <3>2. cmd'[p] = cmd[p]
      BY <1>1, <3>1, OpKept
    <3> QED
      BY <1>3, <3>1, <3>2
  <2>2. CASE RemoveTree(p) /\ at[p] = "rmtree" /\ cmd'[p] = cmd[p] /\ ent' = ent
    BY <1>1, <1>3, <2>2 DEF DecidedFits
  <2> QED
    BY <1>1, <1>3, <2>1, <2>2, ToRemove
<1> QED
  BY <1>2, <1>3

LEMMA DiscardKept ==
  ASSUME ApproveAvoids("run"), ApproveAvoids("recover"), RInv, [Next]_vars
  PROVE  RInv'
<1>1. WInv' /\ OpsApart' /\ WInv
  BY NextKeeps DEF RInv
<1>2. ASSUME NEW p \in Procs, Acts(p)
      PROVE  RInv'
  <2>1. \A q \in Procs : ClosedFits(q)' /\ DecidedFits(q)'
    BY <1>1, <1>2, OthersClosed, ActorList, DecidedKept DEF RInv
  <2> QED
    BY <1>1, <2>1 DEF RInv
<1>3. CASE UNCHANGED <<ent, at, cmd>>
  BY <1>1, <1>3 DEF RInv, ClosedFits, DecidedFits
<1> QED
  BY <1>2, <1>3 DEF Next, Acts, OrphanEdit, OrphanEnd, vars

LEMMA Remains ==
  ASSUME ApproveAvoids("run"), ApproveAvoids("recover")
  PROVE  Spec => []RInv
<1>1. Init => RInv
  BY InitKeeps DEF Init, RInv, ClosedFits, DecidedFits
<1>2. RInv /\ [Next]_vars => RInv'
  BY DiscardKept
<1> QED
  BY <1>1, <1>2, PTL DEF Spec

(* The jobs whose completion is on record are completed, and have their    *)
(* commits on their branch.                                                *)
MadeOK == \A j \in made : ent[j].st = "completed" /\ branch[j] = "work"

(* Who records a completion, or takes it back. *)
LEMMA MadeSteps ==
  ASSUME WInv, NEW p \in Procs, Acts(p), NEW j \in Jobs, j \in made'
  PROVE  \/ j \in made /\ ~ (ResolveJob(p) /\ cmd[p].job = j /\ ent' # ent)
         \/ ent'[j].st = "completed" /\ branch'[j] = "work"
<1>1. DInv
  BY DEF WInv
<1>2. CASE Finish(p)
  <2>1. cmd[p].job \in Jobs
    BY <1>1, <1>2 DEF Finish, DInv, ProcsOK, Fits
  <2>2. ent' = ent \/ JobStep(cmd[p].job, cmd[p].result)
    BY <1>1, <1>2, <2>1, MoveJob DEF Finish, DInv
  <2>3. ~ ResolveJob(p)
    BY <1>2 DEF Finish, ResolveJob
  <2>4. CASE Current(p)
    <3>1. JobStep(cmd[p].job, cmd[p].result)
      BY <1>1, <1>2, <2>1, <2>4, MoveJob DEF Finish, DInv
    <3> QED
      BY <1>2, <2>1, <2>3, <2>4, <3>1 DEF Finish, JobStep, git
  <2>5. CASE ~ Current(p)
    BY <1>2, <2>3, <2>5 DEF Finish
  <2> QED
    BY <2>4, <2>5
<1>3. CASE ResolveJob(p)
  BY <1>3 DEF ResolveJob
<1>4. CASE ~ Finish(p) /\ ~ ResolveJob(p)
  <2>1. Load(p) \/ Die(p) => made' = made
    BY DEF Load, RunLoad, RecoverStart, GateLoad, PruneLoad, IntegrateLoad, Die
  <2>2. AddTree(p) \/ MarkRunning(p) \/ Edit(p) \/ Work(p) \/ Commit(p) \/ Decide(p)
        \/ OpenGate(p) => made' = made
    BY DEF AddTree, MarkRunning, Edit, Work, Commit, Decide, OpenGate
  <2>3. RemoveTree(p) \/ RemoveBranch(p) \/ Reap(p) \/ Reset(p) \/ ListOrphans(p)
        \/ PruneOrphan(p) \/ RecoverEnd(p) => made' = made
    BY DEF RemoveTree, RemoveBranch, Reap, Reset, ListOrphans, PruneOrphan, RecoverEnd
  <2>4. ExtendScope(p) \/ Reread(p) \/ Settle(p) \/ Merge(p) \/ Promote(p) \/ ReclaimTree(p)
        => made' = made
    BY DEF ExtendScope, Reread, Settle, Merge, Promote, ReclaimTree
  <2> QED
    BY <1>4, <2>1, <2>2, <2>3, <2>4 DEF Acts, Step
<1> QED
  BY <1>2, <1>3, <1>4

LEMMA MadeKept ==
  ASSUME "recover" \notin Commands, RInv, MadeOK, [Next]_vars
  PROVE  MadeOK'
<1>1. WInv /\ DInv
  BY DEF RInv, WInv
<1>2. ASSUME NEW p \in Procs, Acts(p), NEW j \in made'
      PROVE  ent'[j].st = "completed" /\ branch'[j] = "work"
  <2>1. j \in Jobs
    BY <1>1, <1>2, NextOK, WriteJobsAreJobs DEF Next, Acts, DInv, RestOK
  <2>2. CASE j \in made /\ ~ (ResolveJob(p) /\ cmd[p].job = j /\ ent' # ent)
    <3>1. ent[j].st = "completed" /\ branch[j] = "work"
      BY <2>2 DEF MadeOK
    <3>2. ent'[j].st = "completed"
      <4>1. ent' = ent => ent'[j].st = ent[j].st
        OBVIOUS
      <4> QED
        BY <1>1, <1>2, <2>1, <2>2, <3>1, <4>1, StatusSteps
    <3>3. branch'[j] = "work"
      <4>1. \A q \in Procs : cmd[q].op # "recover"
        BY <1>1, NoneIsNoCommand DEF DInv, ProcsOK, Cmds, AllCommands
      <4>2. \A q \in Procs : ~ Discards(q, j)
        BY <2>1, <3>1, <4>1 DEF Discards, RInv, DecidedFits
      <4>3. DiscardedByFew
        BY <1>1, DiscardsByFew DEF RInv
      <4> QED
        BY <2>1, <3>1, <4>2, <4>3 DEF DiscardedByFew
    <3> QED
      BY <3>2, <3>3
  <2> QED
    BY <1>1, <1>2, <2>1, <2>2, MadeSteps
<1>3. CASE UNCHANGED <<ent, branch, made>>
  BY <1>3 DEF MadeOK
<1> QED
  BY <1>2, <1>3 DEF Next, Acts, OrphanEdit, OrphanEnd, vars, git, MadeOK

(* Without a recover, and while no gate is approved during a run: what a   *)
(* completed job has committed stays on its branch.                        *)
THEOREM CompletedWorkIsKept ==
  ASSUME ApproveAvoids("run"), "recover" \notin Commands
  PROVE  Spec => []CompletedWorkKept
<1>1. ApproveAvoids("recover")
  BY DEF ApproveAvoids
<1>2. Spec => []RInv
  BY <1>1, Remains
<1>3. Init => MadeOK
  BY DEF Init, MadeOK
<1>4. RInv /\ MadeOK /\ [Next]_vars => MadeOK'
  BY MadeKept
<1>5. MadeOK => CompletedWorkKept
  BY DEF MadeOK, CompletedWorkKept
<1> QED
  BY <1>2, <1>3, <1>4, <1>5, PTL DEF Spec
=============================================================================
