# A TLA+ development of `harness`

`harness` is a Go command-line program that lets one agent (the *orchestrator*) delegate
coding jobs to other agents (codex, claude), each in a git worktree of its own, and that
keeps the state of all of it in a directory `.harness/` of the repository. There is no
server: every command, every running job and every hook is a process of its own, and they
meet only in files, in two file locks and in git. What can go wrong is therefore mostly a
matter of interleavings and of processes that die, and that is what this project models.

## 1. Inventory

| part (under `src/`) | state | operations | meets | hard because |
|---|---|---|---|---|
| state engine (`internal/state`) | none of its own; folds the event log into jobs, tasks, gates | create job/task, CAS transitions, recover, resolve, extend scope, open/resolve gate, rebuild views | `state.lock`, event log, view files | callers read revisions from views with no lock; append and view write are two steps |
| event log (`internal/event/log.go`) | `events/<actor>.jsonl`, append only | `AppendRaw`, `Fold` | every writer; some append with no lock | order by wall clock, torn tails, durability |
| event ids (`internal/event/ulid.go`) | last ms, entropy | `New` | tie breaker of the fold | clock set back, carry |
| store (`internal/store`) | view files, lock files | `WriteAtomic`, `FsyncDir`, `AcquireLock`, `TryLock`, `Release` | everything | power loss, death of a holder |
| model (`internal/model`) | entity types, statuses | `ParseJobResult`, `Passed` | | |
| adapter (`internal/adapter`) | one running job | `Run`: worktree, running, runtime, commit, decide, finish, gate | engine, git, runtime | long; any step may be the last; others act in between |
| worktrees (`internal/worktree`) | `.worktrees/<job>`, branch `job/<job>` | `Add`, `Remove`, `RemoveWorktreeOnly` | git | two git commands, no lock |
| recover (`internal/cli/recover.go`, `live*.go`) | `recover.lock` | rebuild views, test liveness, reset jobs, sweep worktrees | engine, git, the process table | acts on a snapshot while jobs run |
| gates (`internal/cli/gate.go`) | gate views | approve, reject | engine, git | several engine calls per decision |
| prune, integrate (`prune.go`, `lifecycle.go`, `internal/integrate`) | delivery branch, a temporary branch and worktree | merge, promote, reclaim checkouts | git, engine | reads jobs once, then acts |
| delegate, task, session (`internal/cli`) | | create jobs, tasks, sessions; budget and depth checks | engine | check-then-act |
| contract and stop hooks (`internal/cli/hook.go`), verify, handoff | `verification.json`, handoff file | `ComputeContract` | reads everything | evidence of different times |
| runtimes (`internal/runtime`) | a child process in a group of its own, `final.json` | `runProcess` under a watchdog, reading the result | OS, adapter, the checkout | exit and timeout race, stale `final.json`, processes that outlive the run |
| scope (`internal/scope`) | none | `Classify`, `ChangedSet`, `Normalize` | adapter, integrate, guard | one rule, applied at three times |
| guard (`internal/guard`) | none | path and command classification before a tool call | the runtime's hooks | advisory: a shell may write anything |
| trellis, init, main | | import/export, set-up, arguments | | pure I/O |

What makes each part correct:

- engine: transitions of one entity are decided on its latest state (no lost update); view
  files are what the log folds to, except where a writer was cut off; at most one open gate
  per job and reason; recovery sends a job back a bounded number of times; the lock is
  always released. In short: it is an atomic store.
- log and store: what an operation reported is durable, as far as its directory is; no reader
  sees half a view; the log can always be read.
- adapter, recover, gates, worktrees: one worker per job; only that worker ends
  its run, and nobody but a human who widens the scope comes between it and its result;
  a run never starts on the leftovers of another; committed work of a completed job is kept
  until it is delivered; after a recover, nothing is stuck; a job in need of a human has a
  gate.
- one run: the watchdog bounds the call of the runtime, unless a child of it keeps the pipes;
  what the runtime had edited when it returned is committed, however it returned; nothing of the
  call edits the checkout once the commit has begun; what is delivered in the end is inside the
  job's scope, as far as one of the two reviews could see it.
- integration: the delivery branch is always one whole integration; what a killed or swept
  integrate leaves never blocks or taints the next.
- contract: what the handoff and the stop hook say is so, although they read their sources one
  after the other while others change them.

`PROJECT.json` lists, at its line, every hazard found in this code and the property aimed at
it.

## 2. Modules

```
HarnessModel          entities, statuses, legal transitions, images of views
  EntityStore         abstract: one atomic store of all entities
  StateEngine         processes x lock x log x views; implements EntityStore
    StateEngineProofs           any clock: types, well-formed log, unique gates
      StateEngineOrderProofs    separate clock: views follow the log, no lost update,
                                views only advance, a rebuild changes nothing, bounded
                                recovery
        StateEngineRefinement   the engine implements EntityStore
    MCStateEngine               for TLC
  Dispatch            run, recover, gate, prune, integrate over EntityStore's operations,
                      git checkouts and branches, process liveness
    DispatchProofs              types
      DispatchWorkersProofs     one worker per job, only it ends its run, a run starts clean,
                                a recover on its own sweeps clean, gates are asked, what may
                                come between a run and its result, its checkout, its work
    MCDispatch
    Adapter           Dispatch's run opened up: runtime, watchdog, result, edits, commit,
                      repair, scope review, verification; implements Dispatch
      AdapterProofs             refinement, types, delivery in scope, what the runtime edited
                                is captured and delivered (also uses DispatchWorkersProofs)
      MCAdapter
  Closeout            integrate with its temporary branch, verify, handoff, the stop hook,
                      gates and recover's sweep, over EntityStore's operations;
                      implements Delivery
    CloseoutProofs              all its properties, the refinement among them
    MCCloseout
  Delivery            abstract: the delivery branch, moved in one step
Scope                 what a job may write (extended by Adapter)
Storage               files, page cache, fsync, rename, kills, power loss
  StorageProofs                 all its properties but LogStaysReadable, which fails
  MCStorage
```

The layers join as follows. `Storage` is about bytes and durability below one engine
operation. `StateEngine` takes appends and view writes as steps, interleaves whole processes
around them, and is shown to implement `EntityStore`, in which an engine operation is one
step. `Dispatch` builds the commands out of `EntityStore`'s operations (`Store!Move`,
`Store!Recover`, ...), which that refinement licenses, and interleaves commands; so does
`Closeout`, for the commands that end a task. `Adapter` extends `Dispatch`, replaces the
steps of a run by what the adapter and the runtime do inside them, keeps the steps of all
other commands, and is shown to implement `Dispatch`. `Dispatch` looks at one job closely (worker,
checkout, branch), `Closeout` at several jobs of a task and what is made of them.

**HarnessModel.** `JobLegal` and `PhaseLegal` are the two tables of `engine.go:25-42`.
`Image` is what the properties tell apart of a view: status, revision, recover count, the
globs a human added, a gate's job and reason. Worker stamp, workdir, branch and base commit
are in `Dispatch` as variables (`worker`, `tree`, `branch`). A task's `status` is not
modelled: no code emits `task.status_changed`.

**StateEngine.** A process is `idle`, `waiting` (for `state.lock`), `folded` (holds it, has
folded the log into `known[p]`) or `writing` (has appended, owes the views in `pending[p]`).
One action per engine operation; `Begin` takes the expected revision from the view with no
lock, as the callers do. Each operation appends through `AppendRaw`, which stamps the event;
`Folded` is `Reduce` over the sorted log, `Apply` the engine's own update of the image that
it writes. `Abort` stands for a killed process *and* for an append, fold or view write that
fails: in both cases the deferred `Release`, or the kernel, frees the lock. `ClockSteps`
says what the wall clock may do between two commits: `{1}` separates them, `0` is a tie
within a millisecond, `-1` a clock set back. Wall clocks promise none of this, so every
property that needs `{1}` says so, here and in the theorems.

**Storage.** A file is a sequence of complete lines' events and torn pieces; `synced` and
`linked` say what a power loss keeps, `evdir` and `home` whether the directories themselves are
on the disk: `MkdirAll` makes `events/` (`log.go:28`) and those of the views (`atomic.go:15`),
nobody fsyncs what they are in (nor what the session's directory is in, `session.go:33`), so
they start absent, are `cached` once made, and become `durable` only when the kernel writes them
back (`WriteBack`) or by having survived. A power loss may take a `cached` one with all it holds;
`lost` records the events that went so. `AppendRaw` is `AppendRaw`, `SyncFile`, `LinkFile`;
`WriteAtomic` is `CreateTemp`, `SyncTemp`, `Rename`, `SyncDir`, each one system call of the
source. `ShortWrite` is a write that returns an error with part of the record on disk.

**Dispatch.** A process is at a named point (`at[p]`) of one command (`cmd[p]`), and any other
process may act between two points. Points are placed between any two actions on shared state:
engine operations, git commands, reads of views. `cmd[p].live` is the set of jobs whose worker
stamp, as recover read it, names a process that is still alive; it shrinks when that process
ends (`Exit`) and does not grow when a new worker takes the job, which is exactly what testing a
pid read earlier means. A runtime that is not dead when its run is over is in `orphan`: because
the harness process was killed (the runtime is in a group of its own), or because it had left
the group and closed its pipes. `AddTree` fails if checkout or branch exist; `RemoveBranch`
fails while a checkout has the branch, both as git does. The runtime is the set of outcomes
`decide` distinguishes (`Results`); what it edits is `tree[j] = "dirty"`. Nothing in the code
keeps two commands from overlapping but `recover.lock`, which is for two recovers. `Apart` is a
condition on the environment, empty in every run but `dispatch_sweep` and `dispatch_workers`:
pairs of commands the users do not have under way together. Section 3 says what it is for.

**Scope.** Globs and paths are opaque and `Matches` says which glob matches which path:
`scope.Match` compiles a glob to a regular expression, and that is string work. `Classify`
is the order of precedence, `Violations` the review of a change set (the adapter's, the
hook's after a call and integrate's are the same function), `EvalPaths` the hook's verdict
before a call.

**Adapter.** `step[p]` is where a run is inside `Dispatch`'s points `work`, `commit` and
`decide`. `Spawn`, `Reaped`, `Kill`, `Expired` and `SpawnFails` are `runProcess`: the process
may exit, the watchdog may fire, and `select` may take either case when both have happened.
`Kill` is the signal to the process group, `Expired` the return that follows it: in between is
the wait for `cmd.Wait` (`exec.go:47`), which lasts as long as anybody holds the pipes of the
call (`pipes[p]`). A child that has left the group with them (`Escape`) is not killed, writes
on, and may or may not let go (`LetGo`); the same wait is at the end of every call. The result
is read from where the runtime leaves it (`Out`): codex writes a file per job, which nothing
removes before the next call, claude prints. `Judge` is `decide` up to the result, with the
repair call as a second call of the runtime that has no watchdog; `Review` and `Verify` are the
rest. `edits[j]` and `commits[j]` are sets of paths: a path git ignores can be edited but never
makes the checkout dirty nor gets committed, yet the review sees it. `MergeReviewed` adds
integrate's own review of the branch to `Dispatch`'s merge, with the scope the job then has,
which only grows. Both reviews fail open, and `Blindness` says how: a `git diff` that fails
hides everything (`adapter.go:206`, `integrate.go:95`), a `reserved.json` that cannot be read
hides the reserved paths (`run.go:40`, `lifecycle.go:58`), each on its own. `blind` records, per
job, what the review of its last run and that of integrate could not see. Every other action of
`Dispatch` is taken over by `Inherit`, with what it does to the files. `early`, `shipped` and
`blind` are history variables.

**Closeout.** `tree` and `tmp` are integrate's worktree `.worktrees/__int__<tid>` and branch
`harness/integration/<tid>-tmp`, `delivery` the branch `harness/integration/<tid>`; a branch is
the set of jobs merged on it. Every git command of `setupWorktree`, of the merge loop, of the
promotion and of the teardown is a step, with git's own refusals (`branch -D` of a branch a
worktree has, `worktree add -b` of one that exists). A merge may be refused for any job
(scope, conflict, a branch that is gone) and always is once recover has swept the worktree.
Jobs are created and run by `Delegate` and `RunJob` as the engine allows. `HandoffRead` and
`HandoffWrite` are two steps because the event log is read before the file is written.
Integrate and the stop hook list a directory of views and then read one view after the other,
each read a step, so that what they have read need never have been so at one time
(`IntegrateList`, `IntegrateRead`; `StopList` to `StopAnswer` for `ComputeContract` in its
order). Once the hook has found something missing its answer is no, and its further reads,
which only add to the message, are left out (`Pursue`). The reclaim of checkouts after an
integrate is in `Dispatch` only.

**Delivery.** What integrate promises to whoever looks at the delivery branch: an integrate
looks at every job that was done when it began, one after the other, takes those that are done
when it looks, and later delivers exactly these in one step, or nothing. They need not all have
been done at one time. A job rejected after it was looked at is delivered all the same, as in
the code (`lifecycle.go:53` reads the jobs once); one rejected before, or not done, never is.
`Closeout!Promised` is the refinement mapping: a job is done or rejected as its entity says,
what an integrate has taken is its list up to the promotion, what it has not yet looked at is
what it has still to read.

## 3. Runs

Bounds are constants of the configurations. Counters never stop a command half way: `MaxRev`
only keeps new commands from starting on a job beyond that revision, `MaxEvents` in
`StateEngine` makes an append fail as a full disk would, `Room` in `Closeout` keeps a gate id
free per integrator. In `Dispatch` a command that would open a gate when none is left goes no
further; a gate that is open for the same job and reason is reused, as in the code. Where a run
says `CHECK_DEADLOCK FALSE` it is because the bound (or an empty queue of commands) is a proper
end.

| run | instance | shows |
|---|---|---|
| `engine_jobs` | 2 processes, 1 job, all job operations and rebuild, 5 events, separate clock | `TypeOK`, `NoLostUpdate`, `ViewsFollowLog`, `RecoverBudget`, `ViewsNeverGoBack`, `ImplementsStore` |
| `engine_gates` | 2 processes, job + task + 2 gate ids, any clock, 3 events | `OneOpenGate`, `LockReleased` |
| `dispatch_workers` | 2 processes, all six commands, approve never during a recover; killed anywhere; runtimes outlive runs, `git status` and `commit` fail; 2 gate ids, a glob a human may add, retry cap 1, revision 5 | `OnlyWorkerEnds`, `LiveCheckoutStays`, `OnlyScopeIntervenes`, `CompletedWorkStays` |
| `dispatch_sweep` | 2 processes, all six commands, approve never during a recover or a prune; killed anywhere but inside `worktree.Remove`; 2 gate ids, retry cap 1, revision 8 | `TypeOK`, `SweptClean`, `OneWorker`, `CleanRerun` |
| `adapter` | 1 process, 1 codex job, 1 gate id; run, recover, approve with a wider scope, integrate; killed inside a run; a child of the runtime leaves its group and holds the pipes, runtimes outlive a killed run; `commit` and `diff` fail, `reserved.json` is unreadable; 4 paths: in scope, one a human may add, allowed but reserved, ignored | `AdapterTypeOK`, `DeliveredInScope`, `WorkCaptured`, `DeliveredCaptured`, `NeedsHumanHasGate`, `ImplementsDispatch`, `FirstCallEnds` |
| `closeout` | 2 processes, 2 jobs, 2 gate ids, one of them integrates, the other runs the stop hook, both everything else; killed wherever something was changed | `TypeOK`, `LeftoversNeverBlock`, `HandoffTruthful`, `DeliveredWereDone`, `DeliversItsList`, `ImplementsDelivery`, `StopSound` |
| `storage` | 2 processes, 2 actors' files, 1 view, 3 events, kills once durable, power loss anywhere | `TypeOK`, `ReturnedSurvives`, `ViewsBackedByLog`, `ViewsWholeAndKept` |
| `engine_clock` | ties | `IncrementalEqualsRebuilt` **fails** |
| `dispatch_stale` | all gate commands, no crash | `OnlyWorkerEnds` **fails** |
| `dispatch_lost` | one process, no crash | `CompletedWorkKept` **fails** |
| `adapter_captured` | 1 process, 1 claude job, no crash | `CompletedCaptured` **fails** |
| `storage_torn` | a short write or a kill | `LogStaysReadable` **fails** |

Why the bounds are enough for what they are used for. Entities do not interact except through
the log, the lock and gate reuse, so one job (or one of each kind) with two processes shows
every race of two operations; five events hold creation, running, recovery, re-run and a second
recovery, which is what `RecoverBudget` with a cap of 1 and the revision checks need. Two gate
ids are what a duplicate needs. In `Dispatch` two processes show a command at any point of
another; a process that has ended or died is used again as a new one, so what an earlier command
left behind is met too, and two recovers around one run are one process' recover before and
after. All six commands fire in both runs, integrate and its reclaim included, though a
completed job is never started again, so against a run the reclaim only guards what `ClosedFits`
proves. Revision 5 of `dispatch_workers` holds a run, a decision that extends the scope, and the
next run. In `dispatch_sweep` revision 8 holds a run that fails, a human decision, a second run
that fails, a second decision and a third run, with a recover at any point. In `Adapter` one job
is enough, for a run touches only its own checkout and branch, and revision 6 holds a run, a
review by a human who widens the scope, a second run on what the first left in `final.json`, and
its delivery: that a path a human added is delivered with both reviews seeing everything is
reached, and so is a reserved path with both blind. One gate id is enough for that, as a job
asks its human once; a second process and a second gate are what the theorems are for. In
`Closeout` two jobs make an integration that is not whole, two processes one integrate and one
other command at any point of it, and kills make integrate after integrate; a process that has
only read is not killed (`Midway`), for it leaves what one that never began leaves. Nothing else
is bounded, revisions are by the engine's own rules. In `Storage` three events give a record
before and one behind a torn piece in one file, and two events of one view with another one in a
second file beside it.

What the failing runs show, with the lines they contradict, is under `findings`:

1. `engine_clock` - the fold order is (timestamp, actor, id), not commit order. Two commits
   within a millisecond may be folded the other way round, and then rebuilt views differ from
   the ones the writers wrote. With a clock that separates commits they agree
   (`RebuildChangesNothing`).
2. `dispatch_stale` - recover tests the liveness of a worker it read earlier and then resets
   whatever run the job is in by then. `RecoverJob` has no CAS. `OnlyWorkerEnds` holds if no
   gate is approved while a recover is under way (a theorem, and `dispatch_workers`), because
   only a human decision makes a job runnable again while recover is at work.
3. `dispatch_lost` - the orphan sweep of recover takes the branch of completed jobs. Nothing
   else does but an approve that is late with its removal (`CompletedWorkIsKept`, without
   recover and approvals during a run; `CompletedWorkStays`, with both).
4. `adapter_captured` - the repair call edits the checkout after the commit, and nothing
   commits again: a job can be completed, and verified, by edits that are not on its branch.
   Where nothing writes so late, a completed job leaves nothing behind (`CompletedIsCaptured`).
5. `storage_torn` - a torn tail is skipped but not cut off, so the next append glues on.

Some runs or properties carry a condition or name an exception that keeps a known failure out.
`NeedsHumanHasGate` is checked in `adapter`, with one process that is killed inside its run
only: `needs-human` and its gate are two operations, no command repairs a crash between them,
and the property fails then, although the adapter says a gate is opened "whenever a job enters
needs-human" (`adapter.go:108`). The same goes for the two steps of a decision, which leave the
gate closed and the job as it was, and for an approve of the gate of a job that still runs: it
settles the gate the job later relies on and, going by the status it read before (`gate.go:60`),
leaves the job alone. The theorem `HumanIsAsked` has these as its assumptions; the property does
not catch those hazards, it says that nothing else does it. `dispatch_workers` keeps `approve`
apart from `recover`, for (2), and from nothing else. `OnlyScopeIntervenes` therefore includes
what a decision does to a job that runs: approving extra files bumps its revision (`gate.go:63`;
`ExtendJobScope`, `engine.go:400-430`, looks at no status), and the CAS that would record the
run's result then fails. The v1 specification asks for both halves of this, that the extension
be made persistent by CAS (`docs/harness-v1-spec.md:351`) and that the scope change only while
the job is not running (line 353); the code does not enforce the second. The property says that
nothing but such an extension comes between a worker and its result, and that it leaves the job
running. `LiveCheckoutStays` names whoever takes the checkout of a job that is worked on:
recover and prune by a list read before the run began, or an approve that has reset the job and
still owes the removal (`gate.go:77`). `CompletedWorkStays` names whoever deletes the branch of
a completed job: a recover, as an orphan's or because the run ended after it was found without a
worker, or such an approve. That these do it is a behaviour of the code and of the model; what
the two properties say is that no other command does, reject, prune and integrate included.
`WorkCaptured` and `DeliveredCaptured` are checked with a `git status` that works: a failing one
counts as a clean checkout (`adapter.go:440`) and the run's work is not committed. `CleanRerun`
is checked without runtimes that outlive their run (`Outliving`): one that does edits the
checkout of the next run, for both have the same path. `ReturnedSurvives` excuses events
appended right behind a torn piece (5) and events that went with `events/` itself, whose entry
nobody fsyncs, although the comment in `log.go:48-51` speaks of the directory fsync as what
keeps the log; views are excused in the same way. `storage` lets a process be killed only
outside the stretch between `write` and the end of the fsyncs: within it, another process may
fold the event and rebuild a view from it, and a power loss may then take the event and leave
the view (two faults in a row). `dispatch_sweep` does not kill inside `worktree.Remove`: a
branch left there is found by no later sweep, because the sweep looks for checkouts. It keeps
`approve` apart from `recover` and from `prune` (`Apart`), because both act on a list of jobs
they read once. With the list of a recover (2), a job that was approved and started again
meanwhile is reset while its new worker edits, and the run after that starts on those edits:
`CleanRerun` fails. With the list of a prune, the checkout of a job that was approved and is
being started again is removed; if that run dies before the job is recorded as running, a
created job has a branch and no checkout, which no sweep finds: `SweptClean` fails. Both take
three runs of a job, hence revision 8. `closeout` runs one integrate at a time (`Integrators`):
two of them delete each other's worktree and may promote what the other merged, so that
`LeftoversNeverBlock`, `DeliversItsList` and `ImplementsDelivery` fail; no lock prevents two,
and no document says that there may be two. What two integrates cannot do is deliver a job that
was not done (`DeliveredWereDone`, proved for any number of them). `DeliversItsList` promises
one integrate's list, which was read one view after the other: not that the jobs on it were
completed at one time, nor that none was rejected in the meantime. Both are behaviours of the
model too, and of `Delivery`. `StopSound` excuses jobs rejected after they were read, and says
nothing of jobs delegated and gates opened after the directory was listed: the code does not
look again. `DeliveredInScope` excuses what both reviews failed to see, and `FirstCallEnds` a
child that left the process group and never lets go of the pipes.

A run that uses symmetry checks safety properties only; `engine_gates`, with the one liveness
property, uses none.

## 4. Fairness

Two properties are about liveness. `LockReleased`: `Spec` of `StateEngine` assumes weak fairness
of `Holder(p)`, what a process inside an operation does next: a process that runs keeps
executing, and the operations have no wait inside. Nothing forces a process to begin a
call, to die, or to be the one among waiters that gets `state.lock`: `flock(2)` promises no
order, so nothing is claimed about a waiter. `Dispatch` assumes weak fairness of `Step(p)`
for the same reason, and so that its runs cannot be dismissed by a process that just stops.
`FirstCallEnds`: `AdapterSpec` assumes weak fairness of `AdapterStep(p)`, the harness process
itself, and of `Timeout(p)`, for a timer of the Go runtime does fire. The coding agent owes
nothing: it may run for ever and never write a result. That is why nothing is claimed of a
run as a whole: the repair call has no watchdog, and verification commands have none either.

## 5. Proofs

All theorems hold for every value of the constants: any number of processes, jobs, tasks,
gates, any retry cap, any `MaxEvents`, any subset of operations, under the named
assumptions of the modules (sets disjoint, `None` outside them, bounds natural).

**Types and the log, for any clock** (`StateEngineProofs`). `TypeOK` is not inductive: that
the fold of the log is an image at all needs to know that every entity in the log was
created exactly once, that its events have a last one in fold order, one that sets the
status and one that sets the recover count, and that the lock holder's `known` is the fold
of the present log, for it is from `known` that the next event is made. That is `IInv`:
types, `LockInv` (who is inside an operation holds the lock), `CallInv`, `KnownInv`,
`PendingInv`, `WellFormed(log)`. The central lemmas are `TopAfterAppend` (the last of a set
of events after an append) and `FoldedApplied` (folding one more event, when it sorts
last, is `Apply`). `TypeCorrect` and `LogWellFormed` follow. No clock is assumed:
`Readable` guards the fold as the error of `Reduce` does.

**Order, for a clock that separates commits** (`StateEngineOrderProofs`, under
`Strict == \A d \in ClockSteps : d > 0`). With timestamps that grow, fold order is commit
order (`OrderInv`), so the image a writer owes equals what the log folds to. `VInv` adds
`OwedInv` and `ViewInv` to `IInv`; from it `ViewsFollow` (`ViewsFollowLog`), `NoUpdateLost`
(`NoLostUpdate`) and the action property `ViewsOnlyAdvance` (`ViewsNeverGoBack`), the last
with the lemma that revisions of an entity grow along the log. While the lock is free and no
writer was cut off, the views are the fold, so a rebuild writes what is there already
(`RebuildChangesNothing`, `IncrementalEqualsRebuilt`). `engine_clock` shows that `Strict` is
needed.

**Recovery** (`StateEngineOrderProofs`, under `Strict`). A job's recover count is set only
by recovery, and each recovery writes one more than the count it has seen, which by the order
invariant is the last one written. So the events of one job that send it back to `created`
carry pairwise different counts between 1 and `MaxRetries`, and there are at most
`MaxRetries` of them (`RecoveryIsBounded`).

**Gates, for any clock** (`StateEngineProofs`). Order does not matter here: a gate's log
is its opening and its settlements, no two openings of one job and reason are open at once,
and the check and the append are under one lock with `known` equal to the fold
(`GatesAreUnique`).

**Refinement** (`StateEngineRefinement`, under `Strict`). `EngineImplementsStore` is
`Spec => ImplementsStore`, with the fold of the log for the abstract entities. A step that
appends nothing stutters. A step that appends is one operation of the process that holds the
lock; `OperationCommits` says which event it makes out of `known`, `FoldedApplied` that the
fold after it is `Apply` of that event, and one lemma per kind of operation that this is the
abstract operation. `Strict` is needed: with ties an append may leave the fold as it was or
change it otherwise.

**Commands** (`DispatchProofs`, `DispatchWorkersProofs`). `DInv` gives, for every point of every
command, what the process has read by then (`Fits`), which is what makes types inductive.
`OneWorker` rests on two things: `WorkersOK`, that the process working on a job is the worker
stamped on it, and `SweepFits`, that a job which recover found running without a live worker
still has none: nothing but recover's own reset takes a job back to `created`, and recovers
exclude each other by `recover.lock`. A human decision does so too, hence the assumption
`ApproveAvoids("recover")`: no gate is approved while a recover is under way, which `OpsApart`
carries from the constant `Apart` to the processes. `dispatch_stale` shows that `OnlyWorkerEnds`
is false without it. Under it `JobHasOneWorker` and `WorkerEndsItsRun`; `reject`, and `approve`
at any other time, are included.

`RerunIsClean` adds `FreshFits`: as long as the CAS of a run to running would succeed, the job
is created, and once `worktree add` is done its checkout has no edits and its branch no commits,
for `add` refuses what is there and only a worker edits or commits; a late `Remove` of approve
or recover only takes away. That needs `Outliving = {}`, a runtime that is dead when its run is
over.

`RecoverSweepsClean` is about a recover that ran alone after anything at all, so its
invariant has to say what any command may leave. `ListFits`: what prune, integrate, gates and
recover still have on their lists can only be jobs for which removing the checkout, or the
branch, does no harm. `BranchOK`: a created job with a branch and no checkout has a process
that is removing the branch. From the moment recover is alone, `SoloFits`: it has all running
jobs still before it, or none runs and it has all checkouts before it. It also needs
`ApproveAvoids("prune")` and no kill inside `worktree.Remove`.

`HumanIsAsked` rests on `HInv`: a job in need of a human has an open gate, or a process about to
open one (`Opening`), or one about to apply a decision to it (`Deciding`); and `GateFits`: a gate
command has a gate of its own job, and an approve about to settle it knows whether the job needs
a human, so that it never closes the gate and leaves the job. It assumes that approve keeps apart
from run and recover, and that no process is killed at `gate` or `resolve`. `ApproveAvoids`
also holds where there is only one process, so the theorems cover `Adapter`'s instance.

What others may do to a job that is worked on is in `LInv`: an extension of the scope comes from
`approve` only, a recover never sweeps what it found alive (`OwnFits`), and the lists of
integrate and reject are of jobs that ended for good (`ClosedFits`). With
`ApproveAvoids("recover")` alone it gives `ScopeAloneIntervenes`, `CheckoutStays` and
`FewDiscardWork`, each with the exceptions its property names. Where nobody recovers, the work
of a completed job is never given up (`CompletedWorkIsKept`, with `RInv`: a job whose checkout
an approve still has to remove has not completed since, `DecidedFits`, where no run is under way
beside an approve; and `MadeOK`: a completion on record is one with its commits on the branch).

**One run** (`AdapterProofs`). `AInv` adds to `DInv` where a process is inside a run (`CallsOK`)
and how checkout, edits and commits go together (`FilesOK`). Each step of the adapter is a step
of `Dispatch` or leaves its variables alone (`AdapterImplementsDispatch`, no assumption); so
what is proved of `Dispatch` carries over, as `AdapterHasOneWorker` does with `OneWorker`.
`DeliveryInScope` follows what is on a branch from the review of its run to integrate's:
`Vetted` says that what a completed job has on its branch passed the first review with the
blindness on record, `ShipsVetted` that what is merged passed both, and a scope never shrinks.
Nothing commits between the two, as only the one worker of a job commits (`WInv`), hence
`ApproveAvoids("recover")`.

What the runtime had edited when it returned (`early`) is followed from the call to the delivery
branch. `RunIsCaptured` rests on `KInv`: besides `LInv`, at every point of a run its branch is
there (`BranchFits`), and as long as its checkout is there, the edits of the runtime are among
the edits when the commit begins (`commit`) and on the branch from then on (`decide`, and
`finish` unless a human is to be asked) (`EditsFit`). A job ends only by the step of such a run,
and a branch loses its commits only once its checkout is gone. `DeliveryHasTheWork` goes on from
there (`EInv`): a completed job that still has a branch has all of the edits on it, whether or
not its checkout is left (`BranchCaptured`); for that the checkout of a run must stay until it
ends (`StaysFits`), hence no approval during a prune (`PruneFits`); and what integrate has
merged but not yet promoted is whole (`CarryFits`). Both hold for any number of processes, of
jobs and of outliving runtimes. They assume a `git status` that works, `approve` apart from
`run` and `recover`, and `recover` apart from `run` (`RecoverAvoids`; with a single process
nothing need be assumed). The last is needed for more than the sweep of a live checkout: recover
may take checkout and branch of a job another process is about to start, `AddTree` of that run
then makes them anew from the base commit, and if the job has ended meanwhile, an ended job has
a checkout without its work.

`CompletedIsCaptured` is the property of `adapter_captured` where nothing writes late: no edits by
the repair call or by verification (`LateEditors = {}`), no runtime that outlives its run. Then
every checkout is tidy once the commit has succeeded, and stays so until the job ends (`TInv`).

**Closeout** (`CloseoutProofs`). `CInv` says for every point of integrate what it has read
(`Fits`), what the temporary worktree and branch are then (`World`), and what is on the
temporary branch (`Own`). Types, `HandoffIsTrue` and `StopIsSound` hold for any number of
integrates at once: the delivery branch never goes away, a completed job can only be cancelled,
and a gate that is closed stays closed; `CInv` says for every point of the stop hook what of its
lists it has read and what that implies, now. `DeliveryWasDone` adds that what is on the two
branches was done (`BranchesOK`) and holds for any number too. `SetupClears` and
`DeliveryIsWhole` assume `OneIntegrator`; section 3 says why. So does
`CloseoutImplementsDelivery`: under the mapping `Promised`, the listing of the job views is
`Begin`, a read of one view `Look`, the promotion `Deliver`, a refused merge or a death
`GiveUp`, a change of a job's entity `Decide` if it shows, a written handoff `HandOff`, and
everything else stutters. That the promotion delivers just what was taken is `Own`, that `tmp`
is the list merged so far.

**Storage** (`StorageProofs`). `SInv` = `LogInv` (places of the files, what of them is synced,
and that `glued` are exactly the events right behind a torn piece), `ProcsOK` (what a process
inside `AppendRaw` or `WriteAtomic` holds) and `HistOK` (events whose append returned are
durable, in a directory that may not be, or lost with it). It is inductive wherever processes
are killed, so `StorageTypeCorrect` and `ReturnedEventsSurvive` assume nothing. `VInv` adds that
an event that is not durable belongs to a process inside its append (`OwedOK`) and that every
inode a view can lead to, now or after a power loss, is a whole write of a durable event
(`ViewsOK`). That needs `Careful`: no process is killed between the write and the fsyncs, the
condition `storage` is run with. Under it `LogAheadOfViews` and `ViewsAreWholeAndKept`.

**Only model-checked:** of the safety properties of the passing runs, none.
**Beyond the prover:** `LockReleased` and `FirstCallEnds` (liveness under fairness).

## 6. Abstractions

- In `Dispatch`, reads of several views at the start of a command (recover, integrate, prune)
  are one step. The files are read one by one, so the code allows more interleavings than the
  model. `Closeout` has integrate's and the stop hook's reads one by one.
- A view that cannot be read or parsed is skipped by `jobsForTask` and `countOpenGates`; the
  model's views can always be read, for the writes are atomic.
- In `Dispatch` an engine call that fails for a reason outside the model (disk, permissions)
  is a process that dies there: the commands return at once in that case, and where they
  carry on instead (`_ = ...`), a later step is one the model takes anyway.
- Merging is nondeterministic: any completed job may be refused, and a branch that is gone
  always is. The reasons `denied-change-at-integrate` and `merge-conflict` are one reason.
- The runtime of a job whose role does not write edits nothing: it runs with read-only tools.
  The repair call does not have that restriction, and there the model is narrower than the
  code.
- A run's repair call and its verification commands may never end, nor may its first call if a
  child keeps the pipes. A child that leaves the group does so with the pipes or after closing
  them; those of a verification command are not told apart from the command itself.
- The scope at a review is what the job's view says at that time.
- Event ids of different processes are random within a millisecond; a clock step of -1
  covers that order. Only events of entities are in `StateEngine`'s log; informational
  events do not change what `Reduce` returns, and are in `Storage` as lock-free appends.
- A pid is dead once its process ended. Reuse of pids is not modelled.
- A directory fsync works. `FsyncDir` ignores its failure.

Not modelled, and why: trellis, init, main (I/O); of scope and guard the regular expressions of
globs, the resolution of symbolic links, the classification of shell commands and the parsing of
hook payloads (string work); prompts, artifacts and findings (data nobody reads back into the
state); delegation's checks are planned below; the worker's stop hook and the session hooks read
one file and change nothing.

## 7. Plan

Done: `HarnessModel`, `EntityStore`, `StateEngine`, `Dispatch`, `Scope`, `Adapter`, `Storage`,
`Closeout`, `Delivery`, the runs and theorems above. Every safety property of the passing runs
is proved.

Next, in this order:

1. **Delegation** - depth, loops and budget over folded usage, with concurrent delegations.
2. Two integrates at a time, and what the delivery branch can still promise then; whether a
   human can always bring a task to its end (liveness).
3. Event ids: that those of one process grow, also when the clock is set back.

## 8. Running

    tlc -workers 2 -config EngineJobs.cfg MCStateEngine
    tlapm StateEngineProofs.tla
    tlapm StateEngineOrderProofs.tla
    tlapm StateEngineRefinement.tla
    tlapm DispatchProofs.tla
    tlapm DispatchWorkersProofs.tla
    tlapm AdapterProofs.tla
    tlapm CloseoutProofs.tla
    tlapm StorageProofs.tla

Operators marked `MUTANT` are plausible wrong versions of the definition below them; with
one put in the place of its original, the property `PROJECT.json` names for it fails.
