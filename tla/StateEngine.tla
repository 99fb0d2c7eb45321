----------------------------- MODULE StateEngine -----------------------------
(***************************************************************************)
(* internal/state over internal/event and internal/store: any number of    *)
(* harness processes run the engine's operations on one session.  Each     *)
(* operation takes state.lock, folds the event log, checks, appends one    *)
(* event, rewrites the entity's view file and releases the lock.           *)
(*                                                                         *)
(* The log is kept in commit order; Reduce sees it in fold order, which is *)
(* (ts, actor, event_id).  The clock constant says how far two readings of *)
(* the wall clock lie apart: {1} is a clock that separates commits, 0 is a *)
(* tie within one millisecond, -1 a clock that was set back.               *)
(***************************************************************************)
EXTENDS HarnessModel, Sequences, FiniteSets

CONSTANTS
  Procs,        \* processes: CLI invocations, adapters, hooks
  Ops,          \* operations this run exercises, a subset of AllOps
  Targets,      \* statuses and phases that callers ask a transition for
  ClockSteps,   \* increments between the timestamps of two commits
  MaxEvents     \* BOUND on the log; an append beyond it fails (disk full)

AllOps == {"create", "move", "recover", "resolve", "extend", "open", "settle",
           "rebuild"}
CasOps == {"move", "extend"}     \* operations that take an expected revision

ASSUME OpsAreKnown == Ops \subseteq AllOps
ASSUME ClockStepsAreInts == ClockSteps \subseteq Int
ASSUME MaxEventsIsNat == MaxEvents \in Nat
ASSUME NoneIsNoProc == None \notin Procs

VARIABLES
  log,      \* events in the order they were appended
  clock,    \* timestamp of the last append
  view,     \* the view file of each entity (Absent: no file)
  lock,     \* who holds state.lock, or None
  pc,       \* where each process is: idle, waiting, folded, writing
  call,     \* the operation each process runs and its arguments
  known,    \* the state each lock holder folded from the log
  pending,  \* view files the process has yet to write, as <<entity, image>>
  stale     \* history: entities whose last event never reached the view

vars == <<log, clock, view, lock, pc, call, known, pending, stale>>

-----------------------------------------------------------------------------
(* The log and its reduction *)

NoCount == -1          \* an event that leaves recover_count alone

(* Actors as they sort; every opener of a gate sorts after "human". *)
Actor(op, e) ==
  CASE op \in {"resolve", "extend", "settle"} -> 0                 \* human
    [] op = "create" \/ (op = "move" /\ e \in Tasks) -> 1          \* orchestrator
    [] op = "recover" -> 2                                         \* recover
    [] OTHER -> 3                                                  \* worker:<jid>

Event == [kind : {"created", "changed", "extended", "violation"},
          ent : Entities, actor : 0..3, ts : Int, expect : Nat, rev : Nat,
          from : Status \cup {None}, to : Status \cup {None},
          rc : Nat \cup {NoCount}, glob : Globs \cup {None},
          job : Jobs \cup {None}, reason : Reasons \cup {None}]

(* Fold order.  event_id breaks the remaining ties.  It grows with each    *)
(* event of a process, so commit order stands for it; between two          *)
(* processes it is random, which a step of -1 of the clock stands for.     *)
Before(L, i, k) ==
  \/ L[i].ts < L[k].ts
  \/ /\ L[i].ts = L[k].ts
     /\ \/ L[i].actor < L[k].actor
        \/ L[i].actor = L[k].actor /\ i < k

Latest(L, S) == CHOOSE i \in S : \A k \in S \ {i} : Before(L, k, i)

(* The events of log L that Reduce applies to entity e, those that set its *)
(* status, those that set its recover_count and those that add a glob,     *)
(* with the globs added.                                                   *)
Mine(L, e)    == {i \in DOMAIN L : L[i].ent = e /\ L[i].kind # "violation"}
Moved(L, e)   == {i \in Mine(L, e) : L[i].to # None}
Counted(L, e) == {i \in Mine(L, e) : L[i].rc # NoCount}
Widened(L, e) == {i \in Mine(L, e) : L[i].glob # None}
Added(L, e)   == {L[i].glob : i \in Widened(L, e)}
Opening(L, e) == CHOOSE i \in Mine(L, e) : L[i].kind = "created"

(* Reduce's answer for e: a field is what the last event that sets it      *)
(* says, scope additions accumulate.                                       *)
Folded(L, e) ==
  IF Mine(L, e) = {} THEN Absent
  ELSE [st      |-> L[Latest(L, Moved(L, e))].to,
        rev     |-> L[Latest(L, Mine(L, e))].rev,
        rc      |-> L[Latest(L, Counted(L, e))].rc,
        allowed |-> Added(L, e),
        job     |-> L[Opening(L, e)].job,
        reason  |-> L[Opening(L, e)].reason]

State(L) == [e \in Entities |-> Folded(L, e)]

(* Reduce fails on a change that sorts before its entity's creation. *)
Readable(L) ==
  \A i \in DOMAIN L : L[i].kind \in {"changed", "extended"} =>
    \E c \in Mine(L, L[i].ent) : L[c].kind = "created" /\ Before(L, c, i)

(* MUTANT: the engine updates status and revision, not recover_count. *)
Apply_ForgetsCount(v, ev) ==
  IF ev.kind = "created"
  THEN [st |-> ev.to, rev |-> ev.rev, rc |-> ev.rc, allowed |-> {},
        job |-> ev.job, reason |-> ev.reason]
  ELSE [v EXCEPT !.st  = IF ev.to = None THEN @ ELSE ev.to, !.rev = ev.rev,
                 !.allowed = @ \cup ({ev.glob} \ {None})]

(* The engine's own update of the folded image, the one it writes. *)
Apply(v, ev) ==
  IF ev.kind = "created"
  THEN [st |-> ev.to, rev |-> ev.rev, rc |-> ev.rc, allowed |-> {},
        job |-> ev.job, reason |-> ev.reason]
  ELSE [st  |-> IF ev.to = None THEN v.st ELSE ev.to,
        rev |-> ev.rev,
        rc  |-> IF ev.rc = NoCount THEN v.rc ELSE ev.rc,
        allowed |-> v.allowed \cup ({ev.glob} \ {None}),
        job |-> v.job, reason |-> v.reason]

-----------------------------------------------------------------------------
(* Calls *)

NoCall == [op |-> None, ent |-> None, arg |-> None, expect |-> 0]

Requests ==
  LET Req(op, E, A) == {[op |-> op, ent |-> e, arg |-> a, expect |-> 0] :
                          e \in E, a \in A}
  IN  Req("create", Jobs \cup Tasks, {None}) \cup
      Req("move", Jobs, Targets \cap JobStatus) \cup
      Req("move", Tasks, Targets \cap TaskPhase) \cup
      Req("recover", Jobs, {None}) \cup
      Req("resolve", Jobs, {"cancelled", "created"}) \cup
      Req("extend", Jobs, Globs) \cup Req("open", Jobs, Reasons) \cup
      Req("settle", Gates, {"approved", "rejected"}) \cup
      Req("rebuild", {None}, {None})

(* A caller takes the revision it expects from a view file, with no lock,  *)
(* and gives up when the file is missing.                                  *)
Begin(p) ==
  /\ pc[p] = "idle"
  /\ \E c \in Requests :
       /\ c.op \in Ops
       /\ c.op \in CasOps => view[c.ent] # Absent
       /\ call' = [call EXCEPT ![p] =
                     IF c.op \in CasOps THEN [c EXCEPT !.expect = view[c.ent].rev]
                                        ELSE c]
  /\ pc' = [pc EXCEPT ![p] = "waiting"]
  /\ UNCHANGED <<log, clock, view, lock, known, pending, stale>>

(* MUTANT: the engine folds and checks without waiting for the lock. *)
Acquire_NoLock(p) ==
  /\ pc[p] = "waiting"
  /\ Readable(log)
  /\ lock' = p
  /\ known' = [known EXCEPT ![p] = State(log)]
  /\ pc' = [pc EXCEPT ![p] = "folded"]
  /\ UNCHANGED <<log, clock, view, call, pending, stale>>

(* AcquireLock, then fold the log. *)
Acquire(p) ==
  /\ pc[p] = "waiting"
  /\ lock = None
  /\ Readable(log)
  /\ lock' = p
  /\ known' = [known EXCEPT ![p] = State(log)]
  /\ pc' = [pc EXCEPT ![p] = "folded"]
  /\ UNCHANGED <<log, clock, view, call, pending, stale>>

(* MUTANT: an early return without the deferred Release. *)
Return_KeepsLock(p) ==
  /\ lock' = lock
  /\ pc' = [pc EXCEPT ![p] = "idle"]
  /\ call' = [call EXCEPT ![p] = NoCall]
  /\ known' = [known EXCEPT ![p] = State(<<>>)]
  /\ pending' = [pending EXCEPT ![p] = {}]

(* The operation returns: the deferred Release runs. *)
Return(p) ==
  /\ lock' = IF lock = p THEN None ELSE lock
  /\ pc' = [pc EXCEPT ![p] = "idle"]
  /\ call' = [call EXCEPT ![p] = NoCall]
  /\ known' = [known EXCEPT ![p] = State(<<>>)]
  /\ pending' = [pending EXCEPT ![p] = {}]

(* The fold fails: the operation takes the lock only to give it up again. *)
FoldFails(p) ==
  /\ pc[p] = "waiting"
  /\ lock = None
  /\ ~Readable(log)
  /\ Return(p)
  /\ UNCHANGED <<log, clock, view, stale>>

(* What the process knows of the entity it was called for. *)
Subject(p) == known[p][call[p].ent]

(* MUTANT: the expected revision is recorded, not compared. *)
CasOk_NoCompare(p) == Subject(p) # Absent

CasOk(p) == Subject(p) # Absent /\ Subject(p).rev = call[p].expect

(* MUTANT: no search for an open gate to reuse. *)
MayOpen_NoReuse(p, g) == known[p][g] = Absent

(* A free gate id, and no open gate for the same job and reason. *)
MayOpen(p, g) ==
  /\ known[p][g] = Absent
  /\ \A h \in Gates : known[p][h] # OpenedGate(call[p].ent, call[p].arg)

Accepts(p) ==
  LET c == call[p]
      v == Subject(p)
  IN  \/ c.op = "create"  /\ v = Absent
      \/ c.op = "move"    /\ CasOk(p) /\ Legal(c.ent, v.st, c.arg)
      \/ c.op = "recover" /\ v.st = "running"
      \/ c.op = "resolve" /\ Resolvable(v.st, c.arg)
      \/ c.op = "extend"  /\ CasOk(p)
      \/ c.op = "open"    /\ \E g \in Gates : MayOpen(p, g)
      \/ c.op = "settle"  /\ v # Absent
      \/ c.op = "rebuild"

Room == Len(log) < MaxEvents

Ready(p, op) == /\ pc[p] = "folded"
                /\ call[p].op = op
                /\ Accepts(p)

(* An event of the call p runs; AppendRaw stamps it. *)
NewEvent(p, kind, e, from, to, rc, glob) ==
  [kind |-> kind, ent |-> e, actor |-> Actor(call[p].op, e), ts |-> clock,
   expect |-> IF call[p].op \in CasOps THEN call[p].expect ELSE known[p][e].rev,
   rev |-> IF e \in Gates THEN 0 ELSE known[p][e].rev + 1,
   from |-> from, to |-> to, rc |-> rc, glob |-> glob, job |-> None, reason |-> None]

Change(p, e, to, rc) == NewEvent(p, "changed", e, known[p][e].st, to, rc, None)

(* The event that brings e into being with image v. *)
Creation(p, e, v) ==
  [kind |-> "created", ent |-> e, actor |-> Actor(call[p].op, e), ts |-> clock,
   expect |-> 0, rev |-> v.rev, from |-> None, to |-> v.st, rc |-> 0, glob |-> None,
   job |-> v.job, reason |-> v.reason]

(* AppendRaw: one record, stamped with the time of the append. *)
AppendRaw(ev) ==
  /\ Room
  /\ \E d \in ClockSteps :
       /\ clock' = clock + d
       /\ log' = Append(log, [ev EXCEPT !.ts = clock + d])

(* Append the event, then owe the entity's view the updated image. *)
Commit(p, ev) ==
  /\ AppendRaw(ev)
  /\ pending' = [pending EXCEPT ![p] = {<<ev.ent, Apply(known[p][ev.ent], ev)>>}]
  /\ pc' = [pc EXCEPT ![p] = "writing"]
  /\ UNCHANGED <<view, lock, call, known, stale>>

-----------------------------------------------------------------------------
(* The engine's operations, from a fold that accepts them *)

Create(p) ==
  /\ Ready(p, "create")
  /\ Commit(p, Creation(p, call[p].ent, Fresh(call[p].ent)))

(* TransitionJob, TransitionJobRunning, TransitionTaskPhase *)
Move(p) ==
  /\ Ready(p, "move")
  /\ Commit(p, Change(p, call[p].ent, call[p].arg, NoCount))

RecoverJob(p) ==
  LET j == call[p].ent
      rc == known[p][j].rc + 1
  IN  /\ Ready(p, "recover")
      /\ Commit(p, Change(p, j, RecoverTarget(rc), rc))

ResolveJob(p) ==
  /\ Ready(p, "resolve")
  /\ Commit(p, Change(p, call[p].ent, call[p].arg, NoCount))

ExtendJobScope(p) ==
  /\ Ready(p, "extend")
  /\ Commit(p, NewEvent(p, "extended", call[p].ent, Subject(p).st, None, NoCount,
                        call[p].arg))

OpenGateForJob(p) ==
  /\ Ready(p, "open")
  /\ \E g \in Gates :
       /\ MayOpen(p, g)
       /\ Commit(p, Creation(p, g, OpenedGate(call[p].ent, call[p].arg)))

ResolveGate(p) ==
  /\ Ready(p, "settle")
  /\ Commit(p, Change(p, call[p].ent, call[p].arg, NoCount))

Existing(p) == {e \in Entities : known[p][e] # Absent}

(* RebuildViews owes every folded entity its view. *)
RebuildViews(p) ==
  /\ Ready(p, "rebuild")
  /\ Existing(p) # {}
  /\ pending' = [pending EXCEPT ![p] = {<<e, known[p][e]>> : e \in Existing(p)}]
  /\ pc' = [pc EXCEPT ![p] = "writing"]
  /\ UNCHANGED <<log, clock, view, lock, call, known, stale>>

(* A move the tables do not allow leaves a policy.violation event behind. *)
IllegalMove(p) ==
  /\ pc[p] = "folded" /\ call[p].op = "move"
  /\ CasOk(p) /\ ~Accepts(p)
  /\ AppendRaw(NewEvent(p, "violation", call[p].ent, Subject(p).st, None, NoCount, None))
  /\ Return(p)
  /\ UNCHANGED <<view, stale>>

(* An error, a gate to reuse or nothing to do: return with nothing written. *)
Refuse(p) ==
  /\ pc[p] = "folded"
  /\ \/ ~Accepts(p) /\ ~(call[p].op = "move" /\ CasOk(p))
     \/ ~Room /\ call[p].op # "rebuild"
     \/ call[p].op = "rebuild" /\ Existing(p) = {}
  /\ Return(p)
  /\ UNCHANGED <<log, clock, view, stale>>

(* RebuildViews writes jobs, then tasks, then gates. *)
Class(e) == IF e \in Jobs THEN 0 ELSE IF e \in Tasks THEN 1 ELSE 2

(* WriteAtomicJSON of one view; the operation returns after its last one. *)
WriteView(p) ==
  /\ pc[p] = "writing"
  /\ \E w \in pending[p] :
       /\ \A x \in pending[p] : Class(w[1]) <= Class(x[1])
       /\ view' = [view EXCEPT ![w[1]] = w[2]]
       /\ stale' = stale \ {w[1]}
       /\ IF pending[p] = {w}
          THEN Return(p)
          ELSE /\ pending' = [pending EXCEPT ![p] = @ \ {w}]
               /\ UNCHANGED <<lock, pc, call, known>>
  /\ UNCHANGED <<log, clock>>

(* The process dies, or a lock, append or view write fails and the         *)
(* operation returns its error: either way the lock is given up.           *)
Abort(p) ==
  /\ pc[p] # "idle"
  /\ Return(p)
  /\ stale' = IF call[p].op = "rebuild" THEN stale
              ELSE stale \cup {w[1] : w \in pending[p]}
  /\ UNCHANGED <<log, clock, view>>

Init ==
  /\ log = <<>>
  /\ clock = 0
  /\ view = [e \in Entities |-> Absent]
  /\ lock = None
  /\ pc = [p \in Procs |-> "idle"]
  /\ call = [p \in Procs |-> NoCall]
  /\ known = [p \in Procs |-> State(<<>>)]
  /\ pending = [p \in Procs |-> {}]
  /\ stale = {}

(* What a process that holds the lock does next, unless it dies. *)
Holder(p) ==
  \/ Create(p) \/ Move(p) \/ RecoverJob(p) \/ ResolveJob(p) \/ ExtendJobScope(p)
  \/ OpenGateForJob(p) \/ ResolveGate(p) \/ RebuildViews(p) \/ IllegalMove(p)
  \/ Refuse(p) \/ WriteView(p)

Next == \E p \in Procs : Begin(p) \/ Acquire(p) \/ FoldFails(p) \/ Holder(p) \/ Abort(p)

(* A running process keeps executing; nothing forces one to start a call,  *)
(* and flock(2) promises no order among those that wait.                   *)
Spec == Init /\ [][Next]_vars /\ \A p \in Procs : WF_vars(Holder(p))

-----------------------------------------------------------------------------
(* Properties *)

(* Every variable keeps its type: in particular what is in the log can be  *)
(* folded into an image for every entity, statuses included.               *)
TypeOK ==
  /\ log \in Seq(Event)
  /\ clock \in Int
  /\ view \in [Entities -> Image \cup {Absent}]
  /\ lock \in Procs \cup {None}
  /\ pc \in [Procs -> {"idle", "waiting", "folded", "writing"}]
  /\ call \in [Procs -> [op : AllOps \cup {None},
                         ent : Entities \cup {None},
                         arg : Status \cup Globs \cup Reasons \cup {None},
                         expect : Nat]]
  /\ known \in [Procs -> [Entities -> Image \cup {Absent}]]
  /\ pending \in [Procs -> SUBSET (Entities \X (Image \cup {Absent}))]
  /\ stale \in SUBSET Entities

(* No lost update: every committed change of a job or task was decided on  *)
(* the change committed just before it, although its caller read the       *)
(* expected revision from a view file with no lock.  The revision it       *)
(* expected is that change's, its own is the next one, and the status it   *)
(* says it left is the last one entered.                                   *)
Follows(k, i, S) == i \in S /\ i < k /\ \A x \in S : x < k => x <= i
NoLostUpdate ==
  \A k \in DOMAIN log :
    log[k].kind \in {"changed", "extended"} /\ log[k].ent \notin Gates =>
      /\ \E i \in DOMAIN log :
           /\ Follows(k, i, Mine(log, log[k].ent))
           /\ log[k].expect = log[i].rev
           /\ log[k].rev = log[i].rev + 1
      /\ \E i \in DOMAIN log :
           /\ Follows(k, i, Moved(log, log[k].ent))
           /\ log[k].from = log[i].to

(* The view files are the log: an entity's view lags behind its events     *)
(* only while its writer still holds the lock, or after that write was cut *)
(* off; so rebuilding the views changes nothing else.                      *)
Owed == UNION {{w[1] : w \in pending[p]} : p \in Procs}
ViewsFollowLog ==
  \A e \in Entities \ (stale \cup Owed) : view[e] = Folded(log, e)

(* A gate stays the single open one for its job and reason, however many   *)
(* processes find the same job in need of a human.                         *)
OneOpenGate ==
  \A g, h \in Gates :
    LET v == Folded(log, g)
        w == Folded(log, h)
    IN  v.st = "open" /\ w.st = "open" /\ v.job = w.job /\ v.reason = w.reason => g = h

(* Recovery sends a job back to created at most MaxRetries times in its    *)
(* whole life, also across human re-dispatches.                            *)
RecoverBudget ==
  \A j \in Jobs :
    Cardinality({i \in 1..Len(log) : /\ log[i].ent = j
                                    /\ log[i].rc \notin {0, NoCount}
                                    /\ log[i].to = "created"}) <= MaxRetries

(* A view file never goes back to an earlier revision. *)
ViewsNeverGoBack == [][\A e \in Entities : view'[e].rev >= view[e].rev]_vars

(* The log as one atomic store: the engine implements EntityStore. *)
Store == INSTANCE EntityStore WITH ent <- State(log)
ImplementsStore == Store!Spec

(* state.lock is never held for ever. *)
LockReleased == \A p \in Procs : lock = p ~> lock # p

(* What the comments of reducer.go and RebuildViews say without a          *)
(* condition: with no operation under way or cut off, rebuilding the views *)
(* would change none of them.                                              *)
IncrementalEqualsRebuilt ==
  lock = None /\ stale = {} => \A e \in Entities : view[e] = Folded(log, e)

=============================================================================
