------------------------ MODULE StateEngineRefinement ------------------------
(***************************************************************************)
(* TLAPS: with a clock that separates commits the engine implements        *)
(* EntityStore, one atomic store, for every value of the other constants.  *)
(* The store's variable is what the log folds to; the step of a process    *)
(* that appends an event is the store's step, every other step changes     *)
(* nothing the store has.                                                  *)
(***************************************************************************)
EXTENDS StateEngineOrderProofs

-----------------------------------------------------------------------------
(* Images, field by field *)

Img(st, rev, rc, allowed, job, reason) ==
  [st |-> st, rev |-> rev, rc |-> rc, allowed |-> allowed, job |-> job, reason |-> reason]

LEMMA ImageFields ==
  ASSUME NEW v \in Image
  PROVE  v = Img(v.st, v.rev, v.rc, v.allowed, v.job, v.reason)
BY DEF Image, Img

(* What the store's operations put in place of an image. *)
LEMMA StoreImages ==
  ASSUME NEW v \in Image
  PROVE  /\ \A to : Store!Advance(v, to) = Img(to, v.rev + 1, v.rc, v.allowed, v.job, v.reason)
         /\ \A to, rc : [Store!Advance(v, to) EXCEPT !.rc = rc]
                          = Img(to, v.rev + 1, rc, v.allowed, v.job, v.reason)
         /\ \A g : [v EXCEPT !.rev = @ + 1, !.allowed = @ \cup {g}]
                     = Img(v.st, v.rev + 1, v.rc, v.allowed \cup {g}, v.job, v.reason)
         /\ \A to : [v EXCEPT !.st = to] = Img(to, v.rev, v.rc, v.allowed, v.job, v.reason)
<1>1. PICK n : n = v.rev + 1
  OBVIOUS
<1>2. ASSUME NEW to
      PROVE  [v EXCEPT !.st = to] = Img(to, v.rev, v.rc, v.allowed, v.job, v.reason)
  BY DEF Image, Img
<1>3. ASSUME NEW to
      PROVE  Store!Advance(v, to) = Img(to, n, v.rc, v.allowed, v.job, v.reason)
  <2>1. Store!Advance(v, to) = [[v EXCEPT !.st = to] EXCEPT !.rev = n]
    BY <1>1 DEF Store!Advance
  <2>2. [Img(to, v.rev, v.rc, v.allowed, v.job, v.reason) EXCEPT !.rev = n]
          = Img(to, n, v.rc, v.allowed, v.job, v.reason)
    BY DEF Img
  <2> QED
    BY <1>2, <2>1, <2>2
<1>4. ASSUME NEW to, NEW rc
      PROVE  [Store!Advance(v, to) EXCEPT !.rc = rc]
               = Img(to, n, rc, v.allowed, v.job, v.reason)
  <2>1. [Img(to, n, v.rc, v.allowed, v.job, v.reason) EXCEPT !.rc = rc]
          = Img(to, n, rc, v.allowed, v.job, v.reason)
    BY DEF Img
  <2> QED
    BY <1>3, <2>1
<1>5. ASSUME NEW g
      PROVE  [v EXCEPT !.rev = @ + 1, !.allowed = @ \cup {g}]
               = Img(v.st, n, v.rc, v.allowed \cup {g}, v.job, v.reason)
  <2>1. PICK a : a = v.allowed \cup {g}
    OBVIOUS
  <2>2. [v EXCEPT !.rev = @ + 1, !.allowed = @ \cup {g}]
          = [[v EXCEPT !.rev = n] EXCEPT !.allowed = a]
    BY <1>1, <2>1
  <2>3. [v EXCEPT !.rev = n] = Img(v.st, n, v.rc, v.allowed, v.job, v.reason)
    BY DEF Image, Img
  <2>4. [Img(v.st, n, v.rc, v.allowed, v.job, v.reason) EXCEPT !.allowed = a]
          = Img(v.st, n, v.rc, a, v.job, v.reason)
    BY DEF Img
  <2> QED
    BY <2>1, <2>2, <2>3, <2>4
<1> QED
  BY <1>1, <1>2, <1>3, <1>4, <1>5

(* What the engine makes of a creation. *)
LEMMA CreationApplied ==
  ASSUME NEW p, NEW e, NEW v \in Image, v.rc = 0, v.allowed = {}, NEW u
  PROVE  Apply(u, Creation(p, e, v)) = v
<1>1. Apply(u, Creation(p, e, v)) = Img(v.st, v.rev, 0, {}, v.job, v.reason)
  BY DEF Apply, Creation, Img
<1> QED
  BY <1>1, ImageFields

-----------------------------------------------------------------------------
(* The store's state after a commit *)

LEMMA CommitState ==
  ASSUME Strict, IInv, ClockInv, OrderInv, NEW p \in Procs, pc[p] = "folded",
         NEW ev \in Event, Sound(log, ev), ev.kind # "violation", Commit(p, ev)
  PROVE  State(log') = [State(log) EXCEPT ![ev.ent] = Apply(State(log)[ev.ent], ev)]
<1>1. AppendRaw(ev) /\ WellFormed(log) /\ ev.ent \in Entities
  BY DEF Commit, IInv, Event
<1>2. PICK e2 \in Event :
        /\ log' = Append(log, e2) /\ Sound(log, e2) /\ Newest(log, e2)
        /\ e2.ent = ev.ent /\ e2.kind = ev.kind /\ e2.rev = ev.rev
        /\ e2.expect = ev.expect /\ e2.from = ev.from /\ e2.to = ev.to
        /\ \A v : Apply(v, e2) = Apply(v, ev)
  BY <1>1, StrictAppend
<1>3. Folded(log', ev.ent) = Apply(Folded(log, ev.ent), ev)
  BY <1>1, <1>2, FoldedApplied
<1>4. \A e \in Entities \ {ev.ent} : Folded(log', e) = Folded(log, e)
  BY <1>1, <1>2, FoldedKept
<1> QED
  BY <1>1, <1>3, <1>4 DEF State

LEMMA ViolationState ==
  ASSUME IInv, NEW p \in Procs, NEW ev, Grew(p, ev), ev.kind = "violation"
  PROVE  State(log') = State(log)
<1>1. /\ ev \in Event /\ Sound(log, ev) /\ log' = Append(log, ev) /\ WellFormed(log)
  BY DEF Grew, IInv
<1>2. \A e \in Entities : Folded(log', e) = Folded(log, e)
  BY <1>1, FoldedKept
<1> QED
  BY <1>2 DEF State

-----------------------------------------------------------------------------
(* Steps *)

(* The store's entities and rules are the engine's. *)
LEMMA SameModel ==
  /\ Store!Absent = Absent /\ Store!Entities = Entities /\ Store!Status = Status
  /\ \A e : Store!Fresh(e) = Fresh(e)
  /\ \A j, r : Store!OpenedGate(j, r) = OpenedGate(j, r)
  /\ \A e, from, to : Store!Legal(e, from, to) <=> Legal(e, from, to)
  /\ \A from, to : Store!Resolvable(from, to) <=> Resolvable(from, to)
  /\ \A rc : Store!RecoverTarget(rc) = RecoverTarget(rc)
<1>1. /\ Store!Absent = Absent /\ Store!Entities = Entities /\ Store!Status = Status
      /\ Store!PhaseLegal = PhaseLegal /\ Store!JobLegal = JobLegal
      /\ Store!Unfinished = Unfinished
  BY DEF Store!Absent, Absent, Store!Entities, Entities, Store!Status, Status,
         Store!JobStatus, JobStatus, Store!TaskPhase, TaskPhase, Store!GateStatus, GateStatus,
         Store!PhaseLegal, PhaseLegal, Store!JobLegal, JobLegal,
         Store!Unfinished, Unfinished
<1>2. /\ \A e : Store!Fresh(e) = Fresh(e)
      /\ \A j, r : Store!OpenedGate(j, r) = OpenedGate(j, r)
  BY <1>1 DEF Store!Fresh, Fresh, Store!FreshStatus, FreshStatus,
              Store!OpenedGate, OpenedGate
<1>3. /\ \A e, from, to : Store!Legal(e, from, to) <=> Legal(e, from, to)
      /\ \A from, to : Store!Resolvable(from, to) <=> Resolvable(from, to)
      /\ \A rc : Store!RecoverTarget(rc) = RecoverTarget(rc)
  BY <1>1 DEF Store!Legal, Legal, Store!Resolvable, Resolvable,
              Store!RecoverTarget, RecoverTarget
<1> QED
  BY <1>1, <1>2, <1>3

(* The lock holder folded the store's state. *)
LEMMA KnownState ==
  ASSUME IInv, NEW p \in Procs, pc[p] = "folded"
  PROVE  known[p] = State(log)
BY DEF IInv, KnownInv

(* The store's operation that each of the engine's operations takes.       *)
LEMMA CreateRefines ==
  ASSUME Strict, IInv, ClockInv, OrderInv, NEW p \in Procs, Create(p)
  PROVE  call[p].ent \in Jobs \cup Tasks /\ Store!Create(call[p].ent)
<1> DEFINE e == call[p].ent
           ev == Creation(p, e, Fresh(e))
<1>1. /\ pc[p] = "folded" /\ call[p].op = "create" /\ Accepts(p) /\ Commit(p, ev)
  BY DEF Create, Ready
<1>2. e \in Jobs \cup Tasks /\ e \in Entities
  BY <1>1 DEF IInv, CallInv, CallOK, Entities
<1>3. known[p][e] = Absent /\ known[p] = State(log)
  BY <1>1, KnownState DEF Accepts, Subject
<1>4. Fresh(e) \in Image /\ Fresh(e).rc = 0 /\ Fresh(e).allowed = {}
  BY <1>2, FreshType DEF Fresh, Absent
<1>5. ev \in Event /\ Sound(log, ev) /\ ev.kind = "created" /\ ev.ent = e
  BY <1>1, <1>2, <1>3, <1>4, CreationOK
<1>6. Apply(State(log)[e], ev) = Fresh(e)
  BY <1>4, CreationApplied
<1> HIDE DEF ev
<1>7. State(log') = [State(log) EXCEPT ![e] = Fresh(e)]
  BY <1>1, <1>5, <1>6, CommitState
<1> QED
  BY <1>2, <1>3, <1>7, SameModel DEF Store!Create, Store!Put

(* The image of e becomes v; the image a change makes of v. *)
Becomes(e, v) == State(log') = [State(log) EXCEPT ![e] = v]
Changed(v, e, to, rc, glob) ==
  Img(IF to = None THEN v.st ELSE to, IF e \in Gates THEN 0 ELSE v.rev + 1,
      IF rc = NoCount THEN v.rc ELSE rc, v.allowed \cup ({glob} \ {None}), v.job, v.reason)

(* The store's state after the event of a change. *)
LEMMA ChangeState ==
  ASSUME Strict, IInv, ClockInv, OrderInv, NEW p \in Procs, pc[p] = "folded",
         NEW e \in Entities, known[p][e] # Absent,
         NEW kind \in {"changed", "extended", "violation"}, kind # "violation",
         NEW to \in Status \cup {None}, NEW rc \in Nat \cup {NoCount},
         NEW glob \in Globs \cup {None},
         Commit(p, NewEvent(p, kind, e, known[p][e].st, to, rc, glob))
  PROVE  /\ State(log)[e] \in Image /\ State(log)[e] = known[p][e]
         /\ Becomes(e, Changed(State(log)[e], e, to, rc, glob))
<1> DEFINE v == State(log)[e]
           ev == NewEvent(p, kind, e, known[p][e].st, to, rc, glob)
<1>1. known[p] = State(log)
  BY KnownState
<1>2. known[p][e] \in Image
  BY KnownFacts
<1> HIDE DEF v
<1>4. ev \in Event /\ Sound(log, ev) /\ ev.ent = e /\ ev.kind = kind
  BY NewEventOK
<1>5. Apply(v, ev) = Changed(v, e, to, rc, glob)
  BY <1>1 DEF v, Apply, NewEvent, Img, Changed
<1> HIDE DEF ev
<1>6. State(log') = [State(log) EXCEPT ![e] = Apply(v, ev)]
  BY <1>4, CommitState DEF ev, v
<1> QED
  BY <1>1, <1>2, <1>5, <1>6 DEF Becomes, v

(* The same for the events that only set a status. *)
LEMMA StatusState ==
  ASSUME Strict, IInv, ClockInv, OrderInv, NEW p \in Procs, pc[p] = "folded",
         NEW e \in Entities, known[p][e] # Absent, NEW to \in Status,
         Commit(p, Change(p, e, to, NoCount))
  PROVE  LET v == State(log)[e]
         IN  /\ v \in Image /\ v = known[p][e]
             /\ Becomes(e, Img(to, IF e \in Gates THEN 0 ELSE v.rev + 1, v.rc, v.allowed,
                               v.job, v.reason))
<1>1. PICK kind, rc, glob : kind = "changed" /\ rc = NoCount /\ glob = None
  OBVIOUS
<1>2. Commit(p, NewEvent(p, kind, e, known[p][e].st, to, rc, glob))
  BY <1>1 DEF Change
<1>3. /\ kind \in {"changed", "extended", "violation"} /\ kind # "violation"
      /\ rc \in Nat \cup {NoCount}
      /\ glob \in Globs \cup {None} /\ to \in Status \cup {None}
  BY <1>1
<1>4. /\ State(log)[e] \in Image /\ State(log)[e] = known[p][e]
      /\ Becomes(e, Changed(State(log)[e], e, to, rc, glob))
  BY <1>2, <1>3, ChangeState
<1>5. to # None /\ State(log)[e].allowed \cup ({glob} \ {None}) = State(log)[e].allowed
  BY <1>1, NoneIsNoStatus
<1> QED
  BY <1>1, <1>4, <1>5 DEF Changed

LEMMA MoveRefines ==
  ASSUME Strict, IInv, ClockInv, OrderInv, NEW p \in Procs, Move(p)
  PROVE  /\ call[p].ent \in Jobs \cup Tasks /\ call[p].arg \in Store!Status
         /\ Store!Move(call[p].ent, call[p].arg)
<1> DEFINE e == call[p].ent
           to == call[p].arg
           v == State(log)[e]
<1>1. /\ pc[p] = "folded" /\ call[p].op = "move" /\ Accepts(p)
      /\ Commit(p, Change(p, e, to, NoCount))
  BY DEF Move, Ready
<1>2. e \in Jobs \cup Tasks /\ to \in Status
  BY <1>1 DEF IInv, CallInv, CallOK
<1>3. e \in Entities /\ e \notin Gates
  BY <1>2, EntitiesDistinct DEF Entities
<1>4. known[p][e] # Absent /\ Legal(e, known[p][e].st, to)
  BY <1>1 DEF Accepts, CasOk, Subject
<1> HIDE DEF e, to
<1>5. /\ v \in Image /\ v = known[p][e]
      /\ Becomes(e, Img(to, IF e \in Gates THEN 0 ELSE v.rev + 1, v.rc, v.allowed,
                        v.job, v.reason))
  BY <1>1, <1>2, <1>3, <1>4, StatusState
<1>6. State(log') = [State(log) EXCEPT ![e] = Store!Advance(v, to)]
  BY <1>3, <1>5, StoreImages DEF Becomes
<1>7. Store!Move(e, to)
  BY <1>4, <1>5, <1>6, SameModel DEF Store!Move, Store!Put
<1> QED
  BY <1>2, <1>7, SameModel DEF e, to

LEMMA ResolveRefines ==
  ASSUME Strict, IInv, ClockInv, OrderInv, NEW p \in Procs, ResolveJob(p)
  PROVE  /\ call[p].ent \in Jobs /\ call[p].arg \in {"cancelled", "created"}
         /\ Store!Resolve(call[p].ent, call[p].arg)
<1> DEFINE e == call[p].ent
           to == call[p].arg
           v == State(log)[e]
<1>1. /\ pc[p] = "folded" /\ call[p].op = "resolve" /\ Accepts(p)
      /\ Commit(p, Change(p, e, to, NoCount))
  BY DEF ResolveJob, Ready
<1>2. e \in Jobs /\ to \in Status
  BY <1>1 DEF IInv, CallInv, CallOK
<1>3. e \in Entities /\ e \notin Gates
  BY <1>2, EntitiesDistinct DEF Entities
<1>4. Resolvable(known[p][e].st, to)
  BY <1>1 DEF Accepts, Subject
<1>5. known[p][e] # Absent /\ to \in {"cancelled", "created"}
  <2>1. Absent.st = None /\ None \notin Status
    BY NoneIsNoStatus DEF Absent
  <2> QED
    BY <1>4, <2>1 DEF Resolvable, Unfinished, Status, JobStatus
<1> HIDE DEF e, to
<1>6. /\ v \in Image /\ v = known[p][e]
      /\ Becomes(e, Img(to, IF e \in Gates THEN 0 ELSE v.rev + 1, v.rc, v.allowed,
                        v.job, v.reason))
  BY <1>1, <1>2, <1>3, <1>5, StatusState
<1>7. State(log') = [State(log) EXCEPT ![e] = Store!Advance(v, to)]
  BY <1>3, <1>6, StoreImages DEF Becomes
<1>8. Store!Resolve(e, to)
  BY <1>4, <1>6, <1>7, SameModel DEF Store!Resolve, Store!Put
<1> QED
  BY <1>2, <1>5, <1>8 DEF e, to

LEMMA RecoverRefines ==
  ASSUME Strict, IInv, ClockInv, OrderInv, NEW p \in Procs, RecoverJob(p)
  PROVE  call[p].ent \in Jobs /\ Store!Recover(call[p].ent)
<1> DEFINE e == call[p].ent
           v == State(log)[e]
<1>1. PICK rc : rc = known[p][e].rc + 1
  OBVIOUS
<1>2. /\ pc[p] = "folded" /\ call[p].op = "recover" /\ Accepts(p)
      /\ Commit(p, Change(p, e, RecoverTarget(rc), rc))
  BY <1>1 DEF RecoverJob, Ready
<1>3. e \in Jobs
  BY <1>2 DEF IInv, CallInv, CallOK
<1>4. e \in Entities /\ e \notin Gates
  BY <1>3, EntitiesDistinct DEF Entities
<1>5. known[p][e].st = "running"
  BY <1>2 DEF Accepts, Subject
<1> HIDE DEF e
<1>6. known[p][e] # Absent
  <2>1. Absent.st = None /\ None # "running"
    BY NoneIsNoStatus DEF Absent, Status, JobStatus
  <2> QED
    BY <1>5, <2>1
<1>7. rc \in Nat
  <2>1. known[p][e] \in Image
    BY <1>2, <1>4, <1>6, KnownFacts
  <2> QED
    BY <1>1, <2>1 DEF Image
<1>8. PICK kind, glob, to : kind = "changed" /\ glob = None /\ to = RecoverTarget(rc)
  OBVIOUS
<1>9. to \in Status
  BY <1>8 DEF RecoverTarget, Status, JobStatus
<1>10. Commit(p, NewEvent(p, kind, e, known[p][e].st, to, rc, glob))
  BY <1>2, <1>8 DEF Change
<1>11. /\ kind \in {"changed", "extended", "violation"} /\ kind # "violation"
       /\ rc \in Nat \cup {NoCount}
       /\ glob \in Globs \cup {None} /\ to \in Status \cup {None}
  BY <1>7, <1>8, <1>9
<1>12. v \in Image /\ v = known[p][e] /\ Becomes(e, Changed(v, e, to, rc, glob))
  BY <1>2, <1>4, <1>6, <1>10, <1>11, ChangeState
<1>13. to # None /\ rc # NoCount /\ v.allowed \cup ({glob} \ {None}) = v.allowed
  BY <1>7, <1>8, <1>9, NoneIsNoStatus DEF NoCount
<1>14. Changed(v, e, to, rc, glob) = [Store!Advance(v, to) EXCEPT !.rc = rc]
  <2>1. Changed(v, e, to, rc, glob) = Img(to, v.rev + 1, rc, v.allowed, v.job, v.reason)
    BY <1>4, <1>13 DEF Changed
  <2>2. [Store!Advance(v, to) EXCEPT !.rc = rc]
          = Img(to, v.rev + 1, rc, v.allowed, v.job, v.reason)
    BY <1>12, StoreImages
  <2> QED
    BY <2>1, <2>2
<1>15. State(log') = [State(log) EXCEPT ![e] = [Store!Advance(v, to) EXCEPT !.rc = rc]]
  BY <1>12, <1>14 DEF Becomes
<1>16. Store!Recover(e)
  BY <1>1, <1>5, <1>8, <1>12, <1>15, SameModel DEF Store!Recover, Store!Put
<1> QED
  BY <1>3, <1>16 DEF e

LEMMA ExtendRefines ==
  ASSUME Strict, IInv, ClockInv, OrderInv, NEW p \in Procs, ExtendJobScope(p)
  PROVE  call[p].ent \in Jobs /\ call[p].arg \in Globs /\ Store!Extend(call[p].ent, call[p].arg)
<1> DEFINE e == call[p].ent
           g == call[p].arg
           v == State(log)[e]
<1>1. /\ pc[p] = "folded" /\ call[p].op = "extend" /\ Accepts(p)
      /\ Commit(p, NewEvent(p, "extended", e, known[p][e].st, None, NoCount, g))
  BY DEF ExtendJobScope, Ready, Subject
<1>2. e \in Jobs /\ g \in Globs
  BY <1>1 DEF IInv, CallInv, CallOK
<1>3. e \in Entities /\ e \notin Gates /\ g # None
  BY <1>2, EntitiesDistinct DEF Entities
<1>4. known[p][e] # Absent
  BY <1>1 DEF Accepts, CasOk, Subject
<1> HIDE DEF e, g
<1>5. PICK kind, rc, to : kind = "extended" /\ rc = NoCount /\ to = None
  OBVIOUS
<1>6. Commit(p, NewEvent(p, kind, e, known[p][e].st, to, rc, g))
  BY <1>1, <1>5
<1>7. /\ kind \in {"changed", "extended", "violation"} /\ kind # "violation"
      /\ rc \in Nat \cup {NoCount}
      /\ g \in Globs \cup {None} /\ to \in Status \cup {None}
  BY <1>2, <1>5
<1>8. v \in Image /\ v = known[p][e] /\ Becomes(e, Changed(v, e, to, rc, g))
  BY <1>1, <1>3, <1>4, <1>6, <1>7, ChangeState
<1>9. v.allowed \cup ({g} \ {None}) = v.allowed \cup {g}
  BY <1>3
<1>10. Changed(v, e, to, rc, g) = [v EXCEPT !.rev = @ + 1, !.allowed = @ \cup {g}]
  <2>1. Changed(v, e, to, rc, g)
          = Img(v.st, v.rev + 1, v.rc, v.allowed \cup {g}, v.job, v.reason)
    BY <1>3, <1>5, <1>9 DEF Changed
  <2>2. [v EXCEPT !.rev = @ + 1, !.allowed = @ \cup {g}]
          = Img(v.st, v.rev + 1, v.rc, v.allowed \cup {g}, v.job, v.reason)
    BY <1>8, StoreImages
  <2> QED
    BY <2>1, <2>2
<1>11. State(log') = [State(log) EXCEPT ![e] = [v EXCEPT !.rev = @ + 1, !.allowed = @ \cup {g}]]
  BY <1>8, <1>10 DEF Becomes
<1>12. Store!Extend(e, g)
  BY <1>4, <1>8, <1>11, SameModel DEF Store!Extend, Store!Put
<1> QED
  BY <1>2, <1>12 DEF e, g

LEMMA OpenRefines ==
  ASSUME Strict, IInv, ClockInv, OrderInv, NEW p \in Procs, OpenGateForJob(p)
  PROVE  \E g \in Gates, j \in Jobs, r \in Reasons : Store!OpenGate(g, j, r)
<1> DEFINE j == call[p].ent
           r == call[p].arg
<1>1. pc[p] = "folded" /\ call[p].op = "open"
  BY DEF OpenGateForJob, Ready
<1>2. j \in Jobs /\ r \in Reasons
  BY <1>1 DEF IInv, CallInv, CallOK
<1>3. PICK g \in Gates : MayOpen(p, g) /\ Commit(p, Creation(p, g, OpenedGate(j, r)))
  BY DEF OpenGateForJob
<1>4. g \in Entities /\ known[p][g] = Absent /\ known[p] = State(log)
      /\ \A h \in Gates : known[p][h] # OpenedGate(j, r)
  BY <1>1, <1>3, KnownState DEF MayOpen, Entities
<1> HIDE DEF j, r
<1>5. PICK v : v = OpenedGate(j, r)
  OBVIOUS
<1>6. v \in Image /\ v.rc = 0 /\ v.allowed = {}
  BY <1>2, <1>5, FreshType DEF OpenedGate, Absent
<1> DEFINE ev == Creation(p, g, v)
<1>7. ev \in Event /\ Sound(log, ev) /\ ev.kind = "created" /\ ev.ent = g
  BY <1>1, <1>4, <1>6, CreationOK
<1>8. Apply(State(log)[g], ev) = v
  BY <1>6, CreationApplied
<1>9. Commit(p, ev)
  BY <1>3, <1>5
<1> HIDE DEF ev
<1>10. State(log') = [State(log) EXCEPT ![g] = v]
  BY <1>1, <1>7, <1>8, <1>9, CommitState
<1>11. Store!OpenGate(g, j, r)
  BY <1>4, <1>5, <1>10, SameModel DEF Store!OpenGate, Store!Put
<1> QED
  BY <1>2, <1>11

LEMMA SettleRefines ==
  ASSUME Strict, IInv, ClockInv, OrderInv, GateInv, NEW p \in Procs, ResolveGate(p)
  PROVE  /\ call[p].ent \in Gates /\ call[p].arg \in {"approved", "rejected"}
         /\ Store!ResolveGate(call[p].ent, call[p].arg)
<1> DEFINE e == call[p].ent
           to == call[p].arg
           v == State(log)[e]
<1>1. /\ pc[p] = "folded" /\ call[p].op = "settle" /\ Accepts(p)
      /\ Commit(p, Change(p, e, to, NoCount))
  BY DEF ResolveGate, Ready
<1>2. e \in Gates /\ to \in {"approved", "rejected"}
  BY <1>1 DEF IInv, CallInv, CallOK
<1>3. e \in Entities /\ to \in Status /\ v.rev = 0
  BY <1>2 DEF Entities, Status, GateStatus, GateInv, State
<1>4. known[p][e] # Absent
  BY <1>1 DEF Accepts, Subject
<1> HIDE DEF e, to
<1>5. /\ v \in Image /\ v = known[p][e]
      /\ Becomes(e, Img(to, IF e \in Gates THEN 0 ELSE v.rev + 1, v.rc, v.allowed,
                        v.job, v.reason))
  BY <1>1, <1>3, <1>4, StatusState
<1>6. State(log') = [State(log) EXCEPT ![e] = [v EXCEPT !.st = to]]
  BY <1>2, <1>3, <1>5, StoreImages DEF Becomes
<1>7. Store!ResolveGate(e, to)
  BY <1>4, <1>5, <1>6, SameModel DEF Store!ResolveGate, Store!Put
<1> QED
  BY <1>2, <1>7 DEF e, to

-----------------------------------------------------------------------------
(* The refinement *)

(* An operation on e that changes the store is a step of it. *)
LEMMA ChangeIsStep ==
  ASSUME NEW e \in Entities, Store!Change(e)
  PROVE  Store!Next \/ UNCHANGED State(log)
<1>1. CASE State(log')[e] # State(log)[e]
  BY <1>1, SameModel DEF Store!Next
<1>2. CASE State(log')[e] = State(log)[e]
  <2>1. \E v : State(log') = [State(log) EXCEPT ![e] = v]
    BY DEF Store!Change, Store!Create, Store!Move, Store!Recover, Store!Resolve,
           Store!Extend, Store!OpenGate, Store!ResolveGate, Store!Put
  <2>2. DOMAIN State(log) = Entities
    BY DEF State
  <2>3. PICK v : State(log') = [State(log) EXCEPT ![e] = v]
    BY <2>1
  <2>4. State(log')[e] = v
    BY <2>2, <2>3
  <2>5. State(log') = [State(log) EXCEPT ![e] = State(log)[e]]
    BY <1>2, <2>3, <2>4
  <2>6. [State(log) EXCEPT ![e] = State(log)[e]] = State(log)
    BY DEF State
  <2> QED
    BY <2>5, <2>6
<1> QED
  BY <1>1, <1>2

LEMMA OperationRefines ==
  ASSUME Strict, IInv, ClockInv, OrderInv, GateInv, NEW p \in Procs, Operation(p)
  PROVE  \E e \in Entities : Store!Change(e)
<1>1. CASE Create(p)
  BY <1>1, CreateRefines DEF Store!Change, Entities
<1>2. CASE Move(p)
  BY <1>2, MoveRefines DEF Store!Change, Entities
<1>3. CASE RecoverJob(p)
  BY <1>3, RecoverRefines DEF Store!Change, Entities
<1>4. CASE ResolveJob(p)
  BY <1>4, ResolveRefines DEF Store!Change, Entities
<1>5. CASE ExtendJobScope(p)
  BY <1>5, ExtendRefines DEF Store!Change, Entities
<1>6. CASE OpenGateForJob(p)
  BY <1>6, OpenRefines DEF Store!Change, Entities
<1>7. CASE ResolveGate(p)
  BY <1>7, SettleRefines DEF Store!Change, Entities
<1> QED
  BY <1>1, <1>2, <1>3, <1>4, <1>5, <1>6, <1>7 DEF Operation

LEMMA StepRefines ==
  ASSUME Strict, IInv, VInv, GateInv, [Next]_vars
  PROVE  Store!Next \/ UNCHANGED State(log)
<1>1. ClockInv /\ OrderInv
  BY DEF VInv
<1>2. CASE UNCHANGED log
  BY <1>2
<1>3. CASE \E p \in Procs : Operation(p)
  BY <1>1, <1>3, OperationRefines, ChangeIsStep
<1>4. CASE \E p \in Procs : IllegalMove(p)
  BY <1>1, <1>4, IllegalMoveGrows, ViolationState
<1> QED
  BY <1>2, <1>3, <1>4 DEF Next, vars, Begin, Acquire, FoldFails, Holder, Operation, Abort,
                          Refuse, RebuildViews, WriteView

(* With a clock that separates commits the engine implements EntityStore:  *)
(* what the log folds to changes by one operation of the store at a time,  *)
(* each on the latest image of its entity, although callers read stale     *)
(* views, fold under state.lock, and may die between append and view write *)
(* (the Create/Transition/Recover/Resolve/Extend/OpenGate/ResolveGate      *)
(* functions of engine.go over Reduce).                                    *)
THEOREM EngineImplementsStore == ASSUME Strict PROVE Spec => ImplementsStore
<1> DEFINE Inv == IInv /\ VInv /\ GateInv /\ BehindInv
<1>1. Init => Inv /\ Store!Init
  <2> SUFFICES ASSUME Init PROVE Inv /\ Store!Init
    OBVIOUS
  <2>1. State(log) = [e \in Entities |-> Absent]
    BY EmptyLog DEF Init
  <2>2. \A e \in Entities : Folded(log, e) = Absent /\ view[e] = Absent
    BY <2>1 DEF Init, State
  <2>3. GateInv /\ BehindInv
    BY <2>2 DEF GateInv, BehindInv, Absent, Entities
  <2>4. Store!Init
    BY <2>1, SameModel DEF Store!Init
  <2> QED
    BY <2>3, <2>4, InitIInv, InitVInv
<1>2. Inv /\ [Next]_vars => Inv'
  BY NextIInv, NextVInv, NextRevisions
<1>3. Inv /\ [Next]_vars => [Store!Next]_(State(log))
  BY StepRefines
<1> HIDE DEF Inv
<1> QED
  BY <1>1, <1>2, <1>3, PTL DEF Spec, ImplementsStore, Store!Spec
=============================================================================
