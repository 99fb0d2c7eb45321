------------------------ MODULE StateEngineOrderProofs ------------------------
(***************************************************************************)
(* What TLAPS proves of StateEngine when the clock separates commits, for  *)
(* every value of the other constants: fold order is then commit order, so *)
(* no update is lost, the views follow the log and never go back, a        *)
(* rebuild changes none of them, and a job is recovered at most MaxRetries *)
(* times.                                                                  *)
(***************************************************************************)
EXTENDS StateEngineProofs, FiniteSetTheorems

(* Each append reads a later time than the one before it. *)
Strict == \A d \in ClockSteps : d > 0

-----------------------------------------------------------------------------
(* Timestamps *)

ClockInv == \A i \in DOMAIN log : log[i].ts <= clock
OrderInv == \A i, k \in DOMAIN log : i < k => log[i].ts < log[k].ts

(* With separated timestamps the last in fold order is the last appended. *)
LEMMA TopIsLast ==
  ASSUME IInv, OrderInv, NEW S \in SUBSET DOMAIN log, NEW m, Top(log, S, m)
  PROVE  \A x \in S : x <= m
<1> SUFFICES ASSUME NEW x \in S, ~(x <= m) PROVE FALSE
  OBVIOUS
<1>1. log \in Seq(Event) /\ m \in DOMAIN log /\ x \in DOMAIN log
  BY DEF IInv, TypeOK, Top
<1>2. x \in Int /\ m \in Int /\ log[x] \in Event /\ log[m] \in Event
  BY <1>1
<1>3. m < x /\ x # m
  BY <1>2
<1>4. log[m].ts < log[x].ts /\ log[m].ts \in Int /\ log[x].ts \in Int
  BY <1>1, <1>2, <1>3 DEF OrderInv, Event
<1>5. Before(log, x, m)
  BY <1>3 DEF Top
<1> QED
  BY <1>4, <1>5 DEF Before

(* What an append does under a strict clock. *)
LEMMA StrictAppend ==
  ASSUME Strict, IInv, ClockInv, OrderInv,
         NEW ev \in Event, Sound(log, ev), AppendRaw(ev)
  PROVE  /\ ClockInv' /\ OrderInv'
         /\ \E e2 \in Event :
              /\ log' = Append(log, e2) /\ Sound(log, e2) /\ Newest(log, e2)
              /\ e2.ent = ev.ent /\ e2.kind = ev.kind /\ e2.rev = ev.rev
              /\ e2.expect = ev.expect /\ e2.from = ev.from /\ e2.to = ev.to
              /\ \A v : Apply(v, e2) = Apply(v, ev)
<1>0. log \in Seq(Event) /\ clock \in Int
  BY DEF IInv, TypeOK
<1>1. PICK d \in ClockSteps : /\ clock' = clock + d
                              /\ log' = Append(log, [ev EXCEPT !.ts = clock + d])
  BY DEF AppendRaw
<1> DEFINE t == clock + d
           e2 == [ev EXCEPT !.ts = clock + d]
           n == Len(log) + 1
<1>2. d \in Int /\ d > 0 /\ t \in Int /\ t > clock
  BY <1>0, ClockStepsAreInts DEF Strict
<1>3. /\ e2 \in Event /\ Sound(log, e2) /\ e2.ts = t
      /\ e2.ent = ev.ent /\ e2.kind = ev.kind /\ e2.rev = ev.rev
      /\ e2.expect = ev.expect /\ e2.from = ev.from /\ e2.to = ev.to
      /\ \A v : Apply(v, e2) = Apply(v, ev)
  BY <1>2, StampOK
<1> HIDE DEF e2
<1>4. log' = Append(log, e2)
  BY <1>1 DEF e2
<1>5. /\ DOMAIN log' = DOMAIN log \cup {n} /\ n \notin DOMAIN log
      /\ log'[n] = e2 /\ \A i \in DOMAIN log : log'[i] = log[i]
  BY <1>0, <1>3, <1>4, AppendKeeps
<1>6. \A i \in DOMAIN log : log[i].ts \in Int /\ i \in Int /\ i < n
  <2> TAKE i \in DOMAIN log
  <2>1. log[i] \in Event /\ i \in Int /\ i < n
    BY <1>0
  <2> QED
    BY <2>1 DEF Event
<1>7. \A i \in DOMAIN log : log[i].ts < t
  BY <1>0, <1>2, <1>6 DEF ClockInv
<1>8. Newest(log, e2)
  BY <1>3, <1>7 DEF Newest
<1>9. ClockInv'
  BY <1>0, <1>1, <1>2, <1>3, <1>5, <1>6 DEF ClockInv
<1>10. n \in Int
  BY <1>0
<1> HIDE DEF n, t
<1>11. OrderInv'
  BY <1>3, <1>5, <1>6, <1>7, <1>10 DEF OrderInv
<1> QED
  BY <1>3, <1>4, <1>8, <1>9, <1>11

-----------------------------------------------------------------------------
(* Every step of the engine, as far as the log and the pending views go.   *)

(* The log grew by a sound, newest event of the process p. *)
Grew(p, ev) ==
  /\ pc[p] = "folded" /\ ev \in Event /\ Sound(log, ev) /\ Newest(log, ev)
  /\ log' = Append(log, ev) /\ UNCHANGED <<view, stale>>

(* p committed: the view of the event's entity is owed. *)
Committed(p, ev) ==
  /\ Grew(p, ev) /\ ev.kind # "violation" /\ Decided(p, ev)
  /\ pending' = [pending EXCEPT ![p] = {<<ev.ent, Apply(known[p][ev.ent], ev)>>}]
  /\ call' = call /\ call[p].op # "rebuild"

LEMMA OperationGrows ==
  ASSUME Strict, IInv, ClockInv, OrderInv, NEW p \in Procs, Operation(p)
  PROVE  ClockInv' /\ OrderInv' /\ \E ev : Committed(p, ev)
<1>1. PICK ev \in Event : /\ Sound(log, ev) /\ ev.kind # "violation"
                          /\ Decided(p, ev) /\ Commit(p, ev) /\ pc[p] = "folded"
  BY OperationCommits
<1>2. /\ AppendRaw(ev) /\ UNCHANGED <<view, call, stale>>
      /\ pending' = [pending EXCEPT ![p] = {<<ev.ent, Apply(known[p][ev.ent], ev)>>}]
  BY <1>1 DEF Commit
<1>3. PICK e2 \in Event :
        /\ log' = Append(log, e2) /\ Sound(log, e2) /\ Newest(log, e2)
        /\ e2.ent = ev.ent /\ e2.kind = ev.kind /\ e2.rev = ev.rev
        /\ e2.expect = ev.expect /\ e2.from = ev.from /\ e2.to = ev.to
        /\ \A v : Apply(v, e2) = Apply(v, ev)
  BY <1>1, <1>2, StrictAppend
<1>4. Decided(p, e2)
  BY <1>1, <1>3 DEF Decided
<1>5. call[p].op # "rebuild"
  BY DEF Operation, Create, Move, RecoverJob, ResolveJob, ExtendJobScope,
         OpenGateForJob, ResolveGate, Ready
<1>6. Committed(p, e2)
  BY <1>1, <1>2, <1>3, <1>4, <1>5 DEF Committed, Grew
<1>7. ClockInv' /\ OrderInv'
  BY <1>1, <1>2, StrictAppend
<1> QED
  BY <1>6, <1>7

(* The other steps: p's own pending views, if it has any, shrink. *)
LEMMA IllegalMoveGrows ==
  ASSUME Strict, IInv, ClockInv, OrderInv, NEW p \in Procs, IllegalMove(p)
  PROVE  /\ ClockInv' /\ OrderInv'
         /\ \E ev : Grew(p, ev) /\ ev.kind = "violation"
<1>1. PICK ev \in Event : Sound(log, ev) /\ ev.kind = "violation" /\ AppendRaw(ev)
  BY IllegalMoveKeeps
<1>2. pc[p] = "folded" /\ UNCHANGED <<view, stale>>
  BY DEF IllegalMove
<1>3. PICK e2 \in Event :
        /\ log' = Append(log, e2) /\ Sound(log, e2) /\ Newest(log, e2)
        /\ e2.kind = ev.kind
  BY <1>1, StrictAppend
<1>4. Grew(p, e2) /\ e2.kind = "violation"
  BY <1>1, <1>2, <1>3 DEF Grew
<1>5. ClockInv' /\ OrderInv'
  BY <1>1, StrictAppend
<1> QED
  BY <1>4, <1>5

(* Any step either grows the log or leaves it and the clock alone. *)
LEMMA StepLog ==
  ASSUME Strict, IInv, ClockInv, OrderInv, [Next]_vars
  PROVE  \/ \E p \in Procs : \E ev : ClockInv' /\ OrderInv' /\ Committed(p, ev)
         \/ \E p \in Procs : \E ev : /\ ClockInv' /\ OrderInv' /\ Grew(p, ev)
                                      /\ ev.kind = "violation" /\ Return(p)
         \/ UNCHANGED <<log, clock>>
<1>1. CASE UNCHANGED vars
  BY <1>1 DEF vars
<1>2. CASE Next
  <2>1. PICK p \in Procs : Begin(p) \/ Acquire(p) \/ FoldFails(p) \/ Holder(p) \/ Abort(p)
    BY <1>2 DEF Next
  <2>2. CASE Operation(p)
    BY <2>2, OperationGrows
  <2>3. CASE IllegalMove(p)
    <3>1. Return(p)
      BY <2>3 DEF IllegalMove
    <3> QED
      BY <2>3, <3>1, IllegalMoveGrows
  <2>4. CASE ~Operation(p) /\ ~IllegalMove(p)
    BY <2>1, <2>4 DEF Begin, Acquire, FoldFails, Holder, Operation, Abort, Refuse,
                      RebuildViews, WriteView
  <2> QED
    BY <2>2, <2>3, <2>4
<1> QED
  BY <1>1, <1>2

-----------------------------------------------------------------------------
(* The views *)

(* e's view is owed by an operation that appended one of e's events, or    *)
(* was when that operation was cut off.                                    *)
OwedBy(p, e) == call[p].op # "rebuild" /\ \E w \in pending[p] : w[1] = e
Lags(e) == e \in stale \/ \E p \in Procs : OwedBy(p, e)

(* An owed image is what the log says of its entity. *)
OwedInv == \A p \in Procs : \A w \in pending[p] : w[2] = Folded(log, w[1])
(* A view that is not owed to an append is what the log says; the views a  *)
(* rebuild has yet to write are among these.                               *)
ViewInv == \A e \in Entities : ~Lags(e) => view[e] = Folded(log, e)

VInv == ClockInv /\ OrderInv /\ OwedInv /\ ViewInv

(* Nobody but the lock holder owes a view. *)
LEMMA OnlyHolderOwes ==
  ASSUME IInv, NEW p \in Procs, pc[p] = "folded"
  PROVE  \A q \in Procs : pending[q] = {}
BY DEF IInv, LockInv, PendingInv

LEMMA CommitViews ==
  ASSUME IInv, OwedInv, ViewInv, NEW p \in Procs, NEW ev, Committed(p, ev)
  PROVE  OwedInv' /\ ViewInv'
<1>1. /\ pc[p] = "folded" /\ ev \in Event /\ Sound(log, ev) /\ Newest(log, ev)
      /\ log' = Append(log, ev) /\ UNCHANGED <<view, stale>> /\ ev.kind # "violation"
      /\ pending' = [pending EXCEPT ![p] = {<<ev.ent, Apply(known[p][ev.ent], ev)>>}]
      /\ call' = call /\ call[p].op # "rebuild"
  BY DEF Committed, Grew
<1>2. WellFormed(log) /\ TypeOK /\ ev.ent \in Entities
  BY <1>1 DEF IInv, Event
<1>3. known[p][ev.ent] = Folded(log, ev.ent)
  BY <1>1, <1>2, KnownFacts
<1>4. Folded(log', ev.ent) = Apply(known[p][ev.ent], ev)
  BY <1>1, <1>2, <1>3, FoldedApplied
<1>5. \A e \in Entities \ {ev.ent} : Folded(log', e) = Folded(log, e)
  BY <1>1, <1>2, FoldedKept
<1>6. \A q \in Procs : pending[q] = {}
  BY <1>1, OnlyHolderOwes
<1>7. \A q \in Procs : pending'[q] = IF q = p THEN {<<ev.ent, Folded(log', ev.ent)>>} ELSE {}
  BY <1>1, <1>2, <1>4, <1>6 DEF TypeOK
<1>8. OwedInv'
  BY <1>7 DEF OwedInv
<1>9. ASSUME NEW e \in Entities, ~Lags(e)'
      PROVE  view'[e] = Folded(log', e)
  <2>1. e # ev.ent /\ e \notin stale
    <3>1. OwedBy(p, ev.ent)'
      <4>1. <<ev.ent, Folded(log', ev.ent)>> \in pending'[p] /\ call'[p].op # "rebuild"
        BY <1>1, <1>7
      <4> QED
        BY <4>1 DEF OwedBy
    <3> QED
      BY <1>1, <1>9, <3>1 DEF Lags
  <2>2. ~Lags(e)
    BY <1>6, <2>1 DEF Lags, OwedBy
  <2> QED
    BY <1>1, <1>5, <2>1, <2>2 DEF ViewInv
<1> QED
  BY <1>8, <1>9 DEF ViewInv

LEMMA ViolationViews ==
  ASSUME IInv, OwedInv, ViewInv, NEW p \in Procs, NEW ev,
         Grew(p, ev), ev.kind = "violation", Return(p)
  PROVE  OwedInv' /\ ViewInv'
<1>1. /\ pc[p] = "folded" /\ ev \in Event /\ Sound(log, ev)
      /\ log' = Append(log, ev) /\ UNCHANGED <<view, stale>>
      /\ pending' = [pending EXCEPT ![p] = {}]
  BY DEF Grew, Return
<1>2. WellFormed(log) /\ TypeOK
  BY DEF IInv
<1>3. \A e \in Entities : Folded(log', e) = Folded(log, e)
  BY <1>1, <1>2, FoldedKept
<1>4. \A q \in Procs : pending[q] = {} /\ pending'[q] = {}
  BY <1>1, <1>2, OnlyHolderOwes DEF TypeOK
<1>5. OwedInv'
  BY <1>4 DEF OwedInv
<1>6. \A e \in Entities : Lags(e)' <=> Lags(e)
  BY <1>1, <1>4 DEF Lags, OwedBy
<1> QED
  BY <1>1, <1>3, <1>5, <1>6 DEF ViewInv

LEMMA WriteViewViews ==
  ASSUME IInv, OwedInv, ViewInv, NEW p \in Procs, WriteView(p)
  PROVE  OwedInv' /\ ViewInv'
<1>1. PICK w \in pending[p] :
        /\ UNCHANGED <<log, clock>>
        /\ view' = [view EXCEPT ![w[1]] = w[2]] /\ stale' = stale \ {w[1]}
        /\ IF pending[p] = {w} THEN Return(p)
           ELSE /\ pending' = [pending EXCEPT ![p] = @ \ {w}]
                /\ UNCHANGED <<lock, pc, call, known>>
  BY DEF WriteView
<1>2. TypeOK /\ \A e : Folded(log', e) = Folded(log, e)
  BY <1>1 DEF IInv
<1>3. w[1] \in Entities /\ w[2] = Folded(log, w[1])
  BY <1>2 DEF TypeOK, OwedInv
<1>4. /\ \A q \in Procs : pending'[q] = IF q = p THEN pending[p] \ {w} ELSE pending[q]
      /\ \A q \in Procs : call'[q] = call[q] \/ (q = p /\ pending[p] = {w})
  <2>1. CASE pending[p] = {w}
    BY <1>1, <1>2, <2>1 DEF Return, TypeOK
  <2>2. CASE pending[p] # {w}
    <3>1. call' = call /\ pending' = [pending EXCEPT ![p] = pending[p] \ {w}]
      BY <1>1, <2>2
    <3>2. DOMAIN pending = Procs
      BY <1>2 DEF TypeOK
    <3> QED
      BY <3>1, <3>2
  <2> QED
    BY <2>1, <2>2
<1>5. OwedInv'
  BY <1>2, <1>4 DEF OwedInv
<1>6. ASSUME NEW e \in Entities, ~Lags(e)', e # w[1]
      PROVE  ~Lags(e)
  <2>1. e \notin stale
    BY <1>1, <1>6 DEF Lags
  <2>2. ASSUME NEW q \in Procs, OwedBy(q, e)
        PROVE  FALSE
    <3>1. PICK x \in pending[q] : x[1] = e
      BY <2>2 DEF OwedBy
    <3>2. x \in pending'[q] /\ call'[q] = call[q]
      BY <1>4, <1>6, <3>1
    <3> QED
      BY <1>6, <2>2, <3>1, <3>2 DEF Lags, OwedBy
  <2> QED
    BY <2>1, <2>2 DEF Lags
<1>7. ASSUME NEW e \in Entities, ~Lags(e)'
      PROVE  view'[e] = Folded(log', e)
  <2>1. CASE e = w[1]
    BY <1>1, <1>2, <1>3, <2>1 DEF TypeOK
  <2>2. CASE e # w[1]
    BY <1>1, <1>2, <1>3, <1>6, <1>7, <2>2 DEF TypeOK, ViewInv
  <2> QED
    BY <2>1, <2>2
<1> QED
  BY <1>5, <1>7 DEF ViewInv

LEMMA RebuildViewsViews ==
  ASSUME IInv, OwedInv, ViewInv, NEW p \in Procs, RebuildViews(p)
  PROVE  OwedInv' /\ ViewInv'
<1>1. /\ pc[p] = "folded" /\ call[p].op = "rebuild"
      /\ pending' = [pending EXCEPT ![p] = {<<e, known[p][e]>> : e \in Existing(p)}]
      /\ UNCHANGED <<log, view, call, stale>>
  BY DEF RebuildViews, Ready
<1>2. TypeOK /\ \A e : Folded(log', e) = Folded(log, e)
  BY <1>1 DEF IInv
<1>3. \A e \in Existing(p) : e \in Entities /\ known[p][e] = Folded(log, e)
  BY <1>1, KnownFacts DEF Existing
<1>4. \A q \in Procs : pending[q] = {}
  BY <1>1, OnlyHolderOwes
<1>5. \A q \in Procs : pending'[q] = IF q = p THEN {<<e, known[p][e]>> : e \in Existing(p)}
                                              ELSE {}
  BY <1>1, <1>2, <1>4 DEF TypeOK
<1>6. OwedInv'
  <2> SUFFICES ASSUME NEW q \in Procs, NEW w \in pending'[q]
               PROVE  w[2] = Folded(log', w[1])
    BY DEF OwedInv
  <2>1. PICK e \in Existing(p) : w = <<e, known[p][e]>>
    BY <1>5
  <2> QED
    BY <1>2, <1>3, <2>1
<1>7. \A e \in Entities : Lags(e)' <=> Lags(e)
  BY <1>1, <1>4, <1>5 DEF Lags, OwedBy
<1> QED
  BY <1>1, <1>2, <1>6, <1>7 DEF ViewInv

(* The steps that touch neither the log nor a view file. *)
LEMMA QuietViews ==
  ASSUME IInv, OwedInv, ViewInv, NEW p \in Procs,
         Begin(p) \/ Acquire(p) \/ FoldFails(p) \/ Refuse(p) \/ Abort(p)
  PROVE  OwedInv' /\ ViewInv'
<1>1. UNCHANGED <<log, view>> /\ TypeOK /\ PendingInv
  BY DEF Begin, Acquire, FoldFails, Refuse, Abort, IInv
<1>2. \A e : Folded(log', e) = Folded(log, e)
  BY <1>1
<1>3. /\ \A q \in Procs : pending'[q] = pending[q] \/ pending'[q] = {}
      /\ \A q \in Procs : call'[q] = call[q] \/ pending'[q] = {}
  <2>1. CASE Begin(p)
    <3>1. /\ pending' = pending /\ pc[p] = "idle"
          /\ \A q \in Procs : q # p => call'[q] = call[q]
      BY <1>1, <2>1 DEF Begin, TypeOK
    <3> QED
      BY <1>1, <3>1 DEF PendingInv
  <2>2. CASE Acquire(p)
    BY <2>2 DEF Acquire
  <2>3. CASE Return(p)
    BY <1>1, <2>3 DEF Return, TypeOK
  <2> QED
    BY <2>1, <2>2, <2>3 DEF FoldFails, Refuse, Abort
<1>4. OwedInv'
  BY <1>2, <1>3 DEF OwedInv
<1>5. ASSUME NEW e \in Entities, Lags(e)
      PROVE  Lags(e)'
  <2>1. CASE e \in stale
    <3>1. e \in stale'
      BY <2>1 DEF Begin, Acquire, FoldFails, Refuse, Abort
    <3> QED
      BY <3>1 DEF Lags
  <2>2. CASE e \notin stale
    <3>1. PICK q \in Procs : OwedBy(q, e)
      BY <1>5, <2>2 DEF Lags
    <3>2. call[q].op # "rebuild" /\ pending[q] # {} /\ e \in {w[1] : w \in pending[q]}
      BY <3>1 DEF OwedBy
    <3>3. CASE pending'[q] = pending[q]
      BY <1>3, <3>1, <3>2, <3>3 DEF Lags, OwedBy
    <3>4. CASE pending'[q] = {} /\ Abort(p)
      <4>1. q = p
        BY <1>1, <3>2, <3>4 DEF Abort, Return, TypeOK
      <4>2. e \in stale'
        BY <3>2, <3>4, <4>1 DEF Abort
      <4> QED
        BY <4>2 DEF Lags
    <3>5. CASE ~Abort(p)
      <4>1. pending[p] = {}
        BY <1>1, <3>5 DEF Begin, Acquire, FoldFails, Refuse, PendingInv
      <4>2. q # p
        BY <3>2, <4>1
      <4>3. pending'[q] = pending[q]
        BY <1>1, <3>5, <4>2 DEF Begin, Acquire, FoldFails, Refuse, Return, TypeOK
      <4> QED
        BY <3>3, <4>3
    <3> QED
      BY <1>3, <3>3, <3>4, <3>5
  <2> QED
    BY <2>1, <2>2
<1> QED
  BY <1>1, <1>2, <1>4, <1>5 DEF ViewInv

LEMMA NextVInv ==
  ASSUME Strict
  PROVE  IInv /\ VInv /\ [Next]_vars => VInv'
<1> SUFFICES ASSUME IInv, VInv, [Next]_vars PROVE VInv'
  OBVIOUS
<1>1. ClockInv /\ OrderInv /\ OwedInv /\ ViewInv
  BY DEF VInv
<1>2. ClockInv' /\ OrderInv'
  <2>1. CASE UNCHANGED <<log, clock>>
    BY <1>1, <2>1 DEF ClockInv, OrderInv
  <2> QED
    BY <1>1, <2>1, StepLog
<1>3. OwedInv' /\ ViewInv'
  <2>1. CASE UNCHANGED vars
    <3>1. \A e : Folded(log', e) = Folded(log, e)
      BY <2>1 DEF vars
    <3> QED
      BY <1>1, <2>1, <3>1 DEF vars, OwedInv, ViewInv, Lags, OwedBy
  <2>2. CASE Next
    <3>1. PICK p \in Procs : Begin(p) \/ Acquire(p) \/ FoldFails(p) \/ Holder(p) \/ Abort(p)
      BY <2>2 DEF Next
    <3>2. CASE Operation(p)
      BY <1>1, <3>2, OperationGrows, CommitViews
    <3>3. CASE IllegalMove(p)
      <4>1. Return(p)
        BY <3>3 DEF IllegalMove
      <4> QED
        BY <1>1, <3>3, <4>1, IllegalMoveGrows, ViolationViews
    <3> QED
      BY <1>1, <3>1, <3>2, <3>3, RebuildViewsViews, WriteViewViews, QuietViews
      DEF Holder, Operation
  <2> QED
    BY <2>1, <2>2
<1> QED
  BY <1>2, <1>3 DEF VInv

LEMMA InitVInv == Init => VInv
<1> SUFFICES ASSUME Init PROVE VInv
  OBVIOUS
<1>1. log = <<>> /\ \A e \in Entities : Folded(log, e) = Absent
  BY EmptyLog DEF Init, State
<1> QED
  BY <1>1 DEF Init, VInv, ClockInv, OrderInv, OwedInv, ViewInv, Lags

(* With a clock that separates commits, in every reachable state the view  *)
(* file of an entity is what the log says of it, except while the process  *)
(* that appended its last event still owes the file, or died owing it      *)
(* (engine.go, where each operation ends in WriteAtomicJSON).              *)
THEOREM ViewsFollow == ASSUME Strict PROVE Spec => []ViewsFollowLog
<1>1. Init => IInv /\ VInv
  BY InitIInv, InitVInv
<1>2. IInv /\ VInv /\ [Next]_vars => (IInv /\ VInv)'
  BY NextIInv, NextVInv
<1>3. VInv => ViewsFollowLog
  <2> SUFFICES ASSUME VInv, NEW e \in Entities \ (stale \cup Owed)
               PROVE  view[e] = Folded(log, e)
    BY DEF ViewsFollowLog
  <2>1. ASSUME NEW p \in Procs, OwedBy(p, e) PROVE FALSE
    <3>1. e \in {w[1] : w \in pending[p]}
      BY <2>1 DEF OwedBy
    <3> QED
      BY <3>1 DEF Owed
  <2>2. ~Lags(e)
    BY <2>1 DEF Lags
  <2> QED
    BY <2>2 DEF VInv, ViewInv
<1> QED
  BY <1>1, <1>2, <1>3, PTL DEF Spec

(* What reducer.go says of its fold (incremental == rebuilt) holds if the  *)
(* clock separates commits: whenever the lock is free and nobody died      *)
(* owing a view, a rebuild would change no view.  Run engine_clock shows   *)
(* that two commits of one tick break it.                                  *)
THEOREM RebuildChangesNothing == ASSUME Strict PROVE Spec => []IncrementalEqualsRebuilt
<1>1. Init => IInv /\ VInv
  BY InitIInv, InitVInv
<1>2. IInv /\ VInv /\ [Next]_vars => (IInv /\ VInv)'
  BY NextIInv, NextVInv
<1>3. IInv /\ VInv => IncrementalEqualsRebuilt
  <2> SUFFICES ASSUME IInv, VInv, lock = None, stale = {}, NEW e \in Entities
               PROVE  view[e] = Folded(log, e)
    BY DEF IncrementalEqualsRebuilt
  <2>1. ASSUME NEW p \in Procs  PROVE pending[p] = {}
    BY NoneIsNoProc DEF IInv, LockInv, PendingInv
  <2> QED
    BY <2>1 DEF VInv, ViewInv, Lags, OwedBy
<1> QED
  BY <1>1, <1>2, <1>3, PTL DEF Spec

-----------------------------------------------------------------------------
(* Updates *)

(* The event at k was decided on the change before it, and its status on   *)
(* the status change before it: one instance of NoLostUpdate.              *)
Decisive(L, k) ==
  L[k].kind \in {"changed", "extended"} /\ L[k].ent \notin Gates =>
    /\ \E i \in DOMAIN L :
         /\ Follows(k, i, Mine(L, L[k].ent))
         /\ L[k].expect = L[i].rev
         /\ L[k].rev = L[i].rev + 1
    /\ \E i \in DOMAIN L :
         /\ Follows(k, i, Moved(L, L[k].ent))
         /\ L[k].from = L[i].to

(* Later events do not change what an event was decided on. *)
LEMMA DecisiveKept ==
  ASSUME NEW L \in Seq(Event), NEW ev \in Event, NEW k \in DOMAIN L, Decisive(L, k)
  PROVE  Decisive(Append(L, ev), k)
<1> DEFINE M == Append(L, ev)
           n == Len(L) + 1
           e == L[k].ent
<1>1. /\ DOMAIN M = DOMAIN L \cup {n} /\ n \notin DOMAIN L
      /\ \A i \in DOMAIN L : M[i] = L[i]
  BY AppendKeeps
<1>2. n \in Int /\ k \in Int /\ k < n /\ e \in Entities
  <2>1. L[k] \in Event
    OBVIOUS
  <2> QED
    BY <2>1 DEF Event
<1>3. /\ Mine(M, e) \in SUBSET (Mine(L, e) \cup {n}) /\ Mine(L, e) \in SUBSET Mine(M, e)
      /\ Moved(M, e) \in SUBSET (Moved(L, e) \cup {n}) /\ Moved(L, e) \in SUBSET Moved(M, e)
  <2>1. /\ Mine(M, e) = Mine(L, e) \cup (IF ev.ent = e /\ ev.kind # "violation" THEN {n} ELSE {})
        /\ Moved(M, e) = Moved(L, e) \cup
              (IF (ev.ent = e /\ ev.kind # "violation") /\ ev.to # None THEN {n} ELSE {})
    BY <1>2, SetsAfterAppend
  <2> QED
    BY <2>1
<1>4. M[k] = L[k] /\ k \in DOMAIN M
  BY <1>1
<1> HIDE DEF M, n
<1>5. ASSUME NEW i, NEW S, NEW T, Follows(k, i, S), S \in SUBSET T, T \in SUBSET (S \cup {n})
      PROVE  Follows(k, i, T)
  BY <1>2, <1>5 DEF Follows
<1>6. ASSUME L[k].kind \in {"changed", "extended"} /\ e \notin Gates
      PROVE  /\ \E i \in DOMAIN M : /\ Follows(k, i, Mine(M, e))
                                   /\ M[k].expect = M[i].rev /\ M[k].rev = M[i].rev + 1
             /\ \E i \in DOMAIN M : Follows(k, i, Moved(M, e)) /\ M[k].from = M[i].to
  <2>1. PICK i \in DOMAIN L : /\ Follows(k, i, Mine(L, e))
                              /\ L[k].expect = L[i].rev /\ L[k].rev = L[i].rev + 1
    BY <1>6 DEF Decisive
  <2>2. Follows(k, i, Mine(M, e))
    BY <1>3, <1>5, <2>1
  <2>3. PICK m \in DOMAIN L : Follows(k, m, Moved(L, e)) /\ L[k].from = L[m].to
    BY <1>6 DEF Decisive
  <2>4. Follows(k, m, Moved(M, e))
    BY <1>3, <1>5, <2>3
  <2> QED
    BY <1>1, <1>4, <2>1, <2>2, <2>3, <2>4
<1> QED
  BY <1>4, <1>6 DEF Decisive, M

(* A commit is decided on the last change of its entity. *)
LEMMA CommitDecisive ==
  ASSUME IInv, OrderInv, NEW p \in Procs, NEW ev, Committed(p, ev)
  PROVE  Decisive(log', Len(log) + 1)
<1> DEFINE n == Len(log) + 1
           e == ev.ent
<1>1. /\ pc[p] = "folded" /\ ev \in Event /\ Sound(log, ev) /\ log' = Append(log, ev)
      /\ ev.kind # "violation" /\ Decided(p, ev)
  BY DEF Committed, Grew
<1>2. log \in Seq(Event) /\ WellFormed(log) /\ e \in Entities
  BY <1>1 DEF IInv, TypeOK, Event
<1>3. /\ DOMAIN log' = DOMAIN log \cup {n} /\ n \notin DOMAIN log
      /\ log'[n] = ev /\ \A i \in DOMAIN log : log'[i] = log[i]
  BY <1>1, <1>2, AppendKeeps
<1>4. n \in Int /\ \A i \in DOMAIN log : i \in Int /\ i < n
  BY <1>2
<1>5. SUFFICES ASSUME ev.kind \in {"changed", "extended"}, e \notin Gates
               PROVE  /\ \E i \in DOMAIN log : /\ Follows(n, i, Mine(log', e))
                                              /\ ev.expect = log[i].rev
                                              /\ ev.rev = log[i].rev + 1
                      /\ \E i \in DOMAIN log : /\ Follows(n, i, Moved(log', e))
                                              /\ ev.from = log[i].to
  BY <1>3 DEF Decisive
<1>6. Mine(log, e) # {}
  BY <1>1, <1>5 DEF Sound
<1> HIDE DEF e
<1>7. PICK i, r, k, c \in Mine(log, e) :
        /\ Top(log, Moved(log, e), i) /\ Top(log, Mine(log, e), r)
        /\ Top(log, Counted(log, e), k) /\ IsOpening(log, e, c)
        /\ Folded(log, e) = [st |-> log[i].to, rev |-> log[r].rev, rc |-> log[k].rc,
                             allowed |-> Added(log, e),
                             job |-> log[c].job, reason |-> log[c].reason]
  BY <1>2, <1>6, FoldedOfSome
<1>8. known[p][e] = Folded(log, e)
  BY <1>1, <1>2, KnownFacts
<1>9. /\ ev.expect = log[r].rev /\ ev.rev = log[r].rev + 1 /\ ev.from = log[i].to
  BY <1>1, <1>5, <1>7, <1>8 DEF Decided, e
<1>10. /\ Mine(log, e) \in SUBSET DOMAIN log /\ Moved(log, e) \in SUBSET DOMAIN log
  BY SetsInDomain
<1>11. /\ \A x \in Mine(log, e) : x <= r
       /\ \A x \in Moved(log, e) : x <= i
       /\ r \in Mine(log, e) /\ i \in Moved(log, e)
  BY <1>7, <1>10, TopIsLast DEF Top
<1>12. /\ Mine(log', e) \in SUBSET (Mine(log, e) \cup {n})
       /\ Mine(log, e) \in SUBSET Mine(log', e)
       /\ Moved(log', e) \in SUBSET (Moved(log, e) \cup {n})
       /\ Moved(log, e) \in SUBSET Moved(log', e)
  <2>1. /\ Mine(log', e) = Mine(log, e) \cup (IF ev.ent = e /\ ev.kind # "violation" THEN {n} ELSE {})
        /\ Moved(log', e) = Moved(log, e) \cup
              (IF (ev.ent = e /\ ev.kind # "violation") /\ ev.to # None THEN {n} ELSE {})
    BY <1>1, <1>2, SetsAfterAppend
  <2> QED
    BY <2>1
<1> HIDE DEF n
<1>13. Follows(n, r, Mine(log', e)) /\ Follows(n, i, Moved(log', e))
  BY <1>4, <1>10, <1>11, <1>12 DEF Follows
<1> QED
  BY <1>9, <1>10, <1>11, <1>13

LEMMA NextUpdates ==
  ASSUME Strict
  PROVE  IInv /\ VInv /\ NoLostUpdate /\ [Next]_vars => NoLostUpdate'
<1> SUFFICES ASSUME IInv, VInv, NoLostUpdate, [Next]_vars
             PROVE  \A k \in DOMAIN log' : Decisive(log', k)
  BY DEF NoLostUpdate, Decisive
<1>1. ClockInv /\ OrderInv /\ log \in Seq(Event)
  BY DEF VInv, IInv, TypeOK
<1>2. \A k \in DOMAIN log : Decisive(log, k)
  BY DEF NoLostUpdate, Decisive
<1>3. CASE UNCHANGED <<log, clock>>
  BY <1>2, <1>3
<1>4. ASSUME NEW p \in Procs, NEW ev, Grew(p, ev),
             ev.kind = "violation" \/ Committed(p, ev), NEW k \in DOMAIN log'
      PROVE  Decisive(log', k)
  <2>1. log' = Append(log, ev) /\ ev \in Event
    BY <1>4 DEF Grew
  <2>2. DOMAIN log' = DOMAIN log \cup {Len(log) + 1} /\ log'[Len(log) + 1] = ev
    BY <1>1, <2>1, AppendKeeps
  <2>3. CASE k \in DOMAIN log
    BY <1>1, <1>2, <2>1, <2>3, DecisiveKept
  <2>4. CASE k = Len(log) + 1 /\ Committed(p, ev)
    BY <1>1, <2>4, CommitDecisive
  <2>5. CASE k = Len(log) + 1 /\ ev.kind = "violation"
    BY <2>2, <2>5 DEF Decisive
  <2> QED
    BY <1>4, <2>2, <2>3, <2>4, <2>5
<1> QED
  BY <1>1, <1>3, <1>4, StepLog DEF Committed

(* With a clock that separates commits, no update of a job or task is ever *)
(* lost: each was decided on the change committed just before it (the CAS  *)
(* on expected_revision and the fold under state.lock, engine.go).         *)
THEOREM NoUpdateLost == ASSUME Strict PROVE Spec => []NoLostUpdate
<1>1. Init => IInv /\ VInv /\ NoLostUpdate
  <2>1. Init => NoLostUpdate
    BY DEF Init, NoLostUpdate
  <2> QED
    BY <2>1, InitIInv, InitVInv
<1>2. IInv /\ VInv /\ NoLostUpdate /\ [Next]_vars => (IInv /\ VInv /\ NoLostUpdate)'
  BY NextIInv, NextVInv, NextUpdates
<1> QED
  BY <1>1, <1>2, PTL DEF Spec

-----------------------------------------------------------------------------
(* Revisions *)

(* Gates have no revision, and no view is ahead of the log. *)
GateInv == \A g \in Gates : Folded(log, g).rev = 0
BehindInv == \A e \in Entities : view[e].rev <= Folded(log, e).rev

LEMMA RevisionType ==
  ASSUME IInv, NEW e \in Entities
  PROVE  view[e].rev \in Int /\ Folded(log, e).rev \in Int /\ Folded(log, e).rev >= 0
<1>1. view[e] \in Image \cup {Absent} /\ Folded(log, e) \in Image \cup {Absent}
  BY FoldedType DEF IInv, TypeOK
<1>2. Absent.rev = 0 /\ \A v \in Image : v.rev \in Nat
  BY DEF Absent, Image
<1> QED
  BY <1>1, <1>2

(* An append never takes an entity's revision back. *)
LEMMA RevisionGrows ==
  ASSUME IInv, GateInv, NEW p \in Procs, NEW ev, Grew(p, ev),
         ev.kind = "violation" \/ Committed(p, ev)
  PROVE  /\ GateInv'
         /\ \A e \in Entities : Folded(log', e).rev >= Folded(log, e).rev
<1>1. /\ pc[p] = "folded" /\ ev \in Event /\ Sound(log, ev) /\ Newest(log, ev)
      /\ log' = Append(log, ev) /\ WellFormed(log)
  BY DEF Grew, IInv
<1>2. \A e \in Entities : e # ev.ent \/ ev.kind = "violation" =>
         Folded(log', e) = Folded(log, e)
  BY <1>1, FoldedKept
<1>3. \A e \in Entities : Folded(log, e).rev \in Int /\ Folded(log, e).rev >= 0
  BY RevisionType
<1>4. \A g \in Gates : g \in Entities
  BY DEF Entities
<1>5. CASE ev.kind = "violation"
  BY <1>2, <1>3, <1>4, <1>5 DEF GateInv
<1>6. CASE Committed(p, ev) /\ ev.kind # "violation"
  <2>1. ev.ent \in Entities /\ ev.rev \in Nat
    BY <1>1 DEF Event
  <2>2. Folded(log', ev.ent) = Apply(Folded(log, ev.ent), ev)
    BY <1>1, <1>6, FoldedApplied
  <2>3. Folded(log', ev.ent).rev = ev.rev
    BY <2>2 DEF Apply
  <2>4. known[p][ev.ent] = Folded(log, ev.ent)
    BY <1>1, <2>1, KnownFacts
  <2>5. Decided(p, ev)
    BY <1>6 DEF Committed
  <2>6. ev.rev >= Folded(log, ev.ent).rev
    <3>1. CASE ev.ent \in Gates
      BY <3>1, <2>5 DEF Decided, GateInv
    <3>2. CASE ev.ent \notin Gates /\ ev.kind # "created"
      BY <3>2, <1>3, <2>1, <2>4, <2>5 DEF Decided
    <3>3. CASE ev.kind = "created"
      <4>1. Folded(log, ev.ent) = Absent
        BY <1>1, <2>1, <3>3, FoldedType DEF Sound
      <4> QED
        BY <2>1, <4>1 DEF Absent
    <3> QED
      BY <3>1, <3>2, <3>3
  <2>7. GateInv'
    BY <1>2, <1>4, <2>3, <2>5 DEF GateInv, Decided
  <2> QED
    BY <1>2, <1>3, <2>3, <2>6, <2>7
<1> QED
  BY <1>5, <1>6

(* A step writes no view file, or one that the log agrees with. *)
LEMMA StepView ==
  ASSUME IInv, OwedInv, [Next]_vars
  PROVE  \A e \in Entities : view'[e] = view[e]
                              \/ (view'[e] = Folded(log, e) /\ log' = log)
<1>1. CASE UNCHANGED vars
  BY <1>1 DEF vars
<1>2. CASE Next
  <2>1. PICK p \in Procs : Begin(p) \/ Acquire(p) \/ FoldFails(p) \/ Holder(p) \/ Abort(p)
    BY <1>2 DEF Next
  <2>2. CASE WriteView(p)
    <3>1. PICK w \in pending[p] : view' = [view EXCEPT ![w[1]] = w[2]] /\ log' = log
      BY <2>2 DEF WriteView
    <3>2. w[2] = Folded(log, w[1])
      BY DEF OwedInv
    <3>3. DOMAIN view = Entities
      BY DEF IInv, TypeOK
    <3> QED
      BY <3>1, <3>2, <3>3
  <2>3. CASE Operation(p)
    <3>1. view' = view
      BY <2>3, OperationCommits DEF Commit
    <3> QED
      BY <3>1
  <2>4. CASE ~WriteView(p) /\ ~Operation(p)
    BY <2>1, <2>4 DEF Begin, Acquire, FoldFails, Holder, Operation, Abort, Refuse,
                      RebuildViews, IllegalMove
  <2> QED
    BY <2>2, <2>3, <2>4
<1> QED
  BY <1>1, <1>2

LEMMA NextRevisions ==
  ASSUME Strict
  PROVE  IInv /\ VInv /\ GateInv /\ BehindInv /\ [Next]_vars => GateInv' /\ BehindInv'
<1> SUFFICES ASSUME IInv, VInv, GateInv, BehindInv, [Next]_vars
             PROVE  GateInv' /\ BehindInv'
  OBVIOUS
<1>1. ClockInv /\ OrderInv /\ OwedInv
  BY DEF VInv
<1>2. \A e \in Entities : view'[e] = view[e] \/ (view'[e] = Folded(log, e) /\ log' = log)
  BY <1>1, StepView
<1>3. GateInv' /\ \A e \in Entities : Folded(log', e).rev >= Folded(log, e).rev
  <2>1. CASE UNCHANGED <<log, clock>>
    BY <2>1, RevisionType DEF GateInv
  <2>2. CASE \E p \in Procs : \E ev : Grew(p, ev) /\ (ev.kind = "violation" \/ Committed(p, ev))
    BY <2>2, RevisionGrows
  <2> QED
    BY <1>1, <2>1, <2>2, StepLog DEF Committed
<1>4. IInv'
  BY NextIInv
<1>5. ASSUME NEW e \in Entities
      PROVE  view'[e].rev <= Folded(log', e).rev
  <2>1. /\ view[e].rev \in Int /\ Folded(log, e).rev \in Int
        /\ view[e].rev <= Folded(log, e).rev
    BY <1>5, RevisionType DEF BehindInv
  <2>2. view'[e].rev \in Int /\ Folded(log', e).rev \in Int
    <3>1. WellFormed(log') /\ view'[e] \in Image \cup {Absent}
      BY <1>4 DEF IInv, TypeOK
    <3>2. Folded(log', e) \in Image \cup {Absent}
      BY <3>1, FoldedType
    <3> QED
      BY <3>1, <3>2 DEF Image, Absent
  <2> QED
    BY <1>2, <1>3, <2>1, <2>2
<1> QED
  BY <1>3, <1>5 DEF BehindInv

(* With a clock that separates commits, no process ever puts an older      *)
(* image of an entity over a newer one, however long it waited between its *)
(* append and its write: both happen under state.lock.                     *)
THEOREM ViewsOnlyAdvance == ASSUME Strict PROVE Spec => ViewsNeverGoBack
<1> DEFINE Inv == IInv /\ VInv /\ GateInv /\ BehindInv
<1>1. Init => Inv
  <2>1. Init => GateInv /\ BehindInv
    <3> SUFFICES ASSUME Init PROVE GateInv /\ BehindInv
      OBVIOUS
    <3>1. \A e \in Entities : Folded(log, e) = Absent /\ view[e] = Absent
      BY EmptyLog DEF Init, State
    <3> QED
      BY <3>1 DEF GateInv, BehindInv, Absent, Entities
  <2> QED
    BY <2>1, InitIInv, InitVInv
<1>2. Inv /\ [Next]_vars => Inv'
  BY NextIInv, NextVInv, NextRevisions
<1>3. Inv /\ [Next]_vars => [\A e \in Entities : view'[e].rev >= view[e].rev]_vars
  <2> SUFFICES ASSUME Inv, [Next]_vars, NEW e \in Entities
               PROVE  view'[e].rev >= view[e].rev
    OBVIOUS
  <2>1. view'[e] = view[e] \/ view'[e] = Folded(log, e)
    BY StepView DEF VInv
  <2>2. /\ view[e].rev \in Int /\ Folded(log, e).rev \in Int
        /\ view[e].rev <= Folded(log, e).rev
    BY RevisionType DEF BehindInv
  <2> QED
    BY <2>1, <2>2
<1> HIDE DEF Inv
<1> QED
  BY <1>1, <1>2, <1>3, PTL DEF Spec, ViewsNeverGoBack

-----------------------------------------------------------------------------
(* Recovery, with a clock that separates commits.  Recover counts grow     *)
(* along a job's events, so the returns to created have distinct counts,   *)
(* all between 1 and the cap.                                              *)

(* The recover counts an entity's events set grow in commit order. *)
Growing(L, e) == \A i, k \in Counted(L, e) : i < k => L[i].rc < L[k].rc

(* Only recovery sets a count other than 0, and stays within the cap when  *)
(* it sends the job back to created.                                       *)
Capped(ev) ==
  /\ ev.kind = "violation" => ev.rc = NoCount
  /\ ev.rc \notin {0, NoCount} /\ ev.to = "created" => ev.rc <= MaxRetries

CountInv == /\ \A e \in Entities : Growing(log, e)
            /\ \A i \in DOMAIN log : Capped(log[i])

(* The next event counts on from the last one, if it counts at all. *)
CountsOn(ev) ==
  ev.kind # "violation" /\ ev.rc # NoCount /\ Mine(log, ev.ent) # {} =>
    ev.rc = Folded(log, ev.ent).rc + 1

LEMMA LastCount ==
  ASSUME IInv, OrderInv, CountInv, NEW e \in Entities, Mine(log, e) # {}
  PROVE  \A i \in Counted(log, e) : log[i].rc < Folded(log, e).rc + 1
<1>1. WellFormed(log) /\ log \in Seq(Event)
  BY DEF IInv, TypeOK
<1>2. PICK s, r, k, c \in Mine(log, e) :
           /\ Top(log, Moved(log, e), s) /\ Top(log, Mine(log, e), r)
           /\ Top(log, Counted(log, e), k) /\ IsOpening(log, e, c)
           /\ Folded(log, e) = [st |-> log[s].to, rev |-> log[r].rev, rc |-> log[k].rc,
                                allowed |-> Added(log, e),
                                job |-> log[c].job, reason |-> log[c].reason]
  BY <1>1, FoldedOfSome
<1>3. Folded(log, e).rc = log[k].rc /\ k \in Counted(log, e)
  BY <1>2 DEF Top
<1>4. Counted(log, e) \in SUBSET DOMAIN log
  BY DEF Counted, Mine
<1>5. \A i \in Counted(log, e) : i <= k
  BY <1>2, <1>4, TopIsLast
<1>6. \A i \in Counted(log, e) : log[i] \in Event /\ i \in Int /\ log[i].rc \in Int
  <2> TAKE i \in Counted(log, e)
  <2>1. log[i] \in Event /\ i \in Int /\ log[i].rc # NoCount
    BY <1>1, <1>4 DEF Counted
  <2> QED
    BY <2>1 DEF Event
<1>7. Growing(log, e)
  BY DEF CountInv
<1> QED
  BY <1>3, <1>5, <1>6, <1>7 DEF Growing

LEMMA AppendKeepsCounts ==
  ASSUME IInv, OrderInv, CountInv, NEW ev \in Event, Sound(log, ev), Capped(ev), CountsOn(ev),
         log' = Append(log, ev)
  PROVE  CountInv'
<1> DEFINE n == Len(log) + 1
<1>1. WellFormed(log) /\ log \in Seq(Event)
  BY DEF IInv, TypeOK
<1>2. /\ DOMAIN log' = DOMAIN log \cup {n} /\ n \notin DOMAIN log
      /\ log'[n] = ev /\ \A i \in DOMAIN log : log'[i] = log[i]
  BY <1>1, AppendKeeps
<1>3. \A i \in DOMAIN log : i \in Int /\ i < n
  BY <1>1
<1>4. n \in Int
  BY <1>1
<1>5. \A i \in DOMAIN log' : Capped(log'[i])
  BY <1>2 DEF CountInv
<1>6. ASSUME NEW e \in Entities
      PROVE  Growing(log', e)
  <2> DEFINE mine == ev.ent = e /\ ev.kind # "violation"
  <2>1. Counted(log', e) = Counted(log, e) \cup (IF mine /\ ev.rc # NoCount THEN {n} ELSE {})
    BY <1>1, SetsAfterAppend
  <2>2. Counted(log, e) \in SUBSET DOMAIN log /\ Counted(log, e) \in SUBSET Mine(log, e)
    BY DEF Counted, Mine
  <2>3. ASSUME mine, ev.rc # NoCount
        PROVE  \A i \in Counted(log, e) : log[i].rc < ev.rc
    <3>1. CASE Mine(log, e) = {}
      BY <2>2, <3>1
    <3>2. CASE Mine(log, e) # {}
      <4>1. ev.rc = Folded(log, e).rc + 1
        BY <2>3, <3>2 DEF CountsOn
      <4> QED
        BY <3>2, <4>1, LastCount
    <3> QED
      BY <3>1, <3>2
  <2> HIDE DEF n, mine
  <2> SUFFICES ASSUME NEW i \in Counted(log', e), NEW k \in Counted(log', e), i < k
               PROVE  log'[i].rc < log'[k].rc
    BY DEF Growing
  <2>4. i \in Counted(log, e)
    BY <1>3, <1>4, <2>1, <2>2
  <2>5. CASE k \in Counted(log, e)
    BY <1>2, <2>2, <2>4, <2>5 DEF CountInv, Growing
  <2>6. CASE k = n /\ mine /\ ev.rc # NoCount
    BY <1>2, <2>2, <2>3, <2>4, <2>6
  <2> QED
    BY <2>1, <2>5, <2>6
<1> QED
  BY <1>5, <1>6 DEF CountInv

LEMMA StampedCount ==
  ASSUME IInv, OrderInv, CountInv, NEW ev \in Event, Sound(log, ev), Capped(ev), CountsOn(ev),
         AppendRaw(ev)
  PROVE  CountInv'
<1>1. PICK d \in ClockSteps : log' = Append(log, [ev EXCEPT !.ts = clock + d])
  BY DEF AppendRaw
<1>2. clock + d \in Int
  BY ClockStepsAreInts DEF IInv, TypeOK
<1>3. PICK t : t = clock + d
  OBVIOUS
<1> DEFINE e2 == [ev EXCEPT !.ts = t]
<1>4. e2.kind = ev.kind /\ e2.ent = ev.ent /\ e2.rc = ev.rc /\ e2.to = ev.to
  BY DEF Event
<1>5. e2 \in Event /\ Sound(log, e2)
  BY <1>2, <1>3, StampOK
<1>6. log' = Append(log, e2)
  BY <1>1, <1>3
<1> HIDE DEF e2
<1>7. Capped(e2) /\ CountsOn(e2)
  BY <1>4 DEF Capped, CountsOn
<1> QED
  BY <1>5, <1>6, <1>7, AppendKeepsCounts

LEMMA NextCounts == IInv /\ OrderInv /\ CountInv /\ [Next]_vars => CountInv'
<1> SUFFICES ASSUME IInv, OrderInv, CountInv, [Next]_vars PROVE CountInv'
  OBVIOUS
<1>1. CASE UNCHANGED log
  BY <1>1 DEF CountInv, Growing, Counted, Mine
<1>2. ASSUME NEW p \in Procs, Operation(p)
      PROVE  CountInv'
  <2>1. PICK ev \in Event : /\ Sound(log, ev) /\ ev.kind # "violation"
                            /\ Decided(p, ev) /\ Shaped(p, ev) /\ Commit(p, ev)
    BY <1>2, OperationCommits
  <2>2. pc[p] = "folded" /\ AppendRaw(ev)
    BY <1>2, <2>1, OperationCommits DEF Commit
  <2>3. ev.ent \in Entities
    BY DEF Event
  <2>4. known[p][ev.ent] = Folded(log, ev.ent)
    BY <2>2, <2>3, KnownFacts
  <2>5. Capped(ev)
    BY <2>1 DEF Capped, Shaped
  <2>6. CountsOn(ev)
    BY <2>1, <2>4 DEF CountsOn, Shaped, Sound
  <2> QED
    BY <2>1, <2>2, <2>5, <2>6, StampedCount
<1>3. ASSUME NEW p \in Procs, IllegalMove(p)
      PROVE  CountInv'
  <2> DEFINE e == call[p].ent
             ev == NewEvent(p, "violation", e, known[p][e].st, None, NoCount, None)
  <2>1. /\ pc[p] = "folded" /\ call[p].op = "move" /\ CasOk(p) /\ AppendRaw(ev)
    BY <1>3 DEF IllegalMove, Subject
  <2>2. e \in Entities /\ known[p][e] # Absent
    BY <2>1 DEF IInv, CallInv, CallOK, CasOk, Subject, Entities
  <2>3. ev \in Event /\ Sound(log, ev) /\ ev.kind = "violation"
    BY <2>1, <2>2, PlainEventOK
  <2>4. ev.rc = NoCount
    BY DEF NewEvent
  <2> HIDE DEF ev
  <2>5. Capped(ev) /\ CountsOn(ev)
    BY <2>3, <2>4 DEF Capped, CountsOn
  <2> QED
    BY <2>1, <2>3, <2>5, StampedCount
<1> QED
  BY <1>1, <1>2, <1>3 DEF Next, vars, Begin, Acquire, FoldFails, Holder, Operation, Abort,
                          Refuse, RebuildViews, WriteView

-----------------------------------------------------------------------------
(* The budget *)

LEMMA CountsBound == IInv /\ CountInv => RecoverBudget
<1> SUFFICES ASSUME IInv, CountInv, NEW j \in Jobs
             PROVE  Cardinality({i \in 1..Len(log) : /\ log[i].ent = j
                                                    /\ log[i].rc \notin {0, NoCount}
                                                    /\ log[i].to = "created"}) <= MaxRetries
  BY DEF RecoverBudget
<1> DEFINE S == {i \in 1..Len(log) : /\ log[i].ent = j /\ log[i].rc \notin {0, NoCount}
                                     /\ log[i].to = "created"}
           T == 1..MaxRetries
           f == [i \in S |-> log[i].rc]
<1>1. log \in Seq(Event) /\ j \in Entities /\ MaxRetries \in Nat
  BY MaxRetriesIsNat DEF IInv, TypeOK, Entities
<1>2. ASSUME NEW i \in S
      PROVE  i \in Int /\ i \in Counted(log, j) /\ log[i].rc \in T
  <2>1. i \in DOMAIN log /\ i \in Int /\ log[i] \in Event
    BY <1>1
  <2>2. Capped(log[i])
    BY <2>1 DEF CountInv
  <2>3. log[i].rc \in Nat \cup {NoCount}
    BY <2>1 DEF Event
  <2>4. i \in Counted(log, j)
    BY <2>1, <2>2 DEF Counted, Mine, Capped
  <2>5. log[i].rc \in T
    BY <1>1, <2>2, <2>3 DEF Capped
  <2> QED
    BY <2>1, <2>4, <2>5
<1>3. \A i, k \in S : i < k => log[i].rc < log[k].rc
  BY <1>1, <1>2 DEF CountInv, Growing
<1> HIDE DEF S, T
<1>4. f \in [S -> T]
  BY <1>2
<1>5. ASSUME NEW i \in S, NEW k \in S, f[i] = f[k]
      PROVE  i = k
  <2>1. i \in Int /\ k \in Int /\ log[i].rc \in Int /\ log[k].rc = log[i].rc
    BY <1>2, <1>5 DEF T
  <2> QED
    BY <1>3, <2>1
<1>6. f \in Injection(S, T)
  BY <1>4, <1>5 DEF Injection, IsInjective
<1>7. IsFiniteSet(T) /\ Cardinality(T) = MaxRetries
  BY <1>1, FS_Interval DEF T
<1>8. Cardinality(S) <= Cardinality(T)
  BY <1>6, <1>7, FS_Injection
<1> QED
  BY <1>7, <1>8 DEF S

(* With a clock that separates commits, RecoverJob sends a job back to     *)
(* created at most MaxRetries times in its whole life, whatever crashes,   *)
(* recoveries and human re-dispatches come in between: the count it reads  *)
(* under state.lock is never an old one.                                   *)
THEOREM RecoveryIsBounded == ASSUME Strict PROVE Spec => []RecoverBudget
<1>1. Init => IInv /\ VInv /\ CountInv
  <2> SUFFICES ASSUME Init PROVE CountInv
    BY InitIInv, InitVInv
  <2>1. log = <<>>
    BY DEF Init
  <2> QED
    BY <2>1 DEF CountInv, Growing, Counted, Mine
<1>2. IInv /\ VInv /\ CountInv /\ [Next]_vars => (IInv /\ VInv /\ CountInv)'
  BY NextIInv, NextVInv, NextCounts DEF VInv
<1>3. IInv /\ CountInv => RecoverBudget
  BY CountsBound
<1> QED
  BY <1>1, <1>2, <1>3, PTL DEF Spec

===============================================================================
