----------------------------- MODULE DispatchProofs -----------------------------
(***************************************************************************)
(* TLAPS: the types of Dispatch, for any number of processes, jobs and     *)
(* gates, any commands and any bounds: what a process has read by the      *)
(* point it is at, and that every step leaves all processes so.            *)
(***************************************************************************)
EXTENDS Dispatch, TLAPS

-----------------------------------------------------------------------------
(* The parts of TypeOK, and what makes them inductive *)

Cmds == [op : Commands \cup {None}, job : Jobs \cup {None},
         gate : Gates \cup {None}, rev : Nat,
         seen : JobStatus \cup {None}, result : JobStatus \cup {None},
         todo : SUBSET Jobs, kept : SUBSET Jobs, live : SUBSET Jobs]

RunPoints  == {"add", "mark", "work", "commit", "decide", "finish"}
GatePoints == {"extend", "reread", "settle", "resolve"}

(* What a process at point pt has in its command c. *)
Fits(pt, c) ==
  /\ pt \in {"idle"} \cup Points /\ c \in Cmds
  /\ pt = "idle" => c = NoCmd
  /\ pt # "idle" => c.op \in Commands
  /\ pt \in RunPoints => c.op = "run"
  /\ pt = "add" => c.job \in WriteJobs
  /\ pt = "finish" => c.result \in {"completed", "failed", "needs-human", "timeout"}
  /\ pt \in GatePoints => c.op \in {"approve", "reject"} /\ c.gate \in Gates
  /\ pt \in {"reap", "reset", "prune"} => c.op = "recover"
  /\ pt \in {"rmtree", "rmbranch"} => c.op \in {"approve", "reject", "recover"}
  /\ pt = "merge" => c.op = "integrate"
  /\ pt = "gate" => c.op \in {"run", "recover", "integrate"}
  /\ pt \in {"merge", "gc"} => /\ c.op \in {"prune", "integrate"}
                               /\ c.todo \subseteq WriteJobs /\ c.kept \subseteq WriteJobs
  /\ pt \notin {"idle", "reap", "prune", "merge", "gc"} => c.job \in Jobs

(* Jobs always have a status, gates are absent or belong to a job. *)
EntOK ==
  /\ ent \in [Entities -> Image \cup {Absent}]
  /\ \A j \in Jobs : ent[j] \in Image /\ ent[j].st \in JobStatus
  /\ \A g \in Gates : ent[g] # Absent => ent[g] \in Image /\ ent[g].job \in Jobs

(* Only write jobs have a checkout or a branch. *)
GitOK ==
  /\ tree \in [Jobs -> {"none", "clean", "dirty"}]
  /\ branch \in [Jobs -> {"none", "base", "work"}]
  /\ \A j \in Jobs \ WriteJobs : tree[j] = "none" /\ branch[j] = "none"

ProcsOK ==
  /\ at \in [Procs -> {"idle"} \cup Points]
  /\ cmd \in [Procs -> Cmds]
  /\ \A p \in Procs : Fits(at[p], cmd[p])
  /\ worker \in [Jobs -> Procs \cup {None}]
  /\ reclock \in Procs \cup {None}
  /\ \A p \in Procs : reclock = p <=> cmd[p].op = "recover"
  /\ sweep \in {"no", "alone", "done"}

RestOK == orphan \subseteq Jobs /\ delivered \subseteq WriteJobs /\ made \subseteq WriteJobs

DInv == EntOK /\ GitOK /\ ProcsOK /\ RestOK

-----------------------------------------------------------------------------
(* What the store's operations do to the other entities *)

(* Job j changes, to status st and the next revision; its scope only grows. *)
JobStep(j, st) ==
  /\ EntOK'
  /\ \A k \in Jobs \ {j} : ent'[k] = ent[k]
  /\ \A g \in Gates : ent'[g] = ent[g]
  /\ ent'[j].rev = ent[j].rev + 1 /\ ent'[j].st = st
  /\ ent[j].allowed \subseteq ent'[j].allowed

(* Jobs stay as they are. *)
GateStep == EntOK' /\ \A j \in Jobs : ent'[j] = ent[j]

LEMMA PutJob ==
  ASSUME EntOK, NEW j \in Jobs, NEW v \in Image, v.st \in JobStatus,
         v.rev = ent[j].rev + 1, ent[j].allowed \subseteq v.allowed, Store!Put(j, v)
  PROVE  JobStep(j, v.st)
<1>1. ent' = [ent EXCEPT ![j] = v]
  BY DEF Store!Put
<1>2. j \in Entities /\ j \notin Gates
  BY EntitiesDistinct DEF Entities
<1>3. ent'[j] = v /\ \A e \in Entities \ {j} : ent'[e] = ent[e]
  BY <1>1, <1>2 DEF EntOK
<1>4. Jobs \subseteq Entities /\ Gates \subseteq Entities
  BY DEF Entities
<1>5. ent' \in [Entities -> Image \cup {Absent}]
  BY <1>1, <1>2 DEF EntOK
<1> QED
  BY <1>2, <1>3, <1>4, <1>5 DEF JobStep, EntOK

LEMMA PutGate ==
  ASSUME EntOK, NEW g \in Gates, NEW v \in Image, v.job \in Jobs, Store!Put(g, v)
  PROVE  GateStep /\ ent'[g] = v /\ \A h \in Gates \ {g} : ent'[h] = ent[h]
<1>1. ent' = [ent EXCEPT ![g] = v]
  BY DEF Store!Put
<1>2. g \in Entities /\ g \notin Jobs
  BY EntitiesDistinct DEF Entities
<1>3. ent'[g] = v /\ \A e \in Entities \ {g} : ent'[e] = ent[e]
  BY <1>1, <1>2 DEF EntOK
<1>4. Jobs \subseteq Entities /\ Gates \subseteq Entities
  BY DEF Entities
<1>5. ent' \in [Entities -> Image \cup {Absent}]
  BY <1>1, <1>2 DEF EntOK
<1> QED
  BY <1>2, <1>3, <1>4, <1>5 DEF GateStep, EntOK

LEMMA AdvanceImage ==
  ASSUME NEW v \in Image, NEW to \in Status
  PROVE  /\ Store!Advance(v, to) \in Image
         /\ Store!Advance(v, to).st = to
         /\ Store!Advance(v, to).rev = v.rev + 1
         /\ Store!Advance(v, to).allowed = v.allowed
<1>1. v.rev + 1 \in Nat
  BY DEF Image
<1>2. PICK r \in Nat : r = v.rev + 1
  BY <1>1
<1>3. Store!Advance(v, to) = [v EXCEPT !.st = to, !.rev = r]
  BY <1>2 DEF Store!Advance
<1>4. [v EXCEPT !.st = to, !.rev = r] \in Image
  BY DEF Image
<1> QED
  BY <1>2, <1>3, <1>4 DEF Image

LEMMA JobImage ==
  ASSUME EntOK, NEW j \in Jobs, NEW to \in JobStatus
  PROVE  LET v == Store!Advance(ent[j], to)
         IN  /\ v \in Image /\ v.st = to /\ v.rev = ent[j].rev + 1
             /\ v.allowed = ent[j].allowed
<1>1. ent[j] \in Image /\ to \in Status
  BY DEF EntOK, Status
<1> QED
  BY <1>1, AdvanceImage

LEMMA MoveJob ==
  ASSUME EntOK, NEW j \in Jobs, NEW to, Store!Move(j, to)
  PROVE  /\ JobStep(j, to) /\ <<ent[j].st, to>> \in JobLegal
<1>1. <<ent[j].st, to>> \in JobLegal
  BY EntitiesDistinct DEF Store!Move, Store!Legal, Store!JobLegal, JobLegal
<1>2. to \in JobStatus
  BY <1>1 DEF JobLegal, JobStatus
<1>3. Store!Put(j, Store!Advance(ent[j], to))
  BY DEF Store!Move
<1> QED
  BY <1>1, <1>2, <1>3, JobImage, PutJob

LEMMA RecoverJob ==
  ASSUME EntOK, NEW j \in Jobs, Store!Recover(j)
  PROVE  \E to \in {"created", "needs-human"} : JobStep(j, to)
<1> DEFINE rc == ent[j].rc + 1
           to == Store!RecoverTarget(rc)
           v == [Store!Advance(ent[j], to) EXCEPT !.rc = rc]
<1>1. to \in {"created", "needs-human"} /\ to \in JobStatus
  BY DEF Store!RecoverTarget, JobStatus
<1>2. rc \in Nat
  BY DEF EntOK, Image
<1>3. /\ v \in Image /\ v.st = to /\ v.rev = ent[j].rev + 1 /\ v.allowed = ent[j].allowed
  <2> HIDE DEF rc, to
  <2>1. PICK w : w = Store!Advance(ent[j], to)
    OBVIOUS
  <2>2. /\ w \in Image /\ w.st = to /\ w.rev = ent[j].rev + 1 /\ w.allowed = ent[j].allowed
    BY <1>1, <2>1, JobImage
  <2> QED
    BY <1>2, <2>1, <2>2 DEF Image
<1>4. Store!Put(j, v)
  BY DEF Store!Recover
<1> HIDE DEF v, to, rc
<1>5. JobStep(j, v.st)
  BY <1>1, <1>3, <1>4, PutJob
<1> QED
  BY <1>1, <1>3, <1>5

LEMMA ResolveJobStep ==
  ASSUME EntOK, NEW j \in Jobs, NEW to \in {"created", "cancelled"}, Store!Resolve(j, to)
  PROVE  JobStep(j, to)
<1>1. to \in JobStatus
  BY DEF JobStatus
<1>2. Store!Put(j, Store!Advance(ent[j], to))
  BY DEF Store!Resolve
<1> QED
  BY <1>1, <1>2, JobImage, PutJob

LEMMA ExtendJob ==
  ASSUME EntOK, NEW j \in Jobs, NEW x \in Globs, Store!Extend(j, x)
  PROVE  JobStep(j, ent[j].st)
<1> DEFINE v == [ent[j] EXCEPT !.rev = @ + 1, !.allowed = @ \cup {x}]
<1>1. /\ v \in Image /\ v.st = ent[j].st /\ v.rev = ent[j].rev + 1
      /\ ent[j].allowed \subseteq v.allowed
  <2>1. PICK i \in Image : i = ent[j]
    BY DEF EntOK
  <2>2. PICK r \in Nat : r = i.rev + 1
    BY DEF Image
  <2>3. PICK a \in SUBSET Globs : a = i.allowed \cup {x}
    BY DEF Image
  <2>4. v = [i EXCEPT !.rev = r, !.allowed = a]
    BY <2>1, <2>2, <2>3
  <2>5. [i EXCEPT !.rev = r, !.allowed = a] \in Image
    BY DEF Image
  <2> QED
    BY <2>1, <2>2, <2>3, <2>4, <2>5 DEF Image
<1>2. Store!Put(j, v)
  BY DEF Store!Extend
<1>3. ent[j].st \in JobStatus
  BY DEF EntOK
<1> HIDE DEF v
<1> QED
  BY <1>1, <1>2, <1>3, PutJob

(* The image of a gate that is opened. *)
LEMMA OpenedImage ==
  ASSUME NEW j \in Jobs, NEW r \in Reasons
  PROVE  /\ Store!OpenedGate(j, r) = OpenedGate(j, r)
         /\ OpenedGate(j, r) \in Image
         /\ OpenedGate(j, r).job = j /\ OpenedGate(j, r).st = "open"
BY DEF OpenedGate, Absent, Store!OpenedGate, Store!Absent, Image, Status, GateStatus

LEMMA OpenGateStep ==
  ASSUME EntOK, NEW j \in Jobs, NEW r \in Reasons, OpenGateForJob(j, r)
  PROVE  /\ GateStep
         /\ \E g \in Gates : ent'[g].st = "open" /\ ent'[g].job = j
         /\ \A g \in Gates : ent'[g] = ent[g] \/ (ent[g] = Absent /\ ent'[g].st = "open")
<1>1. CASE \E g \in Gates : ent[g] = OpenedGate(j, r)
  <2>1. ent' = ent
    BY <1>1 DEF OpenGateForJob
  <2> QED
    BY <1>1, <2>1, OpenedImage DEF GateStep, EntOK
<1>2. CASE ~ \E g \in Gates : ent[g] = OpenedGate(j, r)
  <2>1. PICK g \in Gates : Store!OpenGate(g, j, r)
    BY <1>2 DEF OpenGateForJob
  <2>2. Store!Put(g, OpenedGate(j, r)) /\ ent[g] = Absent
    BY <2>1, OpenedImage DEF Store!OpenGate, Store!Absent, Absent
  <2>3. /\ OpenedGate(j, r) \in Image
        /\ OpenedGate(j, r).job = j /\ OpenedGate(j, r).st = "open"
    BY OpenedImage
  <2>4. GateStep /\ ent'[g] = OpenedGate(j, r) /\ \A h \in Gates \ {g} : ent'[h] = ent[h]
    BY <2>2, <2>3, PutGate
  <2> QED
    BY <2>2, <2>3, <2>4
<1> QED
  BY <1>1, <1>2

LEMMA SettleGate ==
  ASSUME EntOK, NEW g \in Gates, NEW to \in {"approved", "rejected"}, Store!ResolveGate(g, to)
  PROVE  GateStep
<1>1. ent[g] # Absent /\ Store!Put(g, [ent[g] EXCEPT !.st = to])
  BY DEF Store!ResolveGate, Store!Absent, Absent
<1>2. ent[g] \in Image /\ ent[g].job \in Jobs
  BY <1>1 DEF EntOK
<1>3. [ent[g] EXCEPT !.st = to] \in Image /\ [ent[g] EXCEPT !.st = to].job \in Jobs
  BY <1>2 DEF Image, Status, GateStatus
<1> QED
  BY <1>1, <1>3, PutGate

-----------------------------------------------------------------------------
(* Processes *)

LEMMA NoCmdFits == NoCmd \in Cmds /\ NoCmd.op = None /\ Fits("idle", NoCmd)
<1>1. NoCmd \in Cmds /\ NoCmd.op = None
  BY DEF NoCmd, Cmds
<1> QED
  BY <1>1 DEF Fits, RunPoints, GatePoints

(* A smaller set of live workers changes nothing of what fits. *)
LEMMA LessLive ==
  ASSUME NEW pt, NEW c, Fits(pt, c), NEW s \in SUBSET c.live
  PROVE  /\ Fits(pt, [c EXCEPT !.live = s]) \/ c = NoCmd
         /\ [c EXCEPT !.live = s] \in Cmds /\ [c EXCEPT !.live = s].op = c.op
<1>1. c \in Cmds
  BY DEF Fits
<1> DEFINE d == [c EXCEPT !.live = s]
<1>2. d \in Cmds /\ d.op = c.op /\ d.job = c.job /\ d.gate = c.gate
      /\ d.result = c.result /\ d.todo = c.todo /\ d.kept = c.kept
  BY <1>1 DEF Cmds
<1> HIDE DEF d
<1>3. ASSUME c # NoCmd
      PROVE  Fits(pt, d)
  <2>1. pt # "idle"
    BY <1>3 DEF Fits
  <2> QED
    BY <1>2, <2>1 DEF Fits, Points, RunPoints, GatePoints
<1> QED
  BY <1>2, <1>3 DEF d

LEMMA GotoOK ==
  ASSUME ProcsOK, NEW p \in Procs, NEW pt, NEW c, Goto(p, pt, c),
         Fits(pt, c), c.op = cmd[p].op
  PROVE  ProcsOK' /\ at'[p] = pt /\ cmd'[p] = c
         /\ \A q \in Procs \ {p} : at'[q] = at[q] /\ cmd'[q] = cmd[q]
<1>1. /\ at' = [at EXCEPT ![p] = pt] /\ cmd' = [cmd EXCEPT ![p] = c]
      /\ worker' = worker /\ reclock' = reclock /\ sweep' = sweep
  BY DEF Goto
<1>2. pt \in {"idle"} \cup Points /\ c \in Cmds
  BY DEF Fits
<1>3. at'[p] = pt /\ cmd'[p] = c /\ \A q \in Procs \ {p} : at'[q] = at[q] /\ cmd'[q] = cmd[q]
  BY <1>1 DEF ProcsOK
<1>4. at' \in [Procs -> {"idle"} \cup Points] /\ cmd' \in [Procs -> Cmds]
  BY <1>1, <1>2 DEF ProcsOK
<1>5. \A q \in Procs : Fits(at'[q], cmd'[q]) /\ cmd'[q].op = cmd[q].op
  BY <1>3 DEF ProcsOK
<1> QED
  BY <1>1, <1>3, <1>4, <1>5 DEF ProcsOK

LEMMA ExitOK ==
  ASSUME ProcsOK, NEW p \in Procs, Exit(p)
  PROVE  /\ ProcsOK' /\ at'[p] = "idle" /\ cmd'[p] = NoCmd
         /\ \A q \in Procs \ {p} :
              /\ at'[q] = at[q]
              /\ cmd'[q] = [cmd[q] EXCEPT !.live = {j \in @ : worker[j] # p}]
         /\ \A q \in Procs \ {p} : Fits(at'[q], cmd'[q])
<1>1. /\ at' = [at EXCEPT ![p] = "idle"]
      /\ cmd' = [q \in Procs |-> IF q = p THEN NoCmd
                                 ELSE [cmd[q] EXCEPT !.live = {j \in @ : worker[j] # p}]]
      /\ worker' = [j \in Jobs |-> IF worker[j] = p THEN None ELSE worker[j]]
      /\ reclock' = IF reclock = p THEN None ELSE reclock
  BY DEF Exit
<1>2. sweep' \in {"no", "alone", "done"}
  BY DEF Exit, ProcsOK
<1>3. /\ at'[p] = "idle" /\ cmd'[p] = NoCmd
      /\ \A q \in Procs \ {p} :
           /\ at'[q] = at[q]
           /\ cmd'[q] = [cmd[q] EXCEPT !.live = {j \in @ : worker[j] # p}]
  BY <1>1 DEF ProcsOK
<1>4. ASSUME NEW q \in Procs \ {p}
      PROVE  Fits(at'[q], cmd'[q]) /\ cmd'[q] \in Cmds /\ cmd'[q].op = cmd[q].op
  <2>1. PICK s \in SUBSET cmd[q].live : s = {j \in cmd[q].live : worker[j] # p}
    OBVIOUS
  <2>2. cmd'[q] = [cmd[q] EXCEPT !.live = s]
    BY <1>3, <2>1
  <2>3. Fits(at[q], cmd[q])
    BY DEF ProcsOK
  <2>4. CASE cmd[q] = NoCmd
    <3>1. s = {}
      BY <2>1, <2>4 DEF NoCmd
    <3>2. [NoCmd EXCEPT !.live = {}] = NoCmd
      BY DEF NoCmd
    <3> QED
      BY <1>3, <2>2, <2>3, <2>4, <3>1, <3>2, NoCmdFits
  <2>5. CASE cmd[q] # NoCmd
    <3>1. /\ Fits(at[q], [cmd[q] EXCEPT !.live = s]) \/ cmd[q] = NoCmd
          /\ [cmd[q] EXCEPT !.live = s] \in Cmds
          /\ [cmd[q] EXCEPT !.live = s].op = cmd[q].op
      BY <2>3, LessLive
    <3>2. at'[q] = at[q]
      BY <1>3
    <3> QED
      BY <2>2, <2>5, <3>1, <3>2
  <2> QED
    BY <2>4, <2>5
<1>5. at' \in [Procs -> {"idle"} \cup Points]
  BY <1>1 DEF ProcsOK
<1>6. cmd' \in [Procs -> Cmds]
  BY <1>1, <1>3, <1>4, NoCmdFits
<1>7. worker' \in [Jobs -> Procs \cup {None}]
  BY <1>1 DEF ProcsOK
<1>8. reclock' \in Procs \cup {None}
  BY <1>1 DEF ProcsOK
<1>9. \A q \in Procs : reclock' = q <=> cmd'[q].op = "recover"
  <2> TAKE q \in Procs
  <2>1. CASE q = p
    BY <1>1, <1>3, <2>1, NoCmdFits, NoneIsNoProc, NoneIsNoCommand DEF AllCommands
  <2>2. CASE q # p
    BY <1>1, <1>4, <2>2, NoneIsNoProc DEF ProcsOK
  <2> QED
    BY <2>1, <2>2
<1>10. \A q \in Procs : Fits(at'[q], cmd'[q])
  BY <1>3, <1>4, NoCmdFits
<1> QED
  BY <1>2, <1>3, <1>4, <1>5, <1>6, <1>7, <1>8, <1>9, <1>10 DEF ProcsOK

LEMMA BeginOK ==
  ASSUME ProcsOK, NEW p \in Procs, NEW pt, NEW c, Begin(p, pt, c), Fits(pt, c),
         c.op # "recover", worker' = worker, reclock' = reclock,
         sweep' \in {"no", "alone", "done"}
  PROVE  ProcsOK' /\ at[p] = "idle" /\ at'[p] = pt /\ cmd'[p] = c
         /\ \A q \in Procs \ {p} : at'[q] = at[q] /\ cmd'[q] = cmd[q]
<1>1. /\ at' = [at EXCEPT ![p] = pt] /\ cmd' = [cmd EXCEPT ![p] = c] /\ at[p] = "idle"
  BY DEF Begin
<1>2. pt \in {"idle"} \cup Points /\ c \in Cmds
  BY DEF Fits
<1>3. at'[p] = pt /\ cmd'[p] = c /\ \A q \in Procs \ {p} : at'[q] = at[q] /\ cmd'[q] = cmd[q]
  BY <1>1 DEF ProcsOK
<1>4. at' \in [Procs -> {"idle"} \cup Points] /\ cmd' \in [Procs -> Cmds]
  BY <1>1, <1>2 DEF ProcsOK
<1>5. \A q \in Procs : Fits(at'[q], cmd'[q])
  BY <1>3 DEF ProcsOK
<1>6. cmd[p].op # "recover"
  BY <1>1, NoCmdFits, NoneIsNoCommand DEF ProcsOK, Fits, AllCommands
<1> QED
  BY <1>1, <1>3, <1>4, <1>5, <1>6 DEF ProcsOK

-----------------------------------------------------------------------------
(* Every step keeps DInv: first harness run *)

(* The store and git are untouched. *)
LEMMA SameRest ==
  ASSUME DInv, UNCHANGED <<ent, git, orphan, delivered, made>>, ProcsOK'
  PROVE  DInv'
BY DEF DInv, EntOK, GitOK, RestOK, git

LEMMA RunLoadOK == ASSUME DInv, NEW p \in Procs, RunLoad(p)  PROVE DInv'
<1>1. PICK j \in Jobs :
        Begin(p, IF j \in WriteJobs THEN "add" ELSE "mark",
              [NoCmd EXCEPT !.op = "run", !.job = j, !.rev = ent[j].rev])
  BY DEF RunLoad
<1>2. PICK r \in Nat : r = ent[j].rev
  BY DEF DInv, EntOK, Image
<1> DEFINE c == [NoCmd EXCEPT !.op = "run", !.job = j, !.rev = r]
           pt == IF j \in WriteJobs THEN "add" ELSE "mark"
<1>3. Begin(p, pt, c)
  BY <1>1, <1>2
<1>4. c.op = "run" /\ "run" \in Commands
  BY <1>3 DEF Begin, NoCmd
<1>5. c \in Cmds /\ c.job = j
  BY <1>4 DEF NoCmd, Cmds
<1>6. Fits(pt, c)
  BY <1>4, <1>5 DEF Fits, Points, RunPoints, GatePoints
<1> HIDE DEF c, pt
<1>7. worker' = worker /\ reclock' = reclock /\ sweep' \in {"no", "alone", "done"}
  BY DEF RunLoad
<1>8. ProcsOK'
  BY <1>3, <1>4, <1>6, <1>7, BeginOK DEF DInv
<1> QED
  BY <1>8, SameRest DEF RunLoad

LEMMA AddTreeOK == ASSUME DInv, NEW p \in Procs, AddTree(p)  PROVE DInv'
<1>1. Fits("add", cmd[p])
  BY DEF DInv, ProcsOK, AddTree
<1>2. cmd[p].job \in WriteJobs
  BY <1>1 DEF Fits
<1>3. Fits("mark", cmd[p])
  BY <1>1 DEF Fits, Points, RunPoints, GatePoints
<1>4. ProcsOK'
  BY <1>3, GotoOK, ExitOK DEF DInv, AddTree
<1>5. GitOK'
  BY <1>2, WriteJobsAreJobs DEF DInv, GitOK, AddTree, git
<1> QED
  BY <1>4, <1>5 DEF DInv, AddTree, EntOK, RestOK

LEMMA MarkRunningOK == ASSUME DInv, NEW p \in Procs, MarkRunning(p)  PROVE DInv'
<1>1. Fits("mark", cmd[p])
  BY DEF DInv, ProcsOK, MarkRunning
<1>2. cmd[p].job \in Jobs
  BY <1>1 DEF Fits
<1>3. GitOK' /\ RestOK'
  BY DEF DInv, GitOK, RestOK, MarkRunning, git
<1>4. CASE Current(p)
  <2>1. EntOK'
    BY <1>2, <1>4, MoveJob DEF MarkRunning, DInv, JobStep
  <2>2. PICK r \in Nat : r = cmd[p].rev + 1
    BY <1>1 DEF Fits, Cmds
  <2> DEFINE c == [cmd[p] EXCEPT !.rev = r]
  <2>3. Fits("work", c) /\ c.op = cmd[p].op
    BY <1>1 DEF Fits, Cmds, Points, RunPoints, GatePoints
  <2>4. at' = [at EXCEPT ![p] = "work"] /\ cmd' = [cmd EXCEPT ![p] = c]
    BY <1>4, <2>2 DEF MarkRunning
  <2> HIDE DEF c
  <2>5. worker' \in [Jobs -> Procs \cup {None}]
    BY <1>2, <1>4 DEF MarkRunning, DInv, ProcsOK
  <2>6. \A q \in Procs : Fits(at'[q], cmd'[q]) /\ cmd'[q].op = cmd[q].op
    BY <2>3, <2>4 DEF DInv, ProcsOK
  <2>7. at' \in [Procs -> {"idle"} \cup Points] /\ cmd' \in [Procs -> Cmds]
    BY <2>3, <2>4 DEF DInv, ProcsOK, Fits, Points
  <2>8. ProcsOK'
    BY <1>4, <2>5, <2>6, <2>7 DEF DInv, ProcsOK, MarkRunning
  <2> QED
    BY <1>3, <2>1, <2>8 DEF DInv
<1>5. CASE ~ Current(p)
  BY <1>3, <1>5, ExitOK DEF MarkRunning, DInv, EntOK
<1> QED
  BY <1>4, <1>5

LEMMA EditOK == ASSUME DInv, NEW p \in Procs, Edit(p)  PROVE DInv'
<1>1. cmd[p].job \in WriteJobs
  BY DEF Edit, MayEdit
<1> QED
  BY <1>1, WriteJobsAreJobs DEF DInv, EntOK, GitOK, ProcsOK, RestOK, Edit

LEMMA WorkOK == ASSUME DInv, NEW p \in Procs, Work(p)  PROVE DInv'
<1>1. Fits("work", cmd[p])
  BY DEF DInv, ProcsOK, Work
<1>2. Fits("commit", cmd[p]) /\ cmd[p].job \in Jobs
  BY <1>1 DEF Fits, Points, RunPoints, GatePoints
<1>3. ProcsOK'
  BY <1>2, GotoOK DEF DInv, Work
<1> QED
  BY <1>2, <1>3 DEF DInv, EntOK, GitOK, RestOK, Work, git

LEMMA CommitOK == ASSUME DInv, NEW p \in Procs, Commit(p)  PROVE DInv'
<1>1. Fits("commit", cmd[p])
  BY DEF DInv, ProcsOK, Commit
<1>2. Fits("decide", cmd[p]) /\ cmd[p].job \in Jobs
  BY <1>1 DEF Fits, Points, RunPoints, GatePoints
<1> DEFINE c == [cmd[p] EXCEPT !.result = "needs-human"]
<1>3. Fits("finish", c) /\ c.op = cmd[p].op
  BY <1>1 DEF Fits, Points, RunPoints, GatePoints, Cmds, JobStatus
<1>4. Goto(p, "decide", cmd[p]) \/ Goto(p, "finish", c)
  BY DEF Commit
<1> HIDE DEF c
<1>5. ProcsOK'
  BY <1>2, <1>3, <1>4, GotoOK DEF DInv
<1>6. GitOK'
  <2>1. CASE UNCHANGED git
    BY <2>1 DEF DInv, GitOK, git
  <2>2. CASE tree[cmd[p].job] = "dirty"
    <3>1. cmd[p].job \in WriteJobs
      BY <1>2, <2>2 DEF DInv, GitOK
    <3> QED
      BY <3>1, WriteJobsAreJobs DEF DInv, GitOK, Commit, git
  <2> QED
    BY <2>1, <2>2 DEF Commit
<1> QED
  BY <1>5, <1>6 DEF DInv, EntOK, RestOK, Commit

LEMMA DecideOK == ASSUME DInv, NEW p \in Procs, Decide(p)  PROVE DInv'
<1>1. Fits("decide", cmd[p])
  BY DEF DInv, ProcsOK, Decide
<1>2. PICK r \in Results : Goto(p, "finish", [cmd[p] EXCEPT !.result = Verdict(cmd[p].job, r)])
  BY DEF Decide
<1>3. Verdict(cmd[p].job, r) \in {"completed", "failed", "needs-human", "timeout"}
  BY DEF Results, Verdict
<1>4. PICK v \in {"completed", "failed", "needs-human", "timeout"} : v = Verdict(cmd[p].job, r)
  BY <1>3
<1> DEFINE c == [cmd[p] EXCEPT !.result = v]
<1>5. Fits("finish", c) /\ c.op = cmd[p].op
  BY <1>1 DEF Fits, Points, RunPoints, GatePoints, Cmds, JobStatus
<1>6. Goto(p, "finish", c)
  BY <1>2, <1>4
<1> HIDE DEF c
<1>7. ProcsOK'
  BY <1>5, <1>6, GotoOK DEF DInv
<1> QED
  BY <1>7, SameRest DEF Decide

LEMMA FinishOK == ASSUME DInv, NEW p \in Procs, Finish(p)  PROVE DInv'
<1>1. Fits("finish", cmd[p])
  BY DEF DInv, ProcsOK, Finish
<1>2. Fits("gate", cmd[p]) /\ cmd[p].job \in Jobs
  BY <1>1 DEF Fits, Points, RunPoints, GatePoints
<1>3. ProcsOK'
  BY <1>2, GotoOK, ExitOK DEF DInv, Finish
<1>4. EntOK'
  BY <1>2, MoveJob DEF DInv, Finish, JobStep, EntOK
<1>5. RestOK'
  BY <1>2 DEF DInv, GitOK, RestOK, Finish
<1> QED
  BY <1>3, <1>4, <1>5 DEF DInv, GitOK, Finish, git

LEMMA OpenGateOK == ASSUME DInv, NEW p \in Procs, OpenGate(p)  PROVE DInv'
<1>1. Fits("gate", cmd[p])
  BY DEF DInv, ProcsOK, OpenGate
<1>2. cmd[p].job \in Jobs /\ cmd[p].op \in {"run", "recover", "integrate"}
  BY <1>1 DEF Fits
<1>3. EntOK'
  BY <1>2, OpenGateStep, ReasonsAreKnown DEF OpenGate, GateStep, DInv
<1>4. cmd[p].op = "recover" => Fits("reap", cmd[p])
  BY <1>1 DEF Fits, Points, RunPoints, GatePoints
<1>5. ProcsOK'
  BY <1>2, <1>4, GotoOK, ExitOK DEF DInv, OpenGate
<1> QED
  BY <1>3, <1>5 DEF DInv, GitOK, RestOK, OpenGate, git

-----------------------------------------------------------------------------
(* worktree removal and harness recover *)

LEMMA RemoveTreeOK == ASSUME DInv, NEW p \in Procs, RemoveTree(p)  PROVE DInv'
<1>1. Fits("rmtree", cmd[p])
  BY DEF DInv, ProcsOK, RemoveTree
<1>2. Fits("rmbranch", cmd[p]) /\ cmd[p].job \in Jobs
  BY <1>1 DEF Fits, Points, RunPoints, GatePoints
<1>3. ProcsOK'
  BY <1>2, GotoOK DEF DInv, RemoveTree
<1>4. GitOK'
  BY <1>2 DEF DInv, GitOK, RemoveTree
<1> QED
  BY <1>3, <1>4 DEF DInv, EntOK, RestOK, RemoveTree

LEMMA RemoveBranchOK == ASSUME DInv, NEW p \in Procs, RemoveBranch(p)  PROVE DInv'
<1>1. Fits("rmbranch", cmd[p])
  BY DEF DInv, ProcsOK, RemoveBranch
<1>2. cmd[p].op \in {"approve", "reject", "recover"} /\ cmd[p].job \in Jobs
  BY <1>1 DEF Fits
<1>3. cmd[p].op = "recover" => Fits("reset", cmd[p]) /\ Fits("prune", cmd[p])
  BY <1>1 DEF Fits, Points, RunPoints, GatePoints
<1>4. \/ Exit(p)
      \/ cmd[p].op = "recover" /\ Goto(p, "reset", cmd[p])
      \/ cmd[p].op = "recover" /\ Goto(p, "prune", cmd[p])
  BY <1>2, Zenon DEF RemoveBranch
<1>5. ProcsOK'
  BY <1>3, <1>4, GotoOK, ExitOK DEF DInv
<1>6. GitOK'
  BY <1>2 DEF DInv, GitOK, RemoveBranch
<1> QED
  BY <1>5, <1>6 DEF DInv, EntOK, RestOK, RemoveBranch

LEMMA RecoverStartOK == ASSUME DInv, NEW p \in Procs, RecoverStart(p)  PROVE DInv'
<1> DEFINE running == {j \in Jobs : ent[j].st = "running"}
           alive == {j \in running : worker[j] # None}
           c == [NoCmd EXCEPT !.op = "recover", !.todo = running, !.live = alive]
<1>1. Begin(p, "reap", c) /\ reclock' = p /\ reclock = None /\ worker' = worker
  BY DEF RecoverStart, LockFree
<1>2. running \in SUBSET Jobs /\ alive \in SUBSET Jobs
  OBVIOUS
<1> HIDE DEF running, alive
<1>3. c.op = "recover" /\ "recover" \in Commands
  BY <1>1 DEF Begin, NoCmd
<1>4. c \in Cmds
  BY <1>2, <1>3 DEF NoCmd, Cmds
<1>5. Fits("reap", c)
  BY <1>3, <1>4 DEF Fits, Points, RunPoints, GatePoints
<1> HIDE DEF c
<1>6. at' = [at EXCEPT ![p] = "reap"] /\ cmd' = [cmd EXCEPT ![p] = c]
  BY <1>1 DEF Begin
<1>7. \A q \in Procs : Fits(at'[q], cmd'[q])
  BY <1>5, <1>6 DEF DInv, ProcsOK
<1>8. at' \in [Procs -> {"idle"} \cup Points] /\ cmd' \in [Procs -> Cmds]
  BY <1>4, <1>6 DEF DInv, ProcsOK, Points
<1>9. \A q \in Procs : reclock' = q <=> cmd'[q].op = "recover"
  BY <1>1, <1>3, <1>6, NoneIsNoProc DEF DInv, ProcsOK
<1>10. sweep' \in {"no", "alone", "done"}
  BY DEF RecoverStart
<1>11. ProcsOK'
  BY <1>1, <1>7, <1>8, <1>9, <1>10 DEF DInv, ProcsOK
<1> QED
  BY <1>11, SameRest DEF RecoverStart

LEMMA ReapOK == ASSUME DInv, NEW p \in Procs, Reap(p)  PROVE DInv'
<1>1. Fits("reap", cmd[p])
  BY DEF DInv, ProcsOK, Reap
<1>2. PICK j \in cmd[p].todo :
        IF Alive(p, j)
        THEN Goto(p, "reap", [cmd[p] EXCEPT !.todo = @ \ {j}, !.kept = @ \cup {j}])
        ELSE Goto(p, IF j \in WriteJobs THEN "rmtree" ELSE "reset", [cmd[p] EXCEPT !.job = j])
  BY DEF Reap
<1>3. j \in Jobs
  BY <1>1 DEF Fits, Cmds
<1>4. PICK t, k \in SUBSET Jobs : t = cmd[p].todo \ {j} /\ k = cmd[p].kept \cup {j}
  BY <1>1, <1>3 DEF Fits, Cmds
<1> DEFINE c == [cmd[p] EXCEPT !.todo = t, !.kept = k]
           d == [cmd[p] EXCEPT !.job = j]
           pt == IF j \in WriteJobs THEN "rmtree" ELSE "reset"
<1>5. c \in Cmds /\ c.op = cmd[p].op /\ d \in Cmds /\ d.op = cmd[p].op /\ d.job = j
  BY <1>1, <1>3 DEF Fits, Cmds
<1>6. Goto(p, "reap", c) \/ Goto(p, pt, d)
  BY <1>2, <1>4
<1>7. cmd[p].op = "recover" /\ cmd[p].op \in Commands
  BY <1>1 DEF Fits
<1>8. Fits("reap", c) /\ Fits(pt, d)
  <2> HIDE DEF c, d
  <2> QED
    BY <1>3, <1>5, <1>7 DEF Fits, Points, RunPoints, GatePoints
<1> HIDE DEF c, d, pt
<1>9. ProcsOK'
  BY <1>5, <1>6, <1>8, GotoOK DEF DInv
<1> QED
  BY <1>9, SameRest DEF Reap

LEMMA ResetOK == ASSUME DInv, NEW p \in Procs, Reset(p)  PROVE DInv'
<1>1. Fits("reset", cmd[p])
  BY DEF DInv, ProcsOK, Reset
<1>2. cmd[p].job \in Jobs /\ cmd[p].op = "recover"
  BY <1>1 DEF Fits
<1>3. EntOK'
  BY <1>2, RecoverJob DEF DInv, Reset, JobStep, EntOK
<1>4. PICK t \in SUBSET Jobs : t = cmd[p].todo \ {cmd[p].job}
  BY <1>1 DEF Fits, Cmds
<1> DEFINE c == [cmd[p] EXCEPT !.todo = t]
<1>5. c \in Cmds /\ c.op = cmd[p].op /\ c.job = cmd[p].job
  BY <1>1 DEF Fits, Cmds
<1>6. Goto(p, "gate", c) \/ Goto(p, "reap", c)
  BY <1>4 DEF Reset
<1> HIDE DEF c
<1>7. cmd[p].op \in Commands
  BY <1>1 DEF Fits
<1>8. Fits("gate", c) /\ Fits("reap", c)
  BY <1>2, <1>5, <1>7 DEF Fits, Points, RunPoints, GatePoints
<1>9. ProcsOK'
  BY <1>5, <1>6, <1>8, GotoOK DEF DInv
<1> QED
  BY <1>3, <1>9 DEF DInv, GitOK, RestOK, Reset, git

LEMMA ListOrphansOK == ASSUME DInv, NEW p \in Procs, ListOrphans(p)  PROVE DInv'
<1>1. Fits("reap", cmd[p])
  BY DEF DInv, ProcsOK, ListOrphans
<1>2. PICK t \in SUBSET Jobs : t = Orphans(p)
  BY DEF Orphans
<1> DEFINE c == [cmd[p] EXCEPT !.todo = t]
<1>3. c \in Cmds /\ c.op = cmd[p].op
  BY <1>1 DEF Fits, Cmds
<1>4. Goto(p, "prune", c)
  BY <1>2 DEF ListOrphans
<1> HIDE DEF c
<1>5. Fits("prune", c)
  BY <1>1, <1>3 DEF Fits, Points, RunPoints, GatePoints
<1>6. ProcsOK'
  BY <1>3, <1>4, <1>5, GotoOK DEF DInv
<1> QED
  BY <1>6, SameRest DEF ListOrphans

LEMMA PruneOrphanOK == ASSUME DInv, NEW p \in Procs, PruneOrphan(p)  PROVE DInv'
<1>1. Fits("prune", cmd[p])
  BY DEF DInv, ProcsOK, PruneOrphan
<1>2. PICK j \in cmd[p].todo :
        /\ tree' = [tree EXCEPT ![j] = "none"]
        /\ Goto(p, "rmbranch", [cmd[p] EXCEPT !.job = j, !.todo = @ \ {j}])
  BY DEF PruneOrphan
<1>3. j \in Jobs
  BY <1>1 DEF Fits, Cmds
<1>4. PICK t \in SUBSET Jobs : t = cmd[p].todo \ {j}
  BY <1>1 DEF Fits, Cmds
<1> DEFINE c == [cmd[p] EXCEPT !.job = j, !.todo = t]
<1>5. c \in Cmds /\ c.op = cmd[p].op /\ c.job = j
  BY <1>1, <1>3 DEF Fits, Cmds
<1>6. Goto(p, "rmbranch", c)
  BY <1>2, <1>4
<1> HIDE DEF c
<1>7. Fits("rmbranch", c)
  BY <1>1, <1>3, <1>5 DEF Fits, Points, RunPoints, GatePoints
<1>8. ProcsOK'
  BY <1>5, <1>6, <1>7, GotoOK DEF DInv
<1>9. GitOK'
  BY <1>2, <1>3 DEF DInv, GitOK, PruneOrphan
<1> QED
  BY <1>8, <1>9 DEF DInv, EntOK, RestOK, PruneOrphan

LEMMA RecoverEndOK == ASSUME DInv, NEW p \in Procs, RecoverEnd(p)  PROVE DInv'
BY ExitOK, SameRest DEF RecoverEnd, DInv

-----------------------------------------------------------------------------
(* harness gate approve and reject *)

LEMMA GateLoadOK == ASSUME DInv, NEW p \in Procs, GateLoad(p)  PROVE DInv'
<1>1. PICK g \in Gates, op \in {"approve", "reject"}, pt \in {"settle", "extend"} :
        /\ ent[g] # Absent
        /\ Begin(p, pt, [NoCmd EXCEPT !.op = op, !.job = ent[g].job, !.gate = g,
                                     !.rev = ent[ent[g].job].rev, !.seen = ent[ent[g].job].st])
  BY Zenon DEF GateLoad
<1>2. PICK j \in Jobs : j = ent[g].job
  BY <1>1 DEF DInv, EntOK
<1>3. PICK r \in Nat, st \in JobStatus : r = ent[j].rev /\ st = ent[j].st
  BY DEF DInv, EntOK, Image
<1> DEFINE c == [NoCmd EXCEPT !.op = op, !.job = j, !.gate = g, !.rev = r, !.seen = st]
<1>4. Begin(p, pt, c)
  BY <1>1, <1>2, <1>3
<1>5. c.op = op /\ op \in Commands
  BY <1>4 DEF Begin, NoCmd
<1>6. c \in Cmds /\ c.job = j /\ c.gate = g
  BY <1>5 DEF NoCmd, Cmds
<1>7. Fits(pt, c)
  BY <1>5, <1>6 DEF Fits, Points, RunPoints, GatePoints
<1> HIDE DEF c
<1>8. worker' = worker /\ reclock' = reclock /\ sweep' \in {"no", "alone", "done"}
  BY DEF GateLoad
<1>9. ProcsOK'
  BY <1>4, <1>5, <1>7, <1>8, BeginOK DEF DInv
<1> QED
  BY <1>9, SameRest DEF GateLoad

LEMMA ExtendScopeOK == ASSUME DInv, NEW p \in Procs, ExtendScope(p)  PROVE DInv'
<1>1. Fits("extend", cmd[p])
  BY DEF DInv, ProcsOK, ExtendScope
<1>2. Fits("reread", cmd[p]) /\ cmd[p].job \in Jobs
  BY <1>1 DEF Fits, Points, RunPoints, GatePoints
<1>3. EntOK'
  BY <1>2, ExtendJob DEF DInv, ExtendScope, JobStep, EntOK
<1>4. ProcsOK'
  BY <1>2, GotoOK, ExitOK DEF DInv, ExtendScope
<1> QED
  BY <1>3, <1>4 DEF DInv, GitOK, RestOK, ExtendScope, git

LEMMA RereadOK == ASSUME DInv, NEW p \in Procs, Reread(p)  PROVE DInv'
<1>1. Fits("reread", cmd[p])
  BY DEF DInv, ProcsOK, Reread
<1>2. cmd[p].job \in Jobs
  BY <1>1 DEF Fits
<1>3. PICK st \in JobStatus : st = ent[cmd[p].job].st
  BY <1>2 DEF DInv, EntOK
<1> DEFINE c == [cmd[p] EXCEPT !.seen = st]
<1>4. Fits("settle", c) /\ c.op = cmd[p].op
  BY <1>1 DEF Fits, Cmds, Points, RunPoints, GatePoints
<1>5. Goto(p, "settle", c)
  BY <1>3 DEF Reread
<1> HIDE DEF c
<1>6. ProcsOK'
  BY <1>4, <1>5, GotoOK DEF DInv
<1> QED
  BY <1>6, SameRest DEF Reread

LEMMA SettleOK == ASSUME DInv, NEW p \in Procs, Settle(p)  PROVE DInv'
<1>1. Fits("settle", cmd[p])
  BY DEF DInv, ProcsOK, Settle
<1>2. Fits("resolve", cmd[p]) /\ cmd[p].gate \in Gates
  BY <1>1 DEF Fits, Points, RunPoints, GatePoints
<1>3. EntOK'
  BY <1>2, SettleGate DEF DInv, Settle, GateStep
<1>4. ProcsOK'
  BY <1>2, GotoOK, ExitOK DEF DInv, Settle
<1> QED
  BY <1>3, <1>4 DEF DInv, GitOK, RestOK, Settle, git

LEMMA ResolveJobOK == ASSUME DInv, NEW p \in Procs, ResolveJob(p)  PROVE DInv'
<1>1. Fits("resolve", cmd[p])
  BY DEF DInv, ProcsOK, ResolveJob
<1>2. Fits("rmtree", cmd[p]) /\ cmd[p].job \in Jobs
  BY <1>1 DEF Fits, Points, RunPoints, GatePoints
<1>3. EntOK'
  BY <1>2, ResolveJobStep DEF DInv, ResolveJob, JobStep, EntOK
<1>4. ProcsOK'
  BY <1>2, GotoOK, ExitOK DEF DInv, ResolveJob
<1> QED
  BY <1>3, <1>4 DEF DInv, GitOK, RestOK, ResolveJob, git

-----------------------------------------------------------------------------
(* harness prune and integrate *)

LEMMA PruneLoadOK == ASSUME DInv, NEW p \in Procs, PruneLoad(p)  PROVE DInv'
<1>1. PICK t \in SUBSET WriteJobs : t = {j \in WriteJobs : ent[j].st \in Prunable}
  OBVIOUS
<1> DEFINE c == [NoCmd EXCEPT !.op = "prune", !.todo = t]
<1>2. Begin(p, "gc", c)
  BY <1>1 DEF PruneLoad
<1>3. c.op = "prune" /\ "prune" \in Commands
  BY <1>2 DEF Begin, NoCmd
<1>4. c \in Cmds /\ c.todo = t /\ c.kept = {}
  BY <1>3, WriteJobsAreJobs DEF NoCmd, Cmds
<1>5. Fits("gc", c)
  BY <1>3, <1>4 DEF Fits, Points, RunPoints, GatePoints
<1> HIDE DEF c
<1>6. worker' = worker /\ reclock' = reclock /\ sweep' \in {"no", "alone", "done"}
  BY DEF PruneLoad
<1>7. ProcsOK'
  BY <1>2, <1>3, <1>5, <1>6, BeginOK DEF DInv
<1> QED
  BY <1>7, SameRest DEF PruneLoad

LEMMA IntegrateLoadOK == ASSUME DInv, NEW p \in Procs, IntegrateLoad(p)  PROVE DInv'
<1>1. PICK t \in SUBSET WriteJobs : t = {j \in WriteJobs : ent[j].st = "completed"}
  OBVIOUS
<1> DEFINE c == [NoCmd EXCEPT !.op = "integrate", !.todo = t]
<1>2. Begin(p, "merge", c)
  BY <1>1 DEF IntegrateLoad
<1>3. c.op = "integrate" /\ "integrate" \in Commands
  BY <1>2 DEF Begin, NoCmd
<1>4. c \in Cmds /\ c.todo = t /\ c.kept = {}
  BY <1>3, WriteJobsAreJobs DEF NoCmd, Cmds
<1>5. Fits("merge", c)
  BY <1>3, <1>4 DEF Fits, Points, RunPoints, GatePoints
<1> HIDE DEF c
<1>6. worker' = worker /\ reclock' = reclock /\ sweep' \in {"no", "alone", "done"}
  BY DEF IntegrateLoad
<1>7. ProcsOK'
  BY <1>2, <1>3, <1>5, <1>6, BeginOK DEF DInv
<1> QED
  BY <1>7, SameRest DEF IntegrateLoad

LEMMA MergeOK == ASSUME DInv, NEW p \in Procs, Merge(p)  PROVE DInv'
<1>1. Fits("merge", cmd[p]) /\ at[p] = "merge"
  BY DEF DInv, ProcsOK, Merge
<1>2. PICK j \in cmd[p].todo :
        \/ Goto(p, "gate", [cmd[p] EXCEPT !.job = j])
        \/ Goto(p, "merge", [cmd[p] EXCEPT !.todo = @ \ {j}, !.kept = @ \cup {j}])
  BY DEF Merge
<1>3. j \in WriteJobs /\ cmd[p].todo \subseteq WriteJobs /\ cmd[p].kept \subseteq WriteJobs
  BY <1>1 DEF Fits
<1>4. PICK t, k \in SUBSET WriteJobs : t = cmd[p].todo \ {j} /\ k = cmd[p].kept \cup {j}
  BY <1>3
<1> DEFINE c == [cmd[p] EXCEPT !.todo = t, !.kept = k]
           d == [cmd[p] EXCEPT !.job = j]
<1>5. /\ c \in Cmds /\ c.op = cmd[p].op /\ c.todo = t /\ c.kept = k
      /\ d \in Cmds /\ d.op = cmd[p].op /\ d.job = j
  BY <1>1, <1>3, WriteJobsAreJobs DEF Fits, Cmds
<1>6. Goto(p, "gate", d) \/ Goto(p, "merge", c)
  BY <1>2, <1>4
<1>7. cmd[p].op = "integrate" /\ cmd[p].op \in Commands
  BY <1>1 DEF Fits
<1> HIDE DEF c, d
<1>8. Fits("gate", d) /\ Fits("merge", c)
  BY <1>3, <1>5, <1>7, WriteJobsAreJobs DEF Fits, Points, RunPoints, GatePoints
<1>9. ProcsOK'
  BY <1>5, <1>6, <1>8, GotoOK DEF DInv
<1> QED
  BY <1>9, SameRest DEF Merge

LEMMA PromoteOK == ASSUME DInv, NEW p \in Procs, Promote(p)  PROVE DInv'
<1>1. Fits("merge", cmd[p])
  BY DEF DInv, ProcsOK, Promote
<1>2. PICK k \in SUBSET WriteJobs : k = cmd[p].kept
  BY <1>1 DEF Fits
<1> DEFINE c == [cmd[p] EXCEPT !.todo = k]
<1>3. c \in Cmds /\ c.op = cmd[p].op /\ c.todo = k /\ c.kept = k
  BY <1>1, <1>2, WriteJobsAreJobs DEF Fits, Cmds
<1>4. Exit(p) \/ Goto(p, "gc", c)
  BY <1>2 DEF Promote
<1> HIDE DEF c
<1>5. Fits("gc", c)
  BY <1>1, <1>3 DEF Fits, Points, RunPoints, GatePoints
<1>6. ProcsOK'
  BY <1>3, <1>4, <1>5, GotoOK, ExitOK DEF DInv
<1> QED
  BY <1>2, <1>6 DEF DInv, EntOK, GitOK, RestOK, Promote, git

LEMMA ReclaimTreeOK == ASSUME DInv, NEW p \in Procs, ReclaimTree(p)  PROVE DInv'
<1>1. Fits("gc", cmd[p])
  BY DEF DInv, ProcsOK, ReclaimTree
<1>2. PICK j \in cmd[p].todo :
        /\ tree' = [tree EXCEPT ![j] = "none"]
        /\ Exit(p) \/ Goto(p, "gc", [cmd[p] EXCEPT !.todo = @ \ {j}])
  BY DEF ReclaimTree
<1>3. j \in WriteJobs
  BY <1>1 DEF Fits
<1>4. PICK t \in SUBSET WriteJobs : t = cmd[p].todo \ {j}
  BY <1>1 DEF Fits
<1> DEFINE c == [cmd[p] EXCEPT !.todo = t]
<1>5. c \in Cmds /\ c.op = cmd[p].op /\ c.todo = t /\ c.kept = cmd[p].kept
  BY <1>1, WriteJobsAreJobs DEF Fits, Cmds
<1>6. Exit(p) \/ Goto(p, "gc", c)
  BY <1>2, <1>4
<1> HIDE DEF c
<1>7. Fits("gc", c)
  BY <1>1, <1>5 DEF Fits, Points, RunPoints, GatePoints
<1>8. ProcsOK'
  BY <1>5, <1>6, <1>7, GotoOK, ExitOK DEF DInv
<1>9. GitOK'
  BY <1>2, <1>3, WriteJobsAreJobs DEF DInv, GitOK, ReclaimTree
<1> QED
  BY <1>8, <1>9 DEF DInv, EntOK, RestOK, ReclaimTree

-----------------------------------------------------------------------------
(* Death and what outlives it *)

LEMMA DieOK == ASSUME DInv, NEW p \in Procs, Die(p)  PROVE DInv'
<1>1. Fits(at[p], cmd[p])
  BY DEF DInv, ProcsOK
<1>2. at[p] \in {"work", "decide"} => cmd[p].job \in Jobs
  BY <1>1 DEF Fits
<1>3. ProcsOK'
  BY ExitOK DEF DInv, Die
<1>4. RestOK'
  BY <1>2 DEF DInv, RestOK, Die
<1> QED
  BY <1>3, <1>4 DEF DInv, EntOK, GitOK, Die, git

LEMMA OrphansOK ==
  ASSUME DInv, NEW j \in Jobs, OrphanEdit(j) \/ OrphanEnd(j)
  PROVE  DInv'
<1>1. CASE OrphanEdit(j)
  <2>1. j \in WriteJobs
    BY <1>1 DEF OrphanEdit, MayEdit
  <2> QED
    BY <1>1, <2>1, WriteJobsAreJobs DEF OrphanEdit, DInv, EntOK, GitOK, ProcsOK, RestOK
<1>2. CASE OrphanEnd(j)
  BY <1>2 DEF OrphanEnd, DInv, EntOK, GitOK, ProcsOK, RestOK, git
<1> QED
  BY <1>1, <1>2

-----------------------------------------------------------------------------
LEMMA InitOK == Init => DInv
<1> SUFFICES ASSUME Init  PROVE DInv
  OBVIOUS
<1>1. \A j \in Jobs : Fresh(j) \in Image /\ Fresh(j).st = "created" /\ Fresh(j).st \in JobStatus
  BY EntitiesDistinct DEF Fresh, Absent, Image, Status, JobStatus, FreshStatus
<1>2. EntOK
  BY <1>1, EntitiesDistinct DEF Init, EntOK, Entities
<1>3. ProcsOK
  BY NoCmdFits, NoneIsNoCommand, NoneIsNoProc DEF Init, ProcsOK, AllCommands
<1> QED
  BY <1>2, <1>3 DEF Init, DInv, GitOK, RestOK

LEMMA StepOK == ASSUME DInv, NEW p \in Procs, Step(p)  PROVE DInv'
BY AddTreeOK, MarkRunningOK, EditOK, WorkOK, CommitOK, DecideOK, FinishOK, OpenGateOK,
   RemoveTreeOK, RemoveBranchOK, ReapOK, ResetOK, ListOrphansOK, PruneOrphanOK, RecoverEndOK,
   ExtendScopeOK, RereadOK, SettleOK, ResolveJobOK, MergeOK, PromoteOK, ReclaimTreeOK DEF Step

LEMMA LoadOK == ASSUME DInv, NEW p \in Procs, Load(p)  PROVE DInv'
BY RunLoadOK, RecoverStartOK, GateLoadOK, PruneLoadOK, IntegrateLoadOK DEF Load

LEMMA NextOK == DInv /\ [Next]_vars => DInv'
<1>1. ASSUME DInv, UNCHANGED vars  PROVE DInv'
  BY <1>1 DEF vars, git, DInv, EntOK, GitOK, ProcsOK, RestOK
<1> QED
  BY <1>1, StepOK, LoadOK, DieOK, OrphansOK DEF Next

LEMMA Typed == Spec => []DInv
BY InitOK, NextOK, PTL DEF Spec

(* Whatever commands run, for any bounds: every variable keeps its type,   *)
(* and recover.lock is held only by a recover under way.                   *)
THEOREM DispatchTypeCorrect == Spec => []TypeOK
<1>1. DInv => TypeOK
  BY NoneIsNoProc DEF DInv, EntOK, GitOK, ProcsOK, RestOK, TypeOK, Cmds
<1> QED
  BY <1>1, Typed, PTL
=============================================================================
