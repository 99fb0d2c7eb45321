---------------------------- MODULE CloseoutProofs ----------------------------
(***************************************************************************)
(* TLAPS: the end of a task, for any number of processes, jobs and gates:  *)
(* the types, that the handoff tells the truth, that what the stop hook    *)
(* lets pass still is so, and that what is delivered was done; and, if one *)
(* process at a time integrates, that leftovers never block the next       *)
(* integrate, that the delivery branch is one whole integration, and that  *)
(* all of it implements the delivery branch of Delivery.                   *)
(***************************************************************************)
EXTENDS Closeout, TLAPS

(* One process at a time integrates the task. *)
OneIntegrator == \A p, q \in Integrators : p = q

-----------------------------------------------------------------------------
(* The inductive invariant *)

Cmds == [op : {None, "integrate", "recover", "reject", "handoff", "stop"},
         list : SUBSET (Jobs \cup Gates), todo : SUBSET (Jobs \cup Gates), job : Jobs \cup {None}, ok : BOOLEAN]

Setup == {"rmbranch", "add", "merge"}

(* What a process at pt has read into c. *)
Fits(p, pt, c) ==
  /\ pt \in Points \cup {"idle"} /\ c \in Cmds
  /\ pt # "read" => c.todo \subseteq c.list
  /\ pt = "idle" => c = NoCmd
  /\ pt \in Setup \cup {"read", "teardown", "drop", "report"} => p \in Integrators
  /\ pt \in Setup \cup {"read"} => c.job = None /\ ~ c.ok
  /\ pt \in Setup \cup {"read", "jobs", "handoff", "dir"} => c.list \cup c.todo \subseteq Jobs
  /\ pt \in {"handoff", "dir"} => c.todo = {}
  /\ pt = "gates" => c.todo \subseteq Gates
  /\ pt \in Setup \ {"merge"} => c.todo = c.list
  /\ pt \in {"teardown", "drop"} => (c.job = None => c.todo = {})
  /\ pt = "report" => c.job = None /\ c.todo = {}
  /\ pt \in {"gate", "resolve"} => c.job \in Jobs

(* A job that was completed, or rejected since. *)
Settled(j) == ent[j].st \in {"completed", "cancelled"}

(* A gate there is, and one that is decided. *)
There(g) == ent[g] # Absent
Closed(g) == There(g) /\ ent[g].st # "open"

(* What no step undoes. *)
Lasting == /\ \A j \in Jobs : Settled(j) => Settled(j)'
           /\ \A g \in Gates : (There(g) => There(g)') /\ (Closed(g) => Closed(g)')

(* The temporary branch and worktree, while nobody else has them. *)
Own(pt, c) ==
  /\ pt \in {"rmbranch", "add"} => ~ tree
  /\ pt = "add" => tmp = None
  /\ pt = "merge" => tmp = c.list \ c.todo

(* What the world has to be for a process at pt with c. *)
World(pt, c) ==
  /\ OneIntegrator => Own(pt, c)
  /\ pt \in {"teardown", "drop", "write"} => (c.ok => delivery # None)
  /\ pt = "report" => delivery # None
  /\ pt \in Setup \cup {"read"} => \A j \in c.list : Settled(j)
  /\ pt \in {"jobs", "handoff", "dir", "gates"} =>
       (c.ok => \A j \in (c.list \cap Jobs) \ c.todo : Settled(j))
  /\ pt \in {"dir", "gates"} => (c.ok => handoff # None)
  /\ pt = "gates" => \A g \in c.list \cap Gates : There(g)
  /\ pt = "gates" => (c.ok => \A g \in (c.list \cap Gates) \ c.todo : Closed(g))

EntOK == /\ ent \in [Entities -> Image \cup {Absent}]
         /\ \A g \in Gates : ent[g] # Absent => ent[g].job \in Jobs

FilesOK ==
  /\ tree \in BOOLEAN /\ reported \in BOOLEAN /\ verified \in BOOLEAN
  /\ tmp \in (SUBSET Jobs) \cup {None} /\ delivery \in (SUBSET Jobs) \cup {None}
  /\ handoff \in {None, "branch", "no branch"}
  /\ tree => tmp # None
  /\ reported => delivery # None
  /\ handoff = "branch" => delivery # None

(* What is on the two branches was done. *)
BranchesOK == \A S \in {tmp, delivery} \ {None} : \A j \in S : Settled(j)

ProcsOK ==
  /\ at \in [Procs -> Points \cup {"idle"}] /\ cmd \in [Procs -> Cmds]
  /\ \A p \in Procs : Fits(p, at[p], cmd[p]) /\ World(at[p], cmd[p])

CInv == EntOK /\ FilesOK /\ ProcsOK

-----------------------------------------------------------------------------
(* What the store's operations do *)

(* A job or a gate gets a new image; what was settled stays settled. *)
StoreStep == EntOK' /\ Lasting

LEMMA PutStep ==
  ASSUME EntOK, NEW e \in Entities, NEW v \in Image, Store!Put(e, v),
         e \in Gates => v.job \in Jobs,
         e \in Jobs /\ Settled(e) => v.st \in {"completed", "cancelled"},
         e \in Gates /\ Closed(e) => v.st # "open"
  PROVE  StoreStep
<1>1. ent' = [ent EXCEPT ![e] = v]
  BY DEF Store!Put
<1>2. ent'[e] = v /\ \A x \in Entities \ {e} : ent'[x] = ent[x]
  BY <1>1 DEF EntOK
<1>3. Jobs \subseteq Entities /\ Gates \subseteq Entities
  BY DEF Entities
<1>4. ent' \in [Entities -> Image \cup {Absent}]
  BY <1>1 DEF EntOK
<1>5. v # Absent
  BY NoneIsNoStatus DEF Image, Absent
<1>6. EntOK'
  BY <1>2, <1>3, <1>4 DEF EntOK
<1>7. Lasting
  BY <1>2, <1>3, <1>5 DEF Lasting, Settled, There, Closed
<1> QED
  BY <1>6, <1>7 DEF StoreStep

LEMMA AdvanceImage ==
  ASSUME NEW v \in Image, NEW to \in Status
  PROVE  Store!Advance(v, to) \in Image /\ Store!Advance(v, to).st = to
<1>1. PICK r \in Nat : r = v.rev + 1
  BY DEF Image
<1>2. Store!Advance(v, to) = [v EXCEPT !.st = to, !.rev = r]
  BY <1>1 DEF Store!Advance
<1> QED
  BY <1>2 DEF Image

LEMMA CreateStep == ASSUME EntOK, NEW j \in Jobs, Store!Create(j)  PROVE StoreStep
<1>1. j \in Entities /\ j \notin Gates /\ j \notin Tasks
  BY EntitiesDistinct DEF Entities
<1>2. Fresh(j) \in Image
  BY <1>1 DEF Fresh, Absent, Image, FreshStatus, Status, JobStatus
<1>3. ent[j] = Absent /\ Store!Put(j, Fresh(j))
  BY DEF Store!Create, Store!Absent, Absent, Store!Fresh, Fresh, Store!FreshStatus, FreshStatus
<1>4. ~ Settled(j)
  BY <1>3, NoneIsNoStatus DEF Settled, Absent, Status, JobStatus
<1> QED
  BY <1>1, <1>2, <1>3, <1>4, PutStep

LEMMA MoveStep == ASSUME EntOK, NEW j \in Jobs, NEW to, Store!Move(j, to)  PROVE StoreStep
<1>1. <<ent[j].st, to>> \in JobLegal
  BY EntitiesDistinct DEF Store!Move, Store!Legal, Store!JobLegal, JobLegal
<1>2. ~ Settled(j) /\ to \in Status
  BY <1>1 DEF JobLegal, JobStatus, Status, Settled
<1>3. j \in Entities /\ j \notin Gates
  BY EntitiesDistinct DEF Entities
<1>4. ent[j] # Absent
  BY <1>1, NoneIsNoStatus DEF JobLegal, Absent, Status, JobStatus
<1>5. ent[j] \in Image
  BY <1>3, <1>4 DEF EntOK
<1>6. Store!Put(j, Store!Advance(ent[j], to))
  BY DEF Store!Move
<1> QED
  BY <1>2, <1>3, <1>5, <1>6, AdvanceImage, PutStep

LEMMA CancelStep ==
  ASSUME EntOK, NEW j \in Jobs, Resolvable(ent[j].st, "cancelled"), Store!Resolve(j, "cancelled")
  PROVE  StoreStep
<1>1. j \in Entities /\ j \notin Gates
  BY EntitiesDistinct DEF Entities
<1>2. ent[j].st \in Status
  BY DEF Resolvable, Unfinished, Status, JobStatus
<1>3. ent[j] \in Image
  BY <1>1, <1>2, NoneIsNoStatus DEF EntOK, Absent
<1>4. Store!Put(j, Store!Advance(ent[j], "cancelled")) /\ "cancelled" \in Status
  BY DEF Store!Resolve, Status, JobStatus
<1> QED
  BY <1>1, <1>3, <1>4, AdvanceImage, PutStep

LEMMA ResolveGateStep ==
  ASSUME EntOK, NEW g \in Gates, NEW to \in {"approved", "rejected"}, Store!ResolveGate(g, to)
  PROVE  StoreStep /\ ent[g].job \in Jobs
<1>1. ent[g] # Absent /\ Store!Put(g, [ent[g] EXCEPT !.st = to])
  BY DEF Store!ResolveGate, Store!Absent, Absent
<1>2. g \in Entities /\ g \notin Jobs
  BY EntitiesDistinct DEF Entities
<1>3. ent[g] \in Image /\ ent[g].job \in Jobs
  BY <1>1, <1>2 DEF EntOK
<1>4. /\ [ent[g] EXCEPT !.st = to] \in Image /\ [ent[g] EXCEPT !.st = to].job \in Jobs
      /\ [ent[g] EXCEPT !.st = to].st # "open"
  BY <1>3 DEF Image, Status, GateStatus
<1> QED
  BY <1>1, <1>2, <1>3, <1>4, PutStep

LEMMA OpenGateStep ==
  ASSUME EntOK, NEW j \in Jobs, NEW g \in Gates, Store!OpenGate(g, j, "conflict")
  PROVE  StoreStep
<1>1. Store!Put(g, OpenedGate(j, "conflict"))
  BY DEF Store!OpenGate, Store!OpenedGate, OpenedGate, Store!Absent, Absent
<1>4. ~ Closed(g)
  BY DEF Store!OpenGate, Store!Absent, Absent, Closed, There
<1>2. OpenedGate(j, "conflict") \in Image /\ OpenedGate(j, "conflict").job = j
  BY ConflictIsReason DEF OpenedGate, Absent, Image, Status, GateStatus
<1>3. g \in Entities /\ g \notin Jobs
  BY EntitiesDistinct DEF Entities
<1> QED
  BY <1>1, <1>2, <1>3, <1>4, PutStep

-----------------------------------------------------------------------------
(* Processes *)

LEMMA NoCmdFits == NoCmd \in Cmds /\ \A p : Fits(p, "idle", NoCmd) /\ World("idle", NoCmd)
<1>1. NoCmd \in Cmds /\ NoCmd.todo = {}
  BY DEF NoCmd, Cmds
<1> QED
  BY <1>1 DEF Fits, World, Own, Setup

(* What a step of p may change without disturbing what others rely on. *)
Gentle(p) ==
  /\ tree' => tree \/ p \in Integrators
  /\ tmp' = tmp \/ p \in Integrators
  /\ delivery # None => delivery' # None
  /\ handoff # None => handoff' # None
  /\ Lasting

LEMMA WorldStays ==
  ASSUME NEW p, NEW pt, NEW c, Fits(p, pt, c), World(pt, c),
         OneIntegrator /\ pt \in Setup => (tree' => tree) /\ tmp' = tmp,
         delivery # None => delivery' # None, handoff # None => handoff' # None, Lasting
  PROVE  World(pt, c)'
<1>1. (OneIntegrator => Own(pt, c))'
  BY DEF World, Own, Setup
<1>2. pt \in Setup \cup {"read"} => \A j \in c.list : Settled(j)'
  BY DEF World, Fits, Lasting
<1>3. c.ok /\ pt \in {"jobs", "handoff", "dir", "gates"} =>
        \A j \in (c.list \cap Jobs) \ c.todo : Settled(j)'
  BY DEF World, Lasting
<1>4. pt = "gates" => /\ \A g \in c.list \cap Gates : There(g)'
                      /\ c.ok => \A g \in (c.list \cap Gates) \ c.todo : Closed(g)'
  BY DEF World, Lasting
<1> QED
  BY <1>1, <1>2, <1>3, <1>4 DEF World

(* Process p goes to pt with c, from wherever. *)
LEMMA ProcStep ==
  ASSUME CInv, EntOK', FilesOK', NEW p \in Procs, NEW pt, NEW c,
         at' = [at EXCEPT ![p] = pt], cmd' = [cmd EXCEPT ![p] = c],
         Fits(p, pt, c), World(pt, c)', Gentle(p)
  PROVE  CInv'
<1>1. pt \in Points \cup {"idle"} /\ c \in Cmds
  BY DEF Fits
<1>2. at' \in [Procs -> Points \cup {"idle"}] /\ cmd' \in [Procs -> Cmds]
  BY <1>1 DEF CInv, ProcsOK
<1>3. at'[p] = pt /\ cmd'[p] = c /\ \A q \in Procs \ {p} : at'[q] = at[q] /\ cmd'[q] = cmd[q]
  BY DEF CInv, ProcsOK
<1>4. ASSUME NEW q \in Procs \ {p}
      PROVE  Fits(q, at'[q], cmd'[q]) /\ World(at[q], cmd[q])'
  <2>1. Fits(q, at[q], cmd[q]) /\ World(at[q], cmd[q])
    BY DEF CInv, ProcsOK
  <2>2. at[q] \in Setup /\ OneIntegrator => p \notin Integrators
    BY <2>1 DEF Fits, OneIntegrator
  <2>3. World(at[q], cmd[q])' = World(at[q], cmd[q])' /\ at'[q] = at[q] /\ cmd'[q] = cmd[q]
    BY <1>3
  <2>4. PICK pt1, c1 : pt1 = at[q] /\ c1 = cmd[q]
    OBVIOUS
  <2>5. World(pt1, c1)'
    BY <2>1, <2>2, <2>4, WorldStays DEF Gentle
  <2>6. World(at[q], cmd[q])'
    BY <2>3, <2>4, <2>5 DEF World, Own
  <2> QED
    BY <2>1, <2>3, <2>6
<1>5. Fits(p, at'[p], cmd'[p]) /\ World(at[p], cmd[p])'
  BY <1>3 DEF World, Own
<1> QED
  BY <1>2, <1>3, <1>4, <1>5 DEF CInv, ProcsOK

(* The same, when the store does not change. *)
LEMMA ProcStepOnly ==
  ASSUME CInv, UNCHANGED ent, FilesOK', NEW p \in Procs, NEW pt, NEW c,
         at' = [at EXCEPT ![p] = pt], cmd' = [cmd EXCEPT ![p] = c],
         Fits(p, pt, c), World(pt, c)',
         tree' => tree \/ p \in Integrators, tmp' = tmp \/ p \in Integrators,
         delivery # None => delivery' # None, handoff # None => handoff' # None
  PROVE  CInv'
<1>1. EntOK' /\ Lasting
  BY DEF CInv, EntOK, Lasting, Settled, There, Closed
<1> QED
  BY <1>1, ProcStep DEF Gentle

(* A process ends its command. *)
LEMMA ExitStep ==
  ASSUME CInv, NEW p \in Procs, Exit(p), StoreStep,
         UNCHANGED <<tree, tmp, delivery, handoff>>, FilesOK'
  PROVE  CInv'
<1>1. Fits(p, "idle", NoCmd) /\ World("idle", NoCmd)'
  BY NoCmdFits DEF World, Own, Setup, NoCmd
<1> QED
  BY <1>1, ProcStep DEF Exit, Goto, Gentle, StoreStep

(* The stop hook goes on, or answers no. *)
LEMMA PursueStep ==
  ASSUME CInv, UNCHANGED <<ent, tree, tmp, delivery, handoff>>, FilesOK', NEW p \in Procs,
         NEW pt, NEW c, Pursue(p, pt, c), Fits(p, pt, c), World(pt, c)'
  PROVE  CInv'
<1>0. StoreStep
  BY DEF CInv, EntOK, StoreStep, Lasting, Settled, There, Closed
<1>1. CASE Exit(p)
  BY <1>1, <1>0, ExitStep
<1>2. CASE Goto(p, pt, c)
  BY <1>2, ProcStepOnly DEF Goto
<1> QED
  BY <1>1, <1>2 DEF Pursue

(* A step that leaves every process where it is. *)
LEMMA WorldStep ==
  ASSUME CInv, StoreStep, FilesOK', UNCHANGED <<tree, tmp, delivery, handoff, at, cmd>>
  PROVE  CInv'
<1>1. ASSUME NEW p \in Procs
      PROVE  Fits(p, at'[p], cmd'[p]) /\ World(at[p], cmd[p])'
  <2>1. Fits(p, at[p], cmd[p]) /\ World(at[p], cmd[p])
    BY DEF CInv, ProcsOK
  <2>2. PICK pt, c : pt = at[p] /\ c = cmd[p]
    OBVIOUS
  <2>3. World(pt, c)'
    BY <2>1, <2>2, WorldStays DEF StoreStep
  <2> QED
    BY <2>1, <2>2, <2>3 DEF World, Own
<1> QED
  BY <1>1 DEF CInv, ProcsOK, StoreStep

LEMMA StoreStays == ASSUME CInv, UNCHANGED ent  PROVE StoreStep
BY DEF CInv, EntOK, StoreStep, Lasting, Settled, There, Closed

-----------------------------------------------------------------------------
(* One lemma per action *)

LEMMA JobsOK == ASSUME CInv, NEW j \in Jobs, Delegate(j) \/ RunJob(j)  PROVE CInv'
<1>1. StoreStep
  <2>1. CASE Delegate(j)
    BY <2>1, CreateStep DEF CInv, Delegate
  <2>2. CASE RunJob(j)
    <3>1. PICK to : Store!Move(j, to)
      BY <2>2 DEF RunJob
    <3> QED
      BY <3>1, MoveStep DEF CInv
  <2> QED
    BY <2>1, <2>2
<1>2. UNCHANGED <<git, files, at, cmd>>
  BY DEF Delegate, RunJob
<1>3. FilesOK' /\ UNCHANGED <<tree, tmp, delivery, handoff, at, cmd>>
  BY <1>2 DEF CInv, FilesOK, git, files
<1> QED
  BY <1>1, <1>3, WorldStep

LEMMA ListOK == ASSUME CInv, NEW p \in Procs, IntegrateList(p)  PROVE CInv'
<1>1. PICK L \in SUBSET Jobs : L = Listed(Jobs)
  BY DEF Listed
<1> DEFINE c == [NoCmd EXCEPT !.op = "integrate", !.todo = L]
<1>2. /\ c \in Cmds /\ c.todo = L /\ c.list = {} /\ c.job = None /\ ~ c.ok
  BY DEF NoCmd, Cmds
<1>3. at' = [at EXCEPT ![p] = "read"] /\ cmd' = [cmd EXCEPT ![p] = c]
  BY <1>1 DEF IntegrateList, Begin
<1> HIDE DEF c
<1>4. Fits(p, "read", c) /\ World("read", c)'
  BY <1>2 DEF Fits, World, Own, Setup, Points, IntegrateList
<1> QED
  BY <1>3, <1>4, ProcStepOnly DEF IntegrateList, CInv, FilesOK, git, files

LEMMA ReadOK == ASSUME CInv, NEW p \in Procs, IntegrateRead(p)  PROVE CInv'
<1>1. PICK c \in Cmds : c = cmd[p] /\ Fits(p, "read", c) /\ World("read", c)
  BY DEF CInv, ProcsOK, IntegrateRead
<1>2. PICK j \in c.todo :
        Goto(p, "read", [c EXCEPT !.todo = @ \ {j},
                                  !.list = IF Completed(j) THEN @ \cup {j} ELSE @])
  BY <1>1 DEF IntegrateRead
<1>3. p \in Integrators /\ c.list \cup c.todo \subseteq Jobs /\ c.job = None /\ ~ c.ok
  BY <1>1 DEF Fits
<1>4. PICK T \in SUBSET Jobs : T = c.todo \ {j}
  BY <1>3
<1>5. PICK L \in SUBSET Jobs : L = IF Completed(j) THEN c.list \cup {j} ELSE c.list
  BY <1>3
<1> DEFINE d == [c EXCEPT !.todo = T, !.list = L]
<1>6. d \in Cmds /\ d.todo = T /\ d.list = L /\ d.job = None /\ ~ d.ok
  BY <1>3 DEF Cmds
<1>7. at' = [at EXCEPT ![p] = "read"] /\ cmd' = [cmd EXCEPT ![p] = d]
  BY <1>2, <1>4, <1>5 DEF Goto
<1> HIDE DEF d
<1>8. \A i \in L : Settled(i)'
  BY <1>1, <1>5 DEF World, Completed, Settled, IntegrateRead
<1>9. Fits(p, "read", d) /\ World("read", d)'
  BY <1>3, <1>6, <1>8 DEF Fits, World, Own, Setup, Points
<1> QED
  BY <1>7, <1>9, ProcStepOnly DEF IntegrateRead, CInv, FilesOK, git, files

LEMMA SetupTreeOK == ASSUME CInv, NEW p \in Procs, SetupTree(p)  PROVE CInv'
<1>1. PICK c \in Cmds : c = cmd[p] /\ Fits(p, "read", c) /\ World("read", c)
  BY DEF CInv, ProcsOK, SetupTree
<1>2. PICK L \in SUBSET Jobs : L = c.list
  BY <1>1 DEF Fits
<1> DEFINE d == [c EXCEPT !.todo = L]
<1>3. d \in Cmds /\ d.todo = L /\ d.list = L /\ d.job = None /\ ~ d.ok /\ p \in Integrators
  BY <1>1, <1>2 DEF Cmds, Fits
<1>4. at' = [at EXCEPT ![p] = "rmbranch"] /\ cmd' = [cmd EXCEPT ![p] = d] /\ ~ tree'
  BY <1>1, <1>2 DEF SetupTree, CallIntegrateTask, Goto
<1> HIDE DEF d
<1>5. \A i \in L : Settled(i)'
  BY <1>1, <1>2 DEF World, Settled, SetupTree
<1>6. Fits(p, "rmbranch", d) /\ World("rmbranch", d)'
  BY <1>3, <1>4, <1>5 DEF Fits, World, Own, Setup, Points
<1>7. FilesOK' /\ UNCHANGED <<ent, tmp, delivery, handoff>>
  BY DEF SetupTree, CInv, FilesOK, files
<1> QED
  BY <1>4, <1>6, <1>7, ProcStepOnly

LEMMA SetupBranchOK == ASSUME CInv, NEW p \in Procs, SetupBranch(p)  PROVE CInv'
<1>1. PICK c \in Cmds : c = cmd[p] /\ Fits(p, "rmbranch", c) /\ World("rmbranch", c)
  BY DEF CInv, ProcsOK, SetupBranch
<1>2. (OneIntegrator => ~ tree /\ tmp' = None) /\ tree' = tree
  BY <1>1 DEF World, Own, SetupBranch, DropTmp
<1>3. Fits(p, "add", c) /\ World("add", c)' /\ p \in Integrators
  BY <1>1, <1>2 DEF Fits, World, Own, Setup, Points, Settled, SetupBranch
<1>4. FilesOK'
  BY DEF SetupBranch, DropTmp, CInv, FilesOK, files
<1> QED
  BY <1>1, <1>2, <1>3, <1>4, ProcStepOnly DEF SetupBranch, Goto, files

LEMMA SetupAddOK == ASSUME CInv, NEW p \in Procs, SetupAdd(p)  PROVE CInv'
<1>1. PICK c \in Cmds : c = cmd[p] /\ Fits(p, "add", c) /\ World("add", c)
  BY DEF CInv, ProcsOK, SetupAdd
<1>2. UNCHANGED <<ent, delivery, handoff>> /\ p \in Integrators
  BY <1>1 DEF SetupAdd, files, Fits, Setup
<1>3. CASE ~ tree /\ tmp = None
  <2>1. /\ tree' = TRUE /\ tmp' = {}
        /\ at' = [at EXCEPT ![p] = "merge"] /\ cmd' = [cmd EXCEPT ![p] = c]
    BY <1>1, <1>3 DEF SetupAdd, Goto
  <2>2. c.list \ c.todo = {} /\ Fits(p, "merge", c)
    BY <1>1 DEF Fits, Setup, Points
  <2>3. World("merge", c)'
    BY <1>1, <1>2, <2>1, <2>2 DEF World, Own, Setup, Settled
  <2>4. FilesOK'
    BY <2>1, NoneIsNoBranch DEF SetupAdd, CInv, FilesOK, files
  <2> QED
    BY <1>2, <2>1, <2>2, <2>3, <2>4, ProcStepOnly
<1>4. CASE ~ (~ tree /\ tmp = None)
  <2>1. Exit(p) /\ UNCHANGED <<tree, tmp>>
    BY <1>4 DEF SetupAdd
  <2>2. FilesOK'
    BY <2>1 DEF SetupAdd, CInv, FilesOK, files
  <2> QED
    BY <1>2, <2>1, <2>2, StoreStays, ExitStep
<1> QED
  BY <1>3, <1>4

LEMMA MergeOK == ASSUME CInv, NEW p \in Procs, Merge(p)  PROVE CInv'
<1>1. PICK c \in Cmds : c = cmd[p] /\ Fits(p, "merge", c) /\ World("merge", c)
  BY DEF CInv, ProcsOK, Merge
<1>2. PICK j \in c.todo :
        \/ Goto(p, "teardown", [c EXCEPT !.job = j]) /\ UNCHANGED tmp
        \/ /\ tree /\ tmp' = tmp \cup {j}
           /\ Goto(p, "merge", [c EXCEPT !.todo = @ \ {j}])
  BY <1>1 DEF Merge
<1>3. /\ c.todo \subseteq c.list /\ c.list \subseteq Jobs /\ j \in Jobs
      /\ p \in Integrators /\ (OneIntegrator => tmp = c.list \ c.todo) /\ c.job = None /\ ~ c.ok
  BY <1>1 DEF Fits, World, Own, Cmds, Setup
<1>4. tmp' = tmp \/ tmp' \in SUBSET Jobs
  BY <1>2, <1>3 DEF CInv, FilesOK
<1>5. FilesOK' /\ UNCHANGED <<ent, tree, delivery, handoff>>
  BY <1>4, NoneIsNoBranch DEF Merge, CInv, FilesOK, files
<1>6. CASE Goto(p, "teardown", [c EXCEPT !.job = j]) /\ UNCHANGED tmp
  <2> DEFINE d == [c EXCEPT !.job = j]
  <2>1. d \in Cmds /\ d.job = j /\ d.todo = c.todo /\ d.list = c.list /\ d.ok = c.ok
    BY <1>3 DEF Cmds
  <2> HIDE DEF d
  <2>2. Fits(p, "teardown", d) /\ World("teardown", d)'
    BY <1>3, <2>1, EntitiesDistinct DEF Fits, World, Own, Setup, Points
  <2> QED
    BY <1>3, <1>5, <1>6, <2>2, ProcStepOnly DEF Goto, d
<1>7. CASE tree /\ tmp' = tmp \cup {j} /\ Goto(p, "merge", [c EXCEPT !.todo = @ \ {j}])
  <2>1. PICK T \in SUBSET Jobs : T = c.todo \ {j}
    BY <1>3
  <2> DEFINE d == [c EXCEPT !.todo = T]
  <2>2. d \in Cmds /\ d.job = None /\ d.todo = T /\ d.list = c.list /\ ~ d.ok
    BY <1>3 DEF Cmds
  <2>3. at' = [at EXCEPT ![p] = "merge"] /\ cmd' = [cmd EXCEPT ![p] = d]
    BY <1>7, <2>1 DEF Goto
  <2> HIDE DEF d
  <2>4. d.todo \subseteq d.list /\ (OneIntegrator => tmp' = d.list \ d.todo)
    BY <1>3, <1>7, <2>1, <2>2
  <2>5. Fits(p, "merge", d) /\ World("merge", d)'
    BY <1>1, <1>3, <1>5, <2>2, <2>4 DEF Fits, World, Own, Setup, Points, Settled
  <2> QED
    BY <1>3, <1>5, <2>3, <2>5, ProcStepOnly
<1> QED
  BY <1>2, <1>6, <1>7

LEMMA PromoteOK == ASSUME CInv, NEW p \in Procs, Promote(p)  PROVE CInv'
<1>1. PICK c \in Cmds : c = cmd[p] /\ Fits(p, "merge", c)
  BY DEF CInv, ProcsOK, Promote
<1>2. c.todo = {} /\ c.job = None /\ p \in Integrators
  BY <1>1 DEF Fits, Setup, Promote
<1>3. PICK b \in BOOLEAN : b = (tmp # None)
  OBVIOUS
<1> DEFINE d == [c EXCEPT !.ok = b]
<1>4. d \in Cmds /\ d.job = None /\ d.todo = {} /\ d.list = c.list /\ d.ok = b
  BY <1>2 DEF Cmds
<1>5. /\ at' = [at EXCEPT ![p] = "teardown"] /\ cmd' = [cmd EXCEPT ![p] = d]
      /\ delivery' = IF tmp # None THEN tmp ELSE delivery
      /\ UNCHANGED <<ent, tree, tmp, handoff>>
  BY <1>1, <1>3 DEF Promote, Goto, files
<1> HIDE DEF d
<1>6. Fits(p, "teardown", d) /\ World("teardown", d)'
  BY <1>2, <1>3, <1>4, <1>5 DEF Fits, World, Own, Setup, Points
<1>7. FilesOK'
  <2>1. UNCHANGED <<reported, verified>>
    BY DEF Promote, files
  <2>2. /\ delivery' \in (SUBSET Jobs) \cup {None}
        /\ delivery # None => delivery' # None
    BY <1>5 DEF CInv, FilesOK
  <2> QED
    BY <1>5, <2>1, <2>2 DEF CInv, FilesOK
<1>8. delivery # None => delivery' # None
  BY <1>5
<1> QED
  BY <1>2, <1>5, <1>6, <1>7, <1>8, ProcStepOnly

LEMMA TeardownOK == ASSUME CInv, NEW p \in Procs, Teardown(p)  PROVE CInv'
<1>1. PICK c \in Cmds : c = cmd[p] /\ Fits(p, "teardown", c) /\ World("teardown", c)
  BY DEF CInv, ProcsOK, Teardown
<1>2. Fits(p, "drop", c) /\ World("drop", c)'
  BY <1>1 DEF Fits, World, Own, Setup, Points, Teardown
<1>3. FilesOK'
  BY DEF Teardown, CInv, FilesOK, files
<1> QED
  BY <1>1, <1>2, <1>3, ProcStepOnly DEF Teardown, Goto, files

LEMMA DropBranchOK == ASSUME CInv, NEW p \in Procs, DropBranch(p)  PROVE CInv'
<1>1. PICK c \in Cmds : c = cmd[p] /\ Fits(p, "drop", c) /\ World("drop", c)
  BY DEF CInv, ProcsOK, DropBranch
<1>2. FilesOK' /\ p \in Integrators /\ UNCHANGED <<ent, tree, delivery, handoff>>
  BY <1>1 DEF DropBranch, DropTmp, CInv, FilesOK, files, Fits
<1>3. CASE c.job # None
  <2>1. Fits(p, "gate", c) /\ World("gate", c)'
    BY <1>1, <1>3 DEF Fits, World, Own, Setup, Points, Cmds
  <2>2. at' = [at EXCEPT ![p] = "gate"] /\ cmd' = [cmd EXCEPT ![p] = c]
    BY <1>1, <1>3 DEF DropBranch, Return, Goto
  <2> QED
    BY <1>2, <2>1, <2>2, ProcStepOnly
<1>4. CASE c.job = None /\ c.ok
  <2>1. Fits(p, "report", c) /\ World("report", c)'
    BY <1>1, <1>2, <1>4 DEF Fits, World, Own, Setup, Points, Cmds
  <2>2. at' = [at EXCEPT ![p] = "report"] /\ cmd' = [cmd EXCEPT ![p] = c]
    BY <1>1, <1>4 DEF DropBranch, Return, Goto
  <2> QED
    BY <1>2, <2>1, <2>2, ProcStepOnly
<1>5. CASE c.job = None /\ ~ c.ok
  <2>1. Fits(p, "idle", NoCmd) /\ World("idle", NoCmd)'
    BY NoCmdFits DEF World, Own, Setup, NoCmd
  <2>2. at' = [at EXCEPT ![p] = "idle"] /\ cmd' = [cmd EXCEPT ![p] = NoCmd]
    BY <1>1, <1>5 DEF DropBranch, Return, Exit, Goto
  <2> QED
    BY <1>2, <2>1, <2>2, ProcStepOnly
<1> QED
  BY <1>3, <1>4, <1>5

LEMMA OpenGateOK == ASSUME CInv, NEW p \in Procs, OpenGate(p)  PROVE CInv'
<1>1. cmd[p].job \in Jobs
  BY DEF CInv, ProcsOK, Fits, OpenGate
<1>2. StoreStep
  BY <1>1, OpenGateStep, StoreStays DEF CInv, OpenGate
<1>3. FilesOK' /\ UNCHANGED <<tree, tmp, delivery, handoff>>
  BY DEF OpenGate, CInv, FilesOK, git, files
<1> QED
  BY <1>2, <1>3, ExitStep DEF OpenGate

LEMMA ReportOK == ASSUME CInv, NEW p \in Procs, Report(p)  PROVE CInv'
<1>1. delivery # None
  BY DEF CInv, ProcsOK, World, Own, Report
<1>2. FilesOK' /\ UNCHANGED <<tree, tmp, delivery, handoff>>
  BY <1>1 DEF Report, CInv, FilesOK, git
<1>3. StoreStep
  BY StoreStays DEF Report
<1> QED
  BY <1>2, <1>3, ExitStep DEF Report

LEMMA RecoverListOK == ASSUME CInv, NEW p \in Procs, RecoverList(p)  PROVE CInv'
<1> DEFINE c == [NoCmd EXCEPT !.op = "recover"]
<1>1. c \in Cmds /\ c.todo = {} /\ c.list = {} /\ c.job = None /\ ~ c.ok
  BY DEF NoCmd, Cmds
<1>2. at' = [at EXCEPT ![p] = "sweep"] /\ cmd' = [cmd EXCEPT ![p] = c]
  BY DEF RecoverList, Begin
<1> HIDE DEF c
<1>3. Fits(p, "sweep", c) /\ World("sweep", c)'
  BY <1>1 DEF Fits, World, Own, Setup, Points
<1>4. FilesOK' /\ UNCHANGED <<ent, tree, tmp, delivery, handoff>>
  BY DEF RecoverList, CInv, FilesOK, git, files
<1> QED
  BY <1>2, <1>3, <1>4, ProcStepOnly

LEMMA RecoverSweepOK == ASSUME CInv, NEW p \in Procs, RecoverSweep(p)  PROVE CInv'
<1>1. Fits(p, "idle", NoCmd) /\ World("idle", NoCmd)'
  BY NoCmdFits DEF World, Own, Setup, NoCmd
<1>2. FilesOK' /\ UNCHANGED <<ent, tmp, delivery, handoff>> /\ ~ tree'
  BY DEF RecoverSweep, CInv, FilesOK, files
<1> QED
  BY <1>1, <1>2, ProcStepOnly DEF RecoverSweep, Exit, Goto

LEMMA GateDecideOK == ASSUME CInv, NEW p \in Procs, GateDecide(p)  PROVE CInv'
<1>1. PICK g \in Gates, to \in {"approved", "rejected"} :
        /\ Store!ResolveGate(g, to)
        /\ \/ Begin(p, "resolve", [NoCmd EXCEPT !.op = "reject", !.job = ent[g].job])
           \/ UNCHANGED <<at, cmd>>
  BY DEF GateDecide
<1>2. StoreStep /\ ent[g].job \in Jobs
  BY <1>1, ResolveGateStep DEF CInv
<1>3. FilesOK' /\ UNCHANGED <<tree, tmp, delivery, handoff>>
  BY DEF GateDecide, CInv, FilesOK, git, files
<1>4. CASE Begin(p, "resolve", [NoCmd EXCEPT !.op = "reject", !.job = ent[g].job])
  <2>1. PICK j \in Jobs : j = ent[g].job
    BY <1>2
  <2> DEFINE c == [NoCmd EXCEPT !.op = "reject", !.job = j]
  <2>2. c \in Cmds /\ c.todo = {} /\ c.list = {} /\ c.job = j /\ ~ c.ok
    BY DEF NoCmd, Cmds
  <2>3. at' = [at EXCEPT ![p] = "resolve"] /\ cmd' = [cmd EXCEPT ![p] = c]
    BY <1>4, <2>1 DEF Begin
  <2> HIDE DEF c
  <2>4. Fits(p, "resolve", c) /\ World("resolve", c)'
    BY <2>2 DEF Fits, World, Own, Setup, Points
  <2> QED
    BY <1>2, <1>3, <2>3, <2>4, ProcStep DEF Gentle, StoreStep
<1>5. CASE UNCHANGED <<at, cmd>>
  BY <1>2, <1>3, <1>5, WorldStep
<1> QED
  BY <1>1, <1>4, <1>5

LEMMA GateResolveOK == ASSUME CInv, NEW p \in Procs, GateResolve(p)  PROVE CInv'
<1>1. cmd[p].job \in Jobs
  BY DEF CInv, ProcsOK, Fits, GateResolve
<1>2. StoreStep
  BY <1>1, CancelStep, StoreStays DEF CInv, GateResolve
<1>3. FilesOK' /\ UNCHANGED <<tree, tmp, delivery, handoff>>
  BY DEF GateResolve, CInv, FilesOK, git, files
<1> QED
  BY <1>2, <1>3, ExitStep DEF GateResolve

LEMMA VerifyTaskOK == ASSUME CInv, NEW p \in Procs, VerifyTask(p)  PROVE CInv'
<1>1. FilesOK' /\ UNCHANGED <<ent, tree, tmp, delivery, handoff, at, cmd>>
  BY DEF VerifyTask, VerifyResults, CInv, FilesOK, git
<1> QED
  BY <1>1, StoreStays, WorldStep

LEMMA HandoffReadOK == ASSUME CInv, NEW p \in Procs, HandoffRead(p)  PROVE CInv'
<1>1. PICK b \in BOOLEAN : b = reported
  BY DEF CInv, FilesOK
<1> DEFINE c == [NoCmd EXCEPT !.op = "handoff", !.ok = b]
<1>2. c \in Cmds /\ c.todo = {} /\ c.list = {} /\ c.job = None /\ c.ok = b
  BY DEF NoCmd, Cmds
<1>3. at' = [at EXCEPT ![p] = "write"] /\ cmd' = [cmd EXCEPT ![p] = c]
  BY <1>1 DEF HandoffRead, Begin
<1> HIDE DEF c
<1>4. FilesOK' /\ UNCHANGED <<ent, tree, tmp, delivery, handoff>>
  BY DEF HandoffRead, CInv, FilesOK, git, files
<1>5. b => delivery # None
  BY <1>1 DEF CInv, FilesOK
<1>6. Fits(p, "write", c) /\ World("write", c)'
  BY <1>2, <1>4, <1>5 DEF Fits, World, Own, Setup, Points
<1> QED
  BY <1>3, <1>4, <1>6, ProcStepOnly

LEMMA HandoffWriteOK == ASSUME CInv, NEW p \in Procs, HandoffWrite(p)  PROVE CInv'
<1>1. cmd[p].ok => delivery # None
  BY DEF CInv, ProcsOK, World, Own, HandoffWrite
<1>2. handoff' # None /\ UNCHANGED <<ent, tree, tmp, delivery>>
  BY NoneIsNoHandoff DEF HandoffWrite, git
<1>3. FilesOK'
  BY <1>1, <1>2 DEF HandoffWrite, CInv, FilesOK
<1>4. Fits(p, "idle", NoCmd) /\ World("idle", NoCmd)'
  BY NoCmdFits DEF World, Own, Setup, NoCmd
<1> QED
  BY <1>2, <1>3, <1>4, ProcStepOnly DEF HandoffWrite, Exit, Goto

LEMMA StopListOK == ASSUME CInv, NEW p \in Procs, StopList(p)  PROVE CInv'
<1>1. PICK L \in SUBSET Jobs : L = Listed(Jobs)
  BY DEF Listed
<1> DEFINE c == [NoCmd EXCEPT !.op = "stop", !.list = L, !.todo = L, !.ok = TRUE]
<1>2. c \in Cmds /\ c.todo = L /\ c.list = L /\ c.job = None /\ c.ok
  BY DEF NoCmd, Cmds
<1>3. at' = [at EXCEPT ![p] = "jobs"] /\ cmd' = [cmd EXCEPT ![p] = c]
  BY <1>1 DEF StopList, Begin
<1> HIDE DEF c
<1>4. FilesOK' /\ UNCHANGED <<ent, tree, tmp, delivery, handoff>>
  BY DEF StopList, CInv, FilesOK, git, files
<1>5. Fits(p, "jobs", c) /\ World("jobs", c)'
  BY <1>2, <1>4 DEF Fits, World, Own, Setup, Points
<1> QED
  BY <1>3, <1>4, <1>5, ProcStepOnly

LEMMA StopJobOK == ASSUME CInv, NEW p \in Procs, StopJob(p)  PROVE CInv'
<1>1. PICK c \in Cmds : c = cmd[p] /\ Fits(p, "jobs", c) /\ World("jobs", c)
  BY DEF CInv, ProcsOK, StopJob
<1>2. PICK j \in c.todo :
        Pursue(p, "jobs", [c EXCEPT !.todo = @ \ {j}, !.ok = @ /\ Fine(j),
                                    !.list = IF ent[j].st = "cancelled" THEN @ \ {j} ELSE @])
  BY <1>1 DEF StopJob
<1>3. c.list \cup c.todo \subseteq Jobs /\ c.todo \subseteq c.list /\ j \in Jobs
  BY <1>1 DEF Fits
<1>4. PICK T \in SUBSET Jobs : T = c.todo \ {j}
  BY <1>3
<1>5. PICK b \in BOOLEAN : b = (c.ok /\ Fine(j))
  BY DEF Fine
<1>6. PICK L \in SUBSET Jobs : L = IF ent[j].st = "cancelled" THEN c.list \ {j} ELSE c.list
  BY <1>3
<1> DEFINE d == [c EXCEPT !.todo = T, !.ok = b, !.list = L]
<1>7. d \in Cmds /\ d.todo = T /\ d.list = L /\ d.ok = b
  BY DEF Cmds
<1>8. Pursue(p, "jobs", d)
  BY <1>2, <1>4, <1>5, <1>6
<1> HIDE DEF d
<1>9. FilesOK' /\ UNCHANGED <<ent, tree, tmp, delivery, handoff>>
  BY DEF StopJob, CInv, FilesOK, git, files
<1>10. b => \A k \in (L \cap Jobs) \ T : Settled(k)
  BY <1>1, <1>4, <1>5, <1>6 DEF World, Settled, Fine
<1>11. Fits(p, "jobs", d)
  BY <1>3, <1>4, <1>6, <1>7 DEF Fits, Setup, Points
<1>12. World("jobs", d)'
  BY <1>7, <1>9, <1>10 DEF World, Own, Setup, Settled
<1> QED
  BY <1>8, <1>9, <1>11, <1>12, PursueStep

LEMMA StopVerificationOK == ASSUME CInv, NEW p \in Procs, StopVerification(p)  PROVE CInv'
<1>1. PICK c \in Cmds : c = cmd[p] /\ Fits(p, "jobs", c) /\ World("jobs", c)
  BY DEF CInv, ProcsOK, StopVerification
<1>2. PICK b \in BOOLEAN : b = (c.ok /\ c.list # {} /\ verified)
  BY DEF CInv, FilesOK
<1> DEFINE d == [c EXCEPT !.ok = b]
<1>3. d \in Cmds /\ d.todo = c.todo /\ d.list = c.list /\ d.ok = b
  BY DEF Cmds
<1>4. Pursue(p, "handoff", d) /\ c.todo = {}
  BY <1>1, <1>2 DEF StopVerification
<1> HIDE DEF d
<1>5. FilesOK' /\ UNCHANGED <<ent, tree, tmp, delivery, handoff>>
  BY DEF StopVerification, CInv, FilesOK, git, files
<1>6. Fits(p, "handoff", d)
  BY <1>1, <1>3, <1>4 DEF Fits, Setup, Points
<1>7. World("handoff", d)'
  BY <1>1, <1>2, <1>3, <1>4, <1>5 DEF World, Own, Setup, Settled
<1> QED
  BY <1>4, <1>5, <1>6, <1>7, PursueStep

LEMMA StopHandoffOK == ASSUME CInv, NEW p \in Procs, StopHandoff(p)  PROVE CInv'
<1>1. PICK c \in Cmds : c = cmd[p] /\ Fits(p, "handoff", c) /\ World("handoff", c)
  BY DEF CInv, ProcsOK, StopHandoff
<1>2. PICK b \in BOOLEAN : b = (c.ok /\ handoff # None)
  BY DEF Cmds
<1> DEFINE d == [c EXCEPT !.ok = b]
<1>3. d \in Cmds /\ d.todo = c.todo /\ d.list = c.list /\ d.ok = b
  BY DEF Cmds
<1>4. Pursue(p, "dir", d)
  BY <1>1, <1>2 DEF StopHandoff
<1> HIDE DEF d
<1>5. FilesOK' /\ UNCHANGED <<ent, tree, tmp, delivery, handoff>>
  BY DEF StopHandoff, CInv, FilesOK, git, files
<1>6. Fits(p, "dir", d)
  BY <1>1, <1>3 DEF Fits, Setup, Points
<1>7. World("dir", d)'
  BY <1>1, <1>2, <1>3, <1>5 DEF World, Own, Setup, Settled
<1> QED
  BY <1>4, <1>5, <1>6, <1>7, PursueStep

LEMMA StopDirOK == ASSUME CInv, NEW p \in Procs, StopDir(p)  PROVE CInv'
<1>1. PICK c \in Cmds : c = cmd[p] /\ Fits(p, "dir", c) /\ World("dir", c)
  BY DEF CInv, ProcsOK, StopDir
<1>2. PICK G \in SUBSET Gates : G = Listed(Gates)
  BY DEF Listed
<1>3. c.list \subseteq Jobs /\ c.todo = {}
  BY <1>1 DEF Fits
<1>4. PICK L \in SUBSET (Jobs \cup Gates) : L = c.list \cup G
  BY <1>3
<1> DEFINE d == [c EXCEPT !.list = L, !.todo = G]
<1>5. d \in Cmds /\ d.todo = G /\ d.list = L /\ d.ok = c.ok
  BY DEF Cmds
<1>6. at' = [at EXCEPT ![p] = "gates"] /\ cmd' = [cmd EXCEPT ![p] = d]
  BY <1>1, <1>2, <1>4 DEF StopDir, Goto
<1> HIDE DEF d
<1>7. FilesOK' /\ UNCHANGED <<ent, tree, tmp, delivery, handoff>>
  BY DEF StopDir, CInv, FilesOK, git, files
<1>8. Fits(p, "gates", d)
  BY <1>4, <1>5 DEF Fits, Setup, Points
<1>9. L \cap Gates = G /\ L \cap Jobs = c.list
  BY <1>3, <1>4, EntitiesDistinct
<1>10. \A g \in G : There(g)
  BY <1>2 DEF Listed, There
<1>11. World("gates", d)'
  BY <1>1, <1>3, <1>5, <1>7, <1>9, <1>10 DEF World, Own, Setup, Settled, There
<1> QED
  BY <1>6, <1>7, <1>8, <1>11, ProcStepOnly

LEMMA StopGateOK == ASSUME CInv, NEW p \in Procs, StopGate(p)  PROVE CInv'
<1>1. PICK c \in Cmds : c = cmd[p] /\ Fits(p, "gates", c) /\ World("gates", c)
  BY DEF CInv, ProcsOK, StopGate
<1>2. PICK g \in c.todo :
        Pursue(p, "gates", [c EXCEPT !.todo = @ \ {g}, !.ok = @ /\ ent[g].st # "open"])
  BY <1>1 DEF StopGate
<1>3. c.todo \subseteq Gates /\ c.todo \subseteq c.list /\ g \in Gates /\ g \notin Jobs
  BY <1>1, EntitiesDistinct DEF Fits
<1>4. PICK T \in SUBSET Gates : T = c.todo \ {g}
  BY <1>3
<1>5. PICK b \in BOOLEAN : b = (c.ok /\ ent[g].st # "open")
  BY DEF Cmds
<1> DEFINE d == [c EXCEPT !.todo = T, !.ok = b]
<1>6. d \in Cmds /\ d.todo = T /\ d.list = c.list /\ d.ok = b
  BY DEF Cmds
<1>7. Pursue(p, "gates", d)
  BY <1>2, <1>4, <1>5
<1> HIDE DEF d
<1>8. FilesOK' /\ UNCHANGED <<ent, tree, tmp, delivery, handoff>>
  BY DEF StopGate, CInv, FilesOK, git, files
<1>9. Fits(p, "gates", d)
  BY <1>3, <1>4, <1>6 DEF Fits, Setup, Points
<1>10. (c.list \cap Jobs) \ T = (c.list \cap Jobs) \ c.todo
  BY <1>3, <1>4
<1>11. b => \A h \in (c.list \cap Gates) \ T : Closed(h)
  BY <1>1, <1>3, <1>4, <1>5 DEF World, Closed
<1>12. b => /\ \A j \in (c.list \cap Jobs) \ T : Settled(j)
            /\ handoff # None
  BY <1>1, <1>5, <1>10 DEF World
<1>13. \A h \in c.list \cap Gates : There(h)
  BY <1>1 DEF World
<1>14. World("gates", d)'
  BY <1>6, <1>8, <1>11, <1>12, <1>13 DEF World, Own, Setup, Settled, There, Closed
<1> QED
  BY <1>7, <1>8, <1>9, <1>14, PursueStep

LEMMA StopAnswerOK == ASSUME CInv, NEW p \in Procs, StopAnswer(p)  PROVE CInv'
<1>1. FilesOK' /\ UNCHANGED <<tree, tmp, delivery, handoff>>
  BY DEF StopAnswer, CInv, FilesOK, git, files
<1>2. StoreStep
  BY StoreStays DEF StopAnswer
<1> QED
  BY <1>1, <1>2, ExitStep DEF StopAnswer

LEMMA DieOK == ASSUME CInv, NEW p \in Procs, Die(p)  PROVE CInv'
<1>1. FilesOK' /\ UNCHANGED <<tree, tmp, delivery, handoff>>
  BY DEF Die, CInv, FilesOK, git, files
<1>2. StoreStep
  BY StoreStays DEF Die
<1> QED
  BY <1>1, <1>2, ExitStep DEF Die

-----------------------------------------------------------------------------
(* The theorems *)

LEMMA InitOK == Init => CInv
<1> SUFFICES ASSUME Init PROVE CInv
  OBVIOUS
<1>1. EntOK
  BY EntitiesDistinct DEF Init, EntOK, Entities
<1>2. FilesOK
  BY NoneIsNoHandoff DEF Init, FilesOK
<1>3. ASSUME NEW p \in Procs  PROVE Fits(p, at[p], cmd[p]) /\ World(at[p], cmd[p])
  BY NoCmdFits DEF Init
<1>4. at \in [Procs -> Points \cup {"idle"}] /\ cmd \in [Procs -> Cmds]
  BY NoCmdFits DEF Init
<1> QED
  BY <1>1, <1>2, <1>3, <1>4 DEF CInv, ProcsOK

LEMMA NextOK == ASSUME CInv, [Next]_vars  PROVE CInv'
<1>1. CASE \E j \in Jobs : Delegate(j) \/ RunJob(j)
  BY <1>1, JobsOK
<1>2. ASSUME NEW p \in Procs, Integrate(p)  PROVE CInv'
  BY <1>2, ListOK, ReadOK, SetupTreeOK, SetupBranchOK, SetupAddOK, MergeOK, PromoteOK, TeardownOK,
     DropBranchOK, OpenGateOK, ReportOK DEF Integrate
<1>3. ASSUME NEW p \in Procs,
             RecoverList(p) \/ RecoverSweep(p) \/ GateDecide(p) \/ GateResolve(p)
      PROVE  CInv'
  BY <1>3, RecoverListOK, RecoverSweepOK, GateDecideOK, GateResolveOK
<1>4. ASSUME NEW p \in Procs,
             VerifyTask(p) \/ HandoffRead(p) \/ HandoffWrite(p)
      PROVE  CInv'
  BY <1>4, VerifyTaskOK, HandoffReadOK, HandoffWriteOK
<1>5. ASSUME NEW p \in Procs, Stop(p) \/ Die(p)  PROVE CInv'
  BY <1>5, StopListOK, StopJobOK, StopVerificationOK, StopHandoffOK, StopDirOK, StopGateOK,
     StopAnswerOK, DieOK DEF Stop
<1>6. CASE UNCHANGED vars
  <2>1. FilesOK' /\ UNCHANGED <<ent, tree, tmp, delivery, handoff, at, cmd>>
    BY <1>6 DEF vars, git, files, CInv, FilesOK
  <2> QED
    BY <2>1, StoreStays, WorldStep
<1> QED
  BY <1>1, <1>2, <1>3, <1>4, <1>5, <1>6 DEF Next

LEMMA CloseoutInvariant == Spec => []CInv
<1>1. CInv /\ [Next]_vars => CInv'
  BY NextOK
<1> QED
  BY <1>1, InitOK, PTL DEF Spec

(* Types, for any number of processes, jobs and gates, and any number of   *)
(* integrates at a time: a gate is opened or a job rejected only for a job *)
(* there is, and only what nothing refused is reported.                    *)
THEOREM CloseoutTypeCorrect == Spec => []TypeOK
<1>1. CInv => TypeOK
  <2> SUFFICES ASSUME CInv PROVE TypeOK
    OBVIOUS
  <2>1. /\ {tree, reported, verified} \subseteq BOOLEAN
        /\ {tmp, delivery} \subseteq (SUBSET Jobs) \cup {None}
    BY DEF CInv, FilesOK
  <2>2. ASSUME NEW p \in Procs
        PROVE  /\ cmd[p].list \cup cmd[p].todo \subseteq Jobs \cup Gates
               /\ at[p] # "read" => cmd[p].todo \subseteq cmd[p].list
               /\ at[p] = "idle" => cmd[p] = NoCmd
               /\ at[p] \in {"gate", "resolve"} => cmd[p].job \in Jobs
               /\ at[p] = "report" => cmd[p].job = None /\ cmd[p].todo = {}
    BY DEF CInv, ProcsOK, Fits, Cmds
  <2> QED
    BY <2>1, <2>2 DEF CInv, EntOK, FilesOK, ProcsOK, TypeOK
<1> QED
  BY <1>1, CloseoutInvariant, PTL

(* Whatever earlier integrates, killed anywhere, and recovers have left:   *)
(* the next integrate can add its worktree, if one integrates at a time.   *)
THEOREM SetupClears == ASSUME OneIntegrator PROVE Spec => []LeftoversNeverBlock
<1>1. CInv => LeftoversNeverBlock
  BY DEF CInv, ProcsOK, World, Own, LeftoversNeverBlock
<1> QED
  BY <1>1, CloseoutInvariant, PTL

(* The handoff names a delivery branch only if there is one, though it is  *)
(* written from an event read earlier, and with integrates at once too.    *)
THEOREM HandoffIsTrue == Spec => []HandoffTruthful
<1>1. CInv => HandoffTruthful
  BY DEF CInv, FilesOK, HandoffTruthful
<1> QED
  BY <1>1, CloseoutInvariant, PTL

(* The delivery branch moves only in Promote. *)
LEMMA DeliveryMoves ==
  ASSUME OneIntegrator, CInv, [Next]_vars
  PROVE  [delivery' # delivery =>
            \E p \in Procs : at[p] = "merge" /\ cmd[p].todo = {} /\ delivery' = cmd[p].list]_vars
<1>1. CASE \E j \in Jobs : Delegate(j) \/ RunJob(j)
  BY <1>1 DEF Delegate, RunJob, git
<1>2. ASSUME NEW p \in Procs, Promote(p), delivery' # delivery
      PROVE  at[p] = "merge" /\ cmd[p].todo = {} /\ delivery' = cmd[p].list
  <2>1. tmp = cmd[p].list \ cmd[p].todo
    BY <1>2 DEF CInv, ProcsOK, World, Own, Promote
  <2> QED
    BY <1>2, <2>1 DEF Promote
<1>3. ASSUME NEW p \in Procs, Integrate(p), ~ Promote(p)  PROVE delivery' = delivery
  BY <1>3 DEF Integrate, IntegrateList, IntegrateRead, SetupTree, SetupBranch, SetupAdd, Merge, Teardown,
     DropBranch, OpenGate, Report, git
<1>4. ASSUME NEW p \in Procs,
             RecoverList(p) \/ RecoverSweep(p) \/ GateDecide(p) \/ GateResolve(p)
      PROVE  delivery' = delivery
  BY <1>4 DEF RecoverList, RecoverSweep, GateDecide, GateResolve, git
<1>5. ASSUME NEW p \in Procs,
             VerifyTask(p) \/ HandoffRead(p) \/ HandoffWrite(p)
      PROVE  delivery' = delivery
  BY <1>5 DEF VerifyTask, HandoffRead, HandoffWrite, git
<1>6. ASSUME NEW p \in Procs, Stop(p) \/ Die(p)  PROVE delivery' = delivery
  BY <1>6 DEF Stop, StopList, StopJob, StopVerification, StopHandoff, StopDir, StopGate,
     StopAnswer, Die, git
<1>7. CASE UNCHANGED vars
  BY <1>7
<1> QED
  BY <1>1, <1>2, <1>3, <1>4, <1>5, <1>6, <1>7 DEF Next

(* The delivery branch is always one whole integration, if one process at  *)
(* a time integrates: recovers, gate decisions and deaths do not matter.   *)
THEOREM DeliveryIsWhole == ASSUME OneIntegrator PROVE Spec => DeliversItsList
<1>1. CInv /\ [Next]_vars =>
        [delivery' # delivery =>
           \E p \in Procs : at[p] = "merge" /\ cmd[p].todo = {} /\ delivery' = cmd[p].list]_vars
  BY DeliveryMoves
<1> QED
  BY <1>1, CloseoutInvariant, PTL DEF Spec, DeliversItsList

(* When the stop hook lets the orchestrator go, what it has read one after *)
(* the other still is so: no job it listed runs again, the handoff is      *)
(* there, no gate it listed is open.                                       *)
THEOREM StopIsSound == Spec => []StopSound
<1>1. CInv => StopSound
  <2> SUFFICES ASSUME CInv, NEW p \in Procs, at[p] = "gates", cmd[p].todo = {}, cmd[p].ok
               PROVE  /\ \A j \in cmd[p].list \cap Jobs : Settled(j)
                      /\ handoff # None
                      /\ \A g \in cmd[p].list \cap Gates : ent[g].st # "open"
    BY DEF StopSound, Settled
  <2>1. World("gates", cmd[p])
    BY DEF CInv, ProcsOK
  <2> QED
    BY <2>1 DEF World, Closed
<1> QED
  BY <1>1, CloseoutInvariant, PTL
-----------------------------------------------------------------------------
(* What has become of the jobs *)

Decision(j) ==
  IF ent[j].st = "completed" THEN "done"
  ELSE IF ent[j].st = "cancelled" THEN "rejected" ELSE "open"

(* Job j is done, or it is rejected. *)
DecidesJob(j) ==
  \/ Decided[j] = "open" /\ Decided' = [Decided EXCEPT ![j] = "done"]
  \/ Decided[j] # "rejected" /\ Decided' = [Decided EXCEPT ![j] = "rejected"]

DecidedStep == UNCHANGED Decided \/ \E j \in Jobs : DecidesJob(j)

LEMMA DecidedIs ==
  /\ Decided = [j \in Jobs |-> Decision(j)]
  /\ Decided' = [j \in Jobs |-> Decision(j)']
BY DEF Decided, Decision

LEMMA SameStatus ==
  ASSUME \A j \in Jobs : ent'[j].st = ent[j].st
  PROVE  UNCHANGED Decided
BY DecidedIs DEF Decision

LEMMA OneStatus ==
  ASSUME NEW i \in Jobs, \A j \in Jobs \ {i} : ent'[j].st = ent[j].st
  PROVE  Decided' = [Decided EXCEPT ![i] = Decision(i)']
BY DecidedIs DEF Decision

(* A gate gets a new image. *)
LEMMA GatePut ==
  ASSUME EntOK, NEW g \in Gates, NEW v, Store!Put(g, v)
  PROVE  UNCHANGED Decided
<1>1. \A j \in Jobs : ent'[j] = ent[j]
  BY EntitiesDistinct DEF Store!Put, EntOK, Entities
<1> QED
  BY <1>1, SameStatus

(* A job gets a new image. *)
LEMMA JobPut ==
  ASSUME EntOK, NEW i \in Jobs, NEW v, Store!Put(i, v)
  PROVE  ent'[i] = v /\ Decided' = [Decided EXCEPT ![i] = Decision(i)']
<1>1. ent'[i] = v /\ \A j \in Jobs \ {i} : ent'[j] = ent[j]
  BY DEF Store!Put, EntOK, Entities
<1> QED
  BY <1>1, OneStatus

LEMMA CreateDecides == ASSUME EntOK, NEW j \in Jobs, Store!Create(j)  PROVE UNCHANGED Decided
<1>1. ent[j].st = None /\ Store!Put(j, Fresh(j)) /\ Fresh(j).st = "created"
  BY EntitiesDistinct DEF Store!Create, Store!Absent, Absent, Store!Fresh, Fresh,
     Store!FreshStatus, FreshStatus
<1>2. Decision(j) = "open" /\ Decision(j)' = "open"
  BY <1>1, JobPut, NoneIsNoStatus DEF Decision, Status, JobStatus
<1>3. Decided' = [Decided EXCEPT ![j] = Decided[j]]
  BY <1>1, <1>2, JobPut, DecidedIs
<1> QED
  BY <1>3, DecidedIs

LEMMA MoveDecides ==
  ASSUME EntOK, NEW j \in Jobs, NEW to, Store!Move(j, to)
  PROVE  UNCHANGED Decided \/ DecidesJob(j)
<1>1. <<ent[j].st, to>> \in JobLegal /\ Store!Put(j, Store!Advance(ent[j], to))
  BY EntitiesDistinct DEF Store!Move, Store!Legal, Store!JobLegal, JobLegal
<1>2. ent[j] \in Image /\ to \in Status
  BY <1>1, NoneIsNoStatus DEF EntOK, Entities, JobLegal, Absent, Status, JobStatus
<1>3. ent'[j].st = to /\ Decided' = [Decided EXCEPT ![j] = Decision(j)']
  BY <1>1, <1>2, JobPut, AdvanceImage
<1>4. Decision(j) = "open" /\ Decision(j)' \in {"open", "done"}
  BY <1>1, <1>3 DEF JobLegal, Decision
<1> QED
  BY <1>3, <1>4, DecidedIs DEF DecidesJob

LEMMA CancelDecides ==
  ASSUME EntOK, NEW j \in Jobs, Resolvable(ent[j].st, "cancelled"), Store!Resolve(j, "cancelled")
  PROVE  DecidesJob(j)
<1>1. ent[j].st \in Status \ {"cancelled"} /\ Store!Put(j, Store!Advance(ent[j], "cancelled"))
  BY DEF Resolvable, Unfinished, Status, JobStatus, Store!Resolve
<1>2. ent[j] \in Image /\ "cancelled" \in Status
  BY <1>1, NoneIsNoStatus DEF EntOK, Entities, Absent, Status, JobStatus
<1>3. ent'[j].st = "cancelled" /\ Decided' = [Decided EXCEPT ![j] = Decision(j)']
  BY <1>1, <1>2, JobPut, AdvanceImage
<1>4. Decision(j) # "rejected" /\ Decision(j)' = "rejected"
  BY <1>1, <1>3 DEF Decision
<1> QED
  BY <1>3, <1>4, DecidedIs DEF DecidesJob

(* The steps that leave the jobs as they are: all that touch no job. *)
LEMMA SettledDecides == ASSUME DecidedStep  PROVE \A j \in Jobs : Settled(j) => Settled(j)'
<1>1. \A j \in Jobs : (Settled(j) <=> Decided[j] # "open") /\ (Settled(j)' <=> Decided'[j] # "open")
  BY DecidedIs DEF Decision, Settled
<1>2. \A j \in Jobs : Decided[j] # "open" => Decided'[j] # "open"
  BY DecidedIs DEF DecidedStep, DecidesJob
<1> QED
  BY <1>1, <1>2

(* The branches keep what was done, however many integrate at once. *)

LEMMA NextDecides == ASSUME CInv, [Next]_vars  PROVE DecidedStep
<1>1. ASSUME NEW j \in Jobs, Delegate(j) \/ RunJob(j)  PROVE DecidedStep
  <2>1. CASE Delegate(j)
    BY <2>1, CreateDecides DEF CInv, Delegate, DecidedStep
  <2>2. CASE RunJob(j)
    <3>1. PICK to : Store!Move(j, to)
      BY <2>2 DEF RunJob
    <3> QED
      BY <3>1, MoveDecides DEF CInv, DecidedStep
  <2> QED
    BY <1>1, <2>1, <2>2
<1>2. UNCHANGED ent => DecidedStep
  BY SameStatus DEF DecidedStep
<1>3. ASSUME NEW p \in Procs, Integrate(p)  PROVE DecidedStep
  <2>1. CASE OpenGate(p)
    <3>1. UNCHANGED ent \/ \E g \in Gates : Store!OpenGate(g, cmd[p].job, "conflict")
      BY <2>1 DEF OpenGate
    <3>2. ASSUME NEW g \in Gates, Store!OpenGate(g, cmd[p].job, "conflict")
          PROVE  UNCHANGED Decided
      BY <3>2, GatePut DEF Store!OpenGate, CInv
    <3> QED
      BY <1>2, <3>1, <3>2 DEF DecidedStep
  <2>2. CASE ~ OpenGate(p)
    BY <1>2, <1>3, <2>2 DEF Integrate, IntegrateList, IntegrateRead, SetupTree, SetupBranch, SetupAdd, Merge,
       Promote, Teardown, DropBranch, Report
  <2> QED
    BY <2>1, <2>2
<1>4. ASSUME NEW p \in Procs, GateDecide(p) \/ GateResolve(p)  PROVE DecidedStep
  <2>1. CASE GateDecide(p)
    <3>1. PICK g \in Gates : \E to : Store!ResolveGate(g, to)
      BY <2>1 DEF GateDecide
    <3>2. UNCHANGED Decided
      BY <3>1, GatePut DEF CInv, Store!ResolveGate
    <3> QED
      BY <3>2 DEF DecidedStep
  <2>2. CASE GateResolve(p)
    <3>1. cmd[p].job \in Jobs
      BY <2>2 DEF CInv, ProcsOK, Fits, GateResolve
    <3>2. \/ UNCHANGED ent
          \/ /\ Resolvable(ent[cmd[p].job].st, "cancelled")
             /\ Store!Resolve(cmd[p].job, "cancelled")
      BY <2>2 DEF GateResolve
    <3> QED
      BY <1>2, <3>1, <3>2, CancelDecides DEF CInv, DecidedStep
  <2> QED
    BY <1>4, <2>1, <2>2
<1>5. ASSUME NEW p \in Procs,
             \/ RecoverList(p) \/ RecoverSweep(p) \/ VerifyTask(p) \/ HandoffRead(p)
             \/ HandoffWrite(p) \/ Stop(p) \/ Die(p)
      PROVE  DecidedStep
  BY <1>2, <1>5 DEF RecoverList, RecoverSweep, VerifyTask, HandoffRead, HandoffWrite, Stop,
     StopList, StopJob, StopVerification, StopHandoff, StopDir, StopGate, StopAnswer, Die
<1> QED
  BY <1>1, <1>2, <1>3, <1>4, <1>5 DEF Next, vars

(* Where the two branches come from. *)
LEMMA BranchesMove ==
  ASSUME CInv, [Next]_vars
  PROVE  \/ UNCHANGED <<tmp, delivery>>
         \/ tmp' \in {None, {}} /\ UNCHANGED delivery
         \/ /\ \E p \in Procs : at[p] = "merge" /\ \E j \in cmd[p].todo : tmp' = tmp \cup {j}
            /\ tmp # None /\ UNCHANGED delivery
         \/ delivery' = tmp /\ UNCHANGED tmp
<1>1. ASSUME NEW p \in Procs, Integrate(p)
      PROVE  \/ UNCHANGED <<tmp, delivery>>
             \/ tmp' \in {None, {}} /\ UNCHANGED delivery
             \/ /\ at[p] = "merge" /\ \E j \in cmd[p].todo : tmp' = tmp \cup {j}
                /\ tmp # None /\ UNCHANGED delivery
             \/ delivery' = tmp /\ UNCHANGED tmp
  <2>1. CASE Merge(p)
    <3>1. PICK j \in cmd[p].todo :
            \/ Goto(p, "teardown", [cmd[p] EXCEPT !.job = j]) /\ UNCHANGED tmp
            \/ /\ tree /\ tmp' = tmp \cup {j}
               /\ Goto(p, "merge", [cmd[p] EXCEPT !.todo = @ \ {j}])
      BY <2>1 DEF Merge
    <3> QED
      BY <2>1, <3>1 DEF Merge, CInv, FilesOK
  <2>2. CASE Promote(p)
    BY <2>2 DEF Promote
  <2>3. CASE SetupBranch(p) \/ SetupAdd(p) \/ DropBranch(p)
    BY <2>3 DEF SetupBranch, SetupAdd, DropBranch, DropTmp
  <2>4. CASE \/ IntegrateList(p) \/ IntegrateRead(p) \/ SetupTree(p)
             \/ Teardown(p) \/ OpenGate(p) \/ Report(p)
    BY <2>4 DEF IntegrateList, IntegrateRead, SetupTree, Teardown, OpenGate,
       Report, git
  <2> QED
    BY <1>1, <2>1, <2>2, <2>3, <2>4 DEF Integrate
<1>2. ASSUME NEW p \in Procs,
             \/ RecoverList(p) \/ RecoverSweep(p) \/ GateDecide(p) \/ GateResolve(p)
             \/ VerifyTask(p) \/ HandoffRead(p) \/ HandoffWrite(p)
             \/ Stop(p) \/ Die(p)
      PROVE  UNCHANGED <<tmp, delivery>>
  BY <1>2 DEF RecoverList, RecoverSweep, GateDecide, GateResolve, VerifyTask, HandoffRead,
     HandoffWrite, Stop, StopList, StopJob, StopVerification, StopHandoff, StopDir, StopGate,
     StopAnswer, Die, git
<1>3. ASSUME NEW j \in Jobs, Delegate(j) \/ RunJob(j)  PROVE UNCHANGED <<tmp, delivery>>
  BY <1>3 DEF Delegate, RunJob, git
<1> QED
  BY <1>1, <1>2, <1>3 DEF Next, vars, git

LEMMA BranchesStep == ASSUME CInv, BranchesOK, [Next]_vars  PROVE BranchesOK'
<1>1. \A j \in Jobs : Settled(j) => Settled(j)'
  BY NextDecides, SettledDecides
<1>2. ASSUME NEW S \in {tmp, delivery} \ {None}, NEW j \in S  PROVE Settled(j)'
  BY <1>1, <1>2 DEF BranchesOK, CInv, FilesOK
<1>3. ASSUME NEW p \in Procs, at[p] = "merge", NEW j \in cmd[p].todo  PROVE Settled(j)'
  <2>1. Fits(p, "merge", cmd[p]) /\ World("merge", cmd[p])
    BY <1>3 DEF CInv, ProcsOK
  <2>2. j \in cmd[p].list /\ Settled(j) /\ j \in Jobs
    BY <1>3, <2>1 DEF Fits, World, Setup, Cmds
  <2> QED
    BY <1>1, <2>2
<1> SUFFICES ASSUME NEW S \in {tmp', delivery'} \ {None}, NEW j \in S  PROVE Settled(j)'
  BY DEF BranchesOK, Settled
<1> QED
  BY <1>2, <1>3, BranchesMove

(* Only what was done is gathered and delivered, with any number of        *)
(* integrates at a time: then a branch may mix two lists, but it never has *)
(* a job that was not completed when it was listed.                        *)
THEOREM DeliveryWasDone == Spec => []DeliveredWereDone
<1>1. Init => BranchesOK
  BY DEF Init, BranchesOK
<1>2. CInv /\ BranchesOK /\ [Next]_vars => BranchesOK'
  BY BranchesStep
<1>3. BranchesOK => DeliveredWereDone
  BY DEF BranchesOK, DeliveredWereDone, Settled
<1> QED
  BY <1>1, <1>2, <1>3, CloseoutInvariant, PTL DEF Spec
-----------------------------------------------------------------------------
(* The delivery branch as Delivery promises it *)

Gathers == Setup \cup {"read"}

(* What a process at pt with c is going to deliver, and has to look at. *)
Held(pt, c) == IF pt \in Gathers THEN c.list ELSE None
Left(pt, c) == IF pt = "read" THEN c.todo ELSE {}

Shown == <<Taken, Unseen>>

LEMMA TakenIs ==
  /\ Taken = [p \in Integrators |-> Held(at[p], cmd[p])]
  /\ Taken' = [p \in Integrators |-> Held(at'[p], cmd'[p])]
  /\ Unseen = [p \in Integrators |-> Left(at[p], cmd[p])]
  /\ Unseen' = [p \in Integrators |-> Left(at'[p], cmd'[p])]
BY DEF Taken, Unseen, Held, Left, Gathers, Setup

(* A process goes to pt with c. *)
LEMMA TakenMoves ==
  ASSUME CInv, NEW p \in Integrators, NEW pt, NEW c,
         at' = [at EXCEPT ![p] = pt], cmd' = [cmd EXCEPT ![p] = c]
  PROVE  /\ Taken' = [Taken EXCEPT ![p] = Held(pt, c)] /\ Taken[p] = Held(at[p], cmd[p])
         /\ Unseen' = [Unseen EXCEPT ![p] = Left(pt, c)] /\ Unseen[p] = Left(at[p], cmd[p])
<1>1. p \in Procs
  BY IntegratorsAreProcs
<1>2. at'[p] = pt /\ cmd'[p] = c /\ \A q \in Procs \ {p} : at'[q] = at[q] /\ cmd'[q] = cmd[q]
  BY <1>1 DEF CInv, ProcsOK
<1>3. Taken' = [Taken EXCEPT ![p] = Held(pt, c)] /\ Taken[p] = Held(at[p], cmd[p])
  BY <1>2, TakenIs, IntegratorsAreProcs
<1>4. Unseen' = [Unseen EXCEPT ![p] = Left(pt, c)] /\ Unseen[p] = Left(at[p], cmd[p])
  BY <1>2, TakenIs, IntegratorsAreProcs
<1> QED
  BY <1>3, <1>4

LEMMA TakenStays ==
  ASSUME CInv, NEW p \in Procs, NEW pt, NEW c,
         at' = [at EXCEPT ![p] = pt], cmd' = [cmd EXCEPT ![p] = c],
         p \in Integrators => /\ Held(pt, c) = Held(at[p], cmd[p])
                              /\ Left(pt, c) = Left(at[p], cmd[p])
  PROVE  UNCHANGED Shown
<1>1. at'[p] = pt /\ cmd'[p] = c /\ \A q \in Procs \ {p} : at'[q] = at[q] /\ cmd'[q] = cmd[q]
  BY DEF CInv, ProcsOK
<1> QED
  BY <1>1, TakenIs, IntegratorsAreProcs DEF Shown

LEMMA TakenSame == ASSUME UNCHANGED <<at, cmd>>  PROVE UNCHANGED Shown
BY TakenIs DEF Shown

(* A process that is not integrating comes and goes. *)
LEMMA TakenAside ==
  ASSUME CInv, NEW p \in Procs, at[p] \notin Gathers, NEW pt, NEW c, pt \notin Gathers,
         at' = [at EXCEPT ![p] = pt], cmd' = [cmd EXCEPT ![p] = c]
  PROVE  UNCHANGED Shown
BY TakenStays DEF Held, Left, Gathers

(* A step that shows nothing but what becomes of the jobs. *)
LEMMA NothingElse ==
  ASSUME DecidedStep, UNCHANGED Shown, UNCHANGED <<delivery, handoff>>
  PROVE  Promised!Next
BY DEF DecidedStep, DecidesJob, Shown, Promised!Next, Promised!Decide, Promised!vars

(* Process p has taken a list, and lets go of it. *)
LEMMA LetsGo ==
  ASSUME CInv, NEW p \in Procs, at[p] \in Gathers, NEW pt, NEW c, pt \notin Gathers,
         at' = [at EXCEPT ![p] = pt], cmd' = [cmd EXCEPT ![p] = c],
         UNCHANGED <<ent, delivery, handoff>>
  PROVE  Promised!Next
<1>1. p \in Integrators /\ cmd[p].list \in SUBSET Jobs
  BY DEF CInv, ProcsOK, Fits, Gathers
<1>2. /\ Taken' = [Taken EXCEPT ![p] = None] /\ Taken[p] # None
      /\ Unseen' = [Unseen EXCEPT ![p] = {}]
  BY <1>1, TakenMoves, NoneIsNoBranch DEF Held, Left, Gathers
<1>3. UNCHANGED Decided
  BY SameStatus
<1> QED
  BY <1>1, <1>2, <1>3 DEF Promised!Next, Promised!GiveUp

(* The steps of integrate *)
LEMMA ListBegins == ASSUME CInv, NEW p \in Procs, IntegrateList(p)  PROVE Promised!Next
<1>0. PICK c : c = [NoCmd EXCEPT !.op = "integrate", !.todo = Listed(Jobs)]
  OBVIOUS
<1>1. p \in Integrators /\ at' = [at EXCEPT ![p] = "read"] /\ cmd' = [cmd EXCEPT ![p] = c]
  BY <1>0 DEF IntegrateList, Begin
<1>2. /\ c.list = {} /\ c.todo = Listed(Jobs) /\ at[p] = "idle"
      /\ UNCHANGED <<ent, delivery, handoff>>
  BY <1>0 DEF IntegrateList, Begin, git, files, NoCmd
<1>3. /\ Taken' = [Taken EXCEPT ![p] = {}] /\ Taken[p] = None
      /\ Unseen' = [Unseen EXCEPT ![p] = Listed(Jobs)]
  <2>1. Held("read", c) = {} /\ Left("read", c) = Listed(Jobs) /\ Held(at[p], cmd[p]) = None
    BY <1>2 DEF Held, Left, Gathers, Setup
  <2>2. /\ Taken' = [Taken EXCEPT ![p] = Held("read", c)] /\ Taken[p] = Held(at[p], cmd[p])
        /\ Unseen' = [Unseen EXCEPT ![p] = Left("read", c)] /\ Unseen[p] = Left(at[p], cmd[p])
    BY <1>1, TakenMoves
  <2> QED
    BY <2>1, <2>2
<1>4. Listed(Jobs) \in SUBSET Jobs /\ {j \in Jobs : Decided[j] = "done"} \subseteq Listed(Jobs)
  BY DecidedIs, NoneIsNoStatus DEF Listed, Decision, Absent, Status, JobStatus
<1>5. UNCHANGED Decided
  BY <1>2, SameStatus
<1> QED
  BY <1>1, <1>2, <1>3, <1>4, <1>5 DEF Promised!Next, Promised!Begin

LEMMA ReadLooks == ASSUME CInv, NEW p \in Procs, IntegrateRead(p)  PROVE Promised!Next
<1>1. p \in Integrators /\ cmd[p] \in Cmds /\ cmd[p].todo \subseteq Jobs /\ at[p] = "read"
  BY DEF CInv, ProcsOK, Fits, IntegrateRead
<1>2. PICK j \in cmd[p].todo :
        Goto(p, "read", [cmd[p] EXCEPT !.todo = @ \ {j},
                                       !.list = IF Completed(j) THEN @ \cup {j} ELSE @])
  BY DEF IntegrateRead
<1>3. PICK c : c = [cmd[p] EXCEPT !.todo = @ \ {j},
                                  !.list = IF Completed(j) THEN @ \cup {j} ELSE @]
  OBVIOUS
<1>4. /\ c.todo = cmd[p].todo \ {j}
      /\ c.list = IF Completed(j) THEN cmd[p].list \cup {j} ELSE cmd[p].list
  BY <1>1, <1>3 DEF Cmds
<1>5. UNCHANGED <<ent, delivery, handoff>>
  BY DEF IntegrateRead, git, files
<1>6. /\ Taken' = [Taken EXCEPT ![p] = c.list] /\ Taken[p] = cmd[p].list
      /\ Unseen' = [Unseen EXCEPT ![p] = c.todo] /\ Unseen[p] = cmd[p].todo
  <2>1. at' = [at EXCEPT ![p] = "read"] /\ cmd' = [cmd EXCEPT ![p] = c]
    BY <1>2, <1>3 DEF Goto
  <2>2. /\ Held("read", c) = c.list /\ Left("read", c) = c.todo
        /\ Held(at[p], cmd[p]) = cmd[p].list /\ Left(at[p], cmd[p]) = cmd[p].todo
    BY <1>1 DEF Held, Left, Gathers
  <2>3. /\ Taken' = [Taken EXCEPT ![p] = Held("read", c)] /\ Taken[p] = Held(at[p], cmd[p])
        /\ Unseen' = [Unseen EXCEPT ![p] = Left("read", c)] /\ Unseen[p] = Left(at[p], cmd[p])
    BY <1>1, <2>1, TakenMoves
  <2> QED
    BY <2>2, <2>3
<1>7. Completed(j) <=> Decided[j] = "done"
  BY <1>1, DecidedIs DEF Completed, Decision
<1>8. UNCHANGED Decided
  BY <1>5, SameStatus
<1>9. /\ Taken' = [Taken EXCEPT ![p] = IF Decided[j] = "done" THEN @ \cup {j} ELSE @]
      /\ Unseen' = [Unseen EXCEPT ![p] = @ \ {j}]
  BY <1>1, <1>4, <1>6, <1>7, TakenIs
<1> QED
  BY <1>1, <1>5, <1>6, <1>8, <1>9 DEF Promised!Next, Promised!Look

LEMMA SetupTreeShows == ASSUME CInv, NEW p \in Procs, SetupTree(p)  PROVE Promised!Next
<1>1. PICK c : c = [cmd[p] EXCEPT !.todo = cmd[p].list]
  OBVIOUS
<1>2. /\ at' = [at EXCEPT ![p] = "rmbranch"] /\ cmd' = [cmd EXCEPT ![p] = c]
      /\ at[p] = "read" /\ cmd[p].todo = {} /\ UNCHANGED <<ent, delivery, handoff>>
  BY <1>1 DEF SetupTree, CallIntegrateTask, Goto, files
<1>3. c.list = cmd[p].list
  BY <1>1 DEF CInv, ProcsOK, Cmds
<1>4. UNCHANGED Shown
  BY <1>2, <1>3, TakenStays DEF Held, Left, Gathers, Setup
<1> QED
  BY <1>2, <1>4, SameStatus, NothingElse DEF DecidedStep

LEMMA SetupShows ==
  ASSUME CInv, NEW p \in Procs, SetupBranch(p) \/ SetupAdd(p)
  PROVE  Promised!Next
<1>1. PICK pt \in {"rmbranch", "add"} : pt = at[p]
  BY DEF SetupBranch, SetupAdd
<1>2. UNCHANGED <<ent, delivery, handoff>>
  BY DEF SetupBranch, SetupAdd, files
<1>3. CASE \E to \in Setup : Goto(p, to, cmd[p])
  <2>1. PICK to \in Setup : Goto(p, to, cmd[p])
    BY <1>3
  <2>2. UNCHANGED Shown
    BY <1>1, <2>1, TakenStays DEF Goto, Held, Left, Gathers, Setup
  <2> QED
    BY <1>2, <2>2, NextDecides, SameStatus, NothingElse DEF DecidedStep
<1>4. CASE Exit(p)
  BY <1>1, <1>2, <1>4, LetsGo DEF Exit, Goto, Gathers, Setup
<1> QED
  BY <1>3, <1>4 DEF SetupBranch, SetupAdd, Setup

LEMMA MergeShows == ASSUME CInv, NEW p \in Procs, Merge(p)  PROVE Promised!Next
<1>1. PICK j \in cmd[p].todo :
        \/ Goto(p, "teardown", [cmd[p] EXCEPT !.job = j]) /\ UNCHANGED tmp
        \/ /\ tree /\ tmp' = tmp \cup {j}
           /\ Goto(p, "merge", [cmd[p] EXCEPT !.todo = @ \ {j}])
  BY DEF Merge
<1>2. UNCHANGED <<ent, delivery, handoff>> /\ at[p] = "merge"
  BY DEF Merge, files
<1>3. CASE Goto(p, "teardown", [cmd[p] EXCEPT !.job = j])
  BY <1>2, <1>3, LetsGo DEF Goto, Gathers, Setup
<1>4. CASE Goto(p, "merge", [cmd[p] EXCEPT !.todo = @ \ {j}])
  <2>1. cmd[p] \in Cmds
    BY DEF CInv, ProcsOK
  <2>2. PICK c : c = [cmd[p] EXCEPT !.todo = @ \ {j}]
    OBVIOUS
  <2>3. c.list = cmd[p].list
    BY <2>1, <2>2 DEF Cmds
  <2>4. UNCHANGED Shown
    BY <1>2, <1>4, <2>2, <2>3, TakenStays DEF Goto, Held, Left, Gathers, Setup
  <2> QED
    BY <1>2, <2>4, SameStatus, NothingElse DEF DecidedStep
<1> QED
  BY <1>1, <1>3, <1>4

LEMMA PromoteDelivers ==
  ASSUME OneIntegrator, CInv, NEW p \in Procs, Promote(p)
  PROVE  Promised!Next
<1>1. /\ tmp = cmd[p].list \ cmd[p].todo /\ cmd[p].todo = {} /\ at[p] = "merge"
      /\ p \in Integrators /\ cmd[p].list \in SUBSET Jobs
  BY DEF CInv, ProcsOK, World, Own, Fits, Setup, Cmds, Promote
<1>2. delivery' = cmd[p].list /\ UNCHANGED <<ent, handoff>>
  BY <1>1, NoneIsNoBranch DEF Promote, files
<1>3. /\ at' = [at EXCEPT ![p] = "teardown"]
      /\ cmd' = [cmd EXCEPT ![p] = [cmd[p] EXCEPT !.ok = tmp # None]]
  BY DEF Promote, Goto
<1>4. /\ Taken' = [Taken EXCEPT ![p] = None] /\ Taken[p] = cmd[p].list
      /\ UNCHANGED Unseen /\ Unseen[p] = {}
  <2>1. PICK c : c = [cmd[p] EXCEPT !.ok = tmp # None]
    OBVIOUS
  <2>2. /\ Held("teardown", c) = None /\ Left("teardown", c) = {}
        /\ Held(at[p], cmd[p]) = cmd[p].list /\ Left(at[p], cmd[p]) = {}
    BY <1>1 DEF Held, Left, Gathers, Setup
  <2>5. cmd' = [cmd EXCEPT ![p] = c]
    BY <1>3, <2>1
  <2>6. /\ Taken' = [Taken EXCEPT ![p] = Held("teardown", c)] /\ Taken[p] = Held(at[p], cmd[p])
        /\ Unseen' = [Unseen EXCEPT ![p] = Left("teardown", c)]
        /\ Unseen[p] = Left(at[p], cmd[p])
    BY <1>1, <1>3, <2>5, TakenMoves
  <2>3. /\ Taken' = [Taken EXCEPT ![p] = None] /\ Taken[p] = cmd[p].list
        /\ Unseen' = [Unseen EXCEPT ![p] = {}] /\ Unseen[p] = {}
    BY <2>2, <2>6
  <2>4. [Unseen EXCEPT ![p] = {}] = Unseen
    BY <1>1, <2>3, TakenIs
  <2> QED
    BY <2>3, <2>4
<1>5. UNCHANGED Decided
  BY <1>2, SameStatus
<1> QED
  BY <1>1, <1>2, <1>4, <1>5, NoneIsNoBranch DEF Promised!Next, Promised!Deliver

LEMMA AfterShows ==
  ASSUME CInv, NEW p \in Procs,
         Teardown(p) \/ DropBranch(p) \/ OpenGate(p) \/ Report(p), [Next]_vars
  PROVE  Promised!Next
<1>1. PICK pt, c : /\ at' = [at EXCEPT ![p] = pt] /\ cmd' = [cmd EXCEPT ![p] = c]
                   /\ pt \in {"drop", "gate", "report", "idle"}
  BY DEF Teardown, DropBranch, Return, OpenGate, Report, Exit, Goto
<1>2. UNCHANGED <<delivery, handoff>> /\ at[p] \notin Gathers
  BY DEF Teardown, DropBranch, OpenGate, Report, git, files, Gathers, Setup
<1>3. UNCHANGED Shown
  BY <1>1, <1>2, TakenAside DEF Gathers, Setup
<1> QED
  BY <1>2, <1>3, NextDecides, NothingElse

(* The other commands *)
LEMMA OthersShow ==
  ASSUME CInv, NEW p \in Procs, [Next]_vars,
         \/ RecoverList(p) \/ RecoverSweep(p) \/ GateDecide(p) \/ GateResolve(p)
         \/ HandoffRead(p) \/ Stop(p)
  PROVE  Promised!Next
<1>1. UNCHANGED <<delivery, handoff>>
  BY DEF RecoverList, RecoverSweep, GateDecide, GateResolve, HandoffRead, Stop, StopList,
     StopJob, StopVerification, StopHandoff, StopDir, StopGate, StopAnswer, git, files
<1>2. CASE UNCHANGED <<at, cmd>>
  BY <1>1, <1>2, TakenSame, NextDecides, NothingElse
<1>3. at[p] \notin Gathers \/ UNCHANGED <<at, cmd>>
  BY DEF RecoverList, RecoverSweep, GateDecide, GateResolve, HandoffRead, Stop, StopList,
     StopJob, StopVerification, StopHandoff, StopDir, StopGate, StopAnswer, Begin, Gathers, Setup
<1>4. \/ UNCHANGED <<at, cmd>>
      \/ \E pt, c : /\ at' = [at EXCEPT ![p] = pt] /\ cmd' = [cmd EXCEPT ![p] = c]
                    /\ pt \in {"sweep", "idle", "resolve", "write", "jobs", "handoff", "dir",
                              "gates"}
  <2>1. CASE RecoverList(p) \/ RecoverSweep(p) \/ GateDecide(p) \/ GateResolve(p) \/ HandoffRead(p)
    BY <2>1 DEF RecoverList, RecoverSweep, GateDecide, GateResolve, HandoffRead, Begin, Exit, Goto
  <2>2. CASE StopList(p) \/ StopJob(p) \/ StopVerification(p) \/ StopHandoff(p)
    BY <2>2 DEF StopList, StopJob, StopVerification, StopHandoff, Begin, Pursue, Exit, Goto
  <2>3. CASE StopDir(p) \/ StopGate(p) \/ StopAnswer(p)
    BY <2>3 DEF StopDir, StopGate, StopAnswer, Pursue, Exit, Goto
  <2> QED
    BY <2>1, <2>2, <2>3 DEF Stop
<1>5. CASE ~ UNCHANGED <<at, cmd>>
  <2>1. PICK pt, c : /\ at' = [at EXCEPT ![p] = pt] /\ cmd' = [cmd EXCEPT ![p] = c]
                     /\ pt \in {"sweep", "idle", "resolve", "write", "jobs", "handoff", "dir",
                               "gates"}
    BY <1>4, <1>5
  <2>2. UNCHANGED Shown
    BY <1>3, <1>5, <2>1, TakenAside DEF Gathers, Setup
  <2> QED
    BY <1>1, <2>2, NextDecides, NothingElse
<1> QED
  BY <1>2, <1>5

LEMMA HandoffShows == ASSUME CInv, NEW p \in Procs, HandoffWrite(p)  PROVE Promised!Next
<1>1. cmd[p].ok => delivery # None
  BY DEF CInv, ProcsOK, World, Own, HandoffWrite
<1>2. /\ at[p] = "write" /\ Exit(p) /\ UNCHANGED <<ent, delivery>>
      /\ handoff' = "branch" => delivery # None
  BY <1>1 DEF HandoffWrite, git
<1>3. UNCHANGED Shown
  BY <1>2, TakenAside DEF Exit, Goto, Gathers, Setup
<1>4. UNCHANGED Decided
  BY <1>2, SameStatus
<1> QED
  BY <1>2, <1>3, <1>4 DEF Shown, Promised!Next, Promised!HandOff

LEMMA DieShows == ASSUME CInv, NEW p \in Procs, Die(p)  PROVE Promised!Next
<1>1. Exit(p) /\ UNCHANGED <<ent, delivery, handoff>>
  BY DEF Die, git, files
<1>2. CASE at[p] \in Gathers
  BY <1>1, <1>2, LetsGo DEF Exit, Goto, Gathers, Setup
<1>3. CASE at[p] \notin Gathers
  <2>1. UNCHANGED Shown
    BY <1>1, <1>3, TakenAside DEF Exit, Goto, Gathers, Setup
  <2> QED
    BY <1>1, <2>1, SameStatus, NothingElse DEF DecidedStep
<1> QED
  BY <1>2, <1>3

LEMMA EveryStepShows == ASSUME OneIntegrator, CInv, [Next]_vars  PROVE [Promised!Next]_(Promised!vars)
<1>1. ASSUME NEW p \in Procs, Integrate(p)  PROVE Promised!Next
  BY <1>1, ListBegins, ReadLooks, SetupTreeShows, SetupShows, MergeShows, PromoteDelivers, AfterShows DEF Integrate
<1>2. ASSUME NEW p \in Procs,
             \/ RecoverList(p) \/ RecoverSweep(p) \/ GateDecide(p) \/ GateResolve(p)
             \/ HandoffRead(p) \/ Stop(p)
      PROVE  Promised!Next
  BY <1>2, OthersShow
<1>3. ASSUME NEW p \in Procs, HandoffWrite(p) \/ Die(p)  PROVE Promised!Next
  BY <1>3, HandoffShows, DieShows
<1>4. CASE \/ \E j \in Jobs : Delegate(j) \/ RunJob(j)
           \/ \E p \in Procs : VerifyTask(p)
           \/ UNCHANGED vars
  <2>1. UNCHANGED <<delivery, handoff, at, cmd>>
    BY <1>4 DEF Delegate, RunJob, VerifyTask, vars, git, files
  <2> QED
    BY <2>1, TakenSame, NextDecides, NothingElse
<1> QED
  BY <1>1, <1>2, <1>3, <1>4 DEF Next

LEMMA StartsAsPromised == Init => Promised!Init
<1> SUFFICES ASSUME Init PROVE Promised!Init
  OBVIOUS
<1>1. Decided = [j \in Jobs |-> "open"]
  BY NoneIsNoStatus DEF Init, Decided, Absent, Status, JobStatus, Entities
<1>2. Taken = [p \in Integrators |-> None] /\ Unseen = [p \in Integrators |-> {}]
  BY IntegratorsAreProcs DEF Init, Taken, Unseen
<1>3. delivery = None /\ handoff # "branch"
  BY NoneIsNoHandoff DEF Init
<1> QED
  BY <1>1, <1>2, <1>3 DEF Promised!Init

(* If one process at a time integrates, integrate is what Delivery says:   *)
(* a list of jobs, each done when it was looked at, with every job that    *)
(* was done all the while, delivered in one step, whatever dies, recovers, *)
(* rejects or hands off meanwhile.                                         *)
THEOREM CloseoutImplementsDelivery == ASSUME OneIntegrator PROVE Spec => ImplementsDelivery
<1>1. CInv /\ [Next]_vars => [Promised!Next]_(Promised!vars)
  BY EveryStepShows
<1> QED
  BY <1>1, StartsAsPromised, CloseoutInvariant, PTL DEF Spec, ImplementsDelivery, Promised!Spec
=============================================================================
