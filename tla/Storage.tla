------------------------------- MODULE Storage -------------------------------
(***************************************************************************)
(* What is left on disk, and where: the event log of internal/event/log.go *)
(* (one append-only file per actor) and the views internal/store/atomic.go *)
(* replaces by rename, under kills of the writing process, short writes    *)
(* and power loss.  The page cache is modelled: what was written but not   *)
(* fsync'd, and a directory entry that was made but not fsync'd, may be    *)
(* gone after a power loss, and the last bytes written may be half there.  *)
(* That goes for the directories too: MkdirAll makes events/ and those of  *)
(* the views, and nobody fsyncs what they are in.                          *)
(***************************************************************************)
EXTENDS Integers, Sequences, FiniteSets

CONSTANTS
  Actors,     \* events/<actor>.jsonl
  Views,      \* paths of view files
  Procs,      \* writing processes
  None,       \* no value
  Torn,       \* part of a record, or of a view
  Killable,   \* steps between which a writing process may be killed
  MaxEvents   \* BOUND: events appended in a behaviour

ASSUME MarksDiffer == None # Torn /\ None \notin Procs \cup Views
ASSUME MaxEventsIsNat == MaxEvents \in Nat

Steps == {"folded", "written", "flushed", "create", "temp", "rename", "renamed"}
ASSUME KillableAtSteps == Killable \subseteq Steps

VARIABLES
  file,     \* per actor, what read(2) returns: complete lines' events and torn pieces
  synced,   \* per actor, how much of it fsync has made durable
  linked,   \* per actor, its directory entry: none, cached or durable
  evdir,    \* events/ itself: none, cached or durable
  view,     \* per path, the inode a reader finds
  kept,     \* per path, the inode the durable directory entry leads to
  home,     \* per path, its directory: none, cached or durable
  lock,     \* the holder of state.lock
  pc,       \* where each process is
  job,      \* what it is writing: the event, its actor, the view and its inode
  count,    \* events appended so far
  done,     \* history: events whose AppendRaw returned without an error
  settled,  \* history: events whose view was written without an error, where it is
  glued,    \* history: events appended right behind a torn piece
  lost      \* history: events that went with events/ when the power failed

log == <<file, synced, linked, evdir>>
dir == <<view, kept, home>>
hist == <<done, settled, glued, lost>>
vars == <<log, dir, lock, pc, job, count, hist>>

Event == [n : 1..MaxEvents, view : Views \cup {None}]
Inode == [n : (0..MaxEvents) \cup {Torn}, synced : BOOLEAN]
ASSUME TornIsNoData == Torn \notin Event \cup 0..MaxEvents

NoFile == [n |-> 0, synced |-> TRUE]
Idle == [ev |-> None, actor |-> None, view |-> None, inode |-> NoFile]

-----------------------------------------------------------------------------
(* foldFile and Fold *)

(* The events of complete lines that parse: a torn piece takes the record  *)
(* written behind it along into one line that does not.                    *)
Lines(f) == {f[i] : i \in {k \in DOMAIN f : f[k] # Torn /\ (k > 1 => f[k-1] # Torn)}}

(* Fold stops at a line that ends but does not parse; a torn tail is       *)
(* skipped.                                                                *)
Corrupt(f) == \E i \in DOMAIN f : f[i] # Torn /\ i > 1 /\ f[i-1] = Torn

FoldOk == \A a \in Actors : ~Corrupt(file[a])
Folded == UNION {Lines(file[a]) : a \in Actors}

(* The last event about view v. *)
LatestOf(v) == {e \in Folded : e.view = v /\ \A x \in Folded : x.view = v => x.n <= e.n}

-----------------------------------------------------------------------------
Step(p, at) == pc' = [pc EXCEPT ![p] = at]

(* MUTANT: an operation that ends without its deferred Release. *)
Return_KeepsLock(p) ==
  /\ Step(p, "idle")
  /\ job' = [job EXCEPT ![p] = Idle]
  /\ lock' = lock

Return(p) ==
  /\ Step(p, "idle")
  /\ job' = [job EXCEPT ![p] = Idle]
  /\ lock' = IF lock = p THEN None ELSE lock

(* What MkdirAll or O_CREATE leaves: a new entry is not durable. *)
Made(entry) == IF entry = "none" THEN "cached" ELSE entry

(* write(2) of one record under O_APPEND; the first one creates the file,  *)
(* and MkdirAll events/ before it.                                         *)
Write(p, a, e, chunk) ==
  /\ file' = [file EXCEPT ![a] = Append(@, chunk)]
  /\ linked' = [linked EXCEPT ![a] = Made(@)]
  /\ evdir' = Made(evdir)
  /\ count' = count + 1
  /\ glued' = IF chunk = e /\ file[a] # <<>> /\ file[a][Len(file[a])] = Torn
              THEN glued \cup {e} ELSE glued
  /\ UNCHANGED <<synced, dir, done, settled, lost>>

(* A state change of view v takes state.lock and folds the log first.      *)
Fold(p) ==
  /\ pc[p] = "idle" /\ lock = None /\ FoldOk /\ count < MaxEvents
  /\ \E a \in Actors, v \in Views :
       job' = [job EXCEPT ![p] = [Idle EXCEPT !.actor = a, !.view = v]]
  /\ lock' = p
  /\ Step(p, "folded")
  /\ UNCHANGED <<log, dir, count, hist>>

(* AppendInfo takes no lock; its event is for no view.                     *)
MayAppend(p, a, v) ==
  /\ count < MaxEvents
  /\ \/ pc[p] = "folded" /\ job[p].actor = a /\ job[p].view = v
     \/ pc[p] = "idle" /\ v = None

NextEvent(v) == [n |-> count + 1, view |-> v]

AppendRaw(p) ==
  \E a \in Actors, v \in Views \cup {None} :
    /\ MayAppend(p, a, v)
    /\ Write(p, a, NextEvent(v), NextEvent(v))
    /\ job' = [job EXCEPT ![p] = [Idle EXCEPT !.ev = NextEvent(v), !.actor = a, !.view = v]]
    /\ Step(p, "written")
    /\ UNCHANGED lock

(* The disk fills up: part of the record is written, an error returned.    *)
ShortWrite(p) ==
  \E a \in Actors, v \in Views \cup {None} :
    /\ MayAppend(p, a, v)
    /\ Write(p, a, NextEvent(v), Torn)
    /\ Return(p)

(* MUTANT: no fsync of the record. *)
SyncFile_Skipped(p) ==
  /\ pc[p] = "written"
  /\ Step(p, "flushed")
  /\ UNCHANGED <<log, dir, lock, job, count, hist>>

SyncFile(p) ==
  LET a == job[p].actor
  IN  /\ pc[p] = "written"
      /\ synced' = [synced EXCEPT ![a] = Len(file[a])]
      /\ Step(p, "flushed")
      /\ UNCHANGED <<file, linked, evdir, dir, lock, job, count, hist>>

(* MUTANT: events/ is not fsync'd. *)
Linked_Skipped == linked

(* The entries an fsync of events/ makes durable. *)
Linked == [a \in Actors |-> IF linked[a] = "cached" THEN "durable" ELSE linked[a]]

(* FsyncDir(events/) and return; a state change goes on to its view.       *)
LinkFile(p) ==
  /\ pc[p] = "flushed"
  /\ linked' = Linked
  /\ done' = done \cup {job[p].ev}
  /\ IF job[p].view = None
     THEN Return(p)
     ELSE Step(p, "create") /\ UNCHANGED <<lock, job>>
  /\ UNCHANGED <<file, synced, evdir, dir, count, settled, glued, lost>>

-----------------------------------------------------------------------------
(* WriteAtomic *)

(* RebuildViews: the latest event of a folded log, for its view.           *)
Rebuild(p) ==
  /\ pc[p] = "idle" /\ lock = None /\ FoldOk
  /\ \E v \in Views : \E e \in LatestOf(v) :
       job' = [job EXCEPT ![p] = [Idle EXCEPT !.ev = e, !.view = v]]
  /\ lock' = p
  /\ Step(p, "create")
  /\ UNCHANGED <<log, dir, count, hist>>

(* MkdirAll, and the temporary file, which nobody else opens. *)
CreateTemp(p) ==
  /\ pc[p] = "create"
  /\ job' = [job EXCEPT ![p].inode = [n |-> job[p].ev.n, synced |-> FALSE]]
  /\ home' = [home EXCEPT ![job[p].view] = Made(@)]
  /\ Step(p, "temp")
  /\ UNCHANGED <<log, view, kept, lock, count, hist>>

(* MUTANT: the temporary file is renamed without an fsync. *)
SyncTemp_Skipped(p) ==
  /\ pc[p] = "temp"
  /\ Step(p, "rename")
  /\ UNCHANGED <<log, dir, lock, job, count, hist>>

SyncTemp(p) ==
  /\ pc[p] = "temp"
  /\ job' = [job EXCEPT ![p].inode.synced = TRUE]
  /\ Step(p, "rename")
  /\ UNCHANGED <<log, dir, lock, count, hist>>

Rename(p) ==
  /\ pc[p] = "rename"
  /\ view' = [view EXCEPT ![job[p].view] = job[p].inode]
  /\ Step(p, "renamed")
  /\ UNCHANGED <<log, kept, home, lock, job, count, hist>>

(* MUTANT: the views' directory is not fsync'd. *)
SyncDir_Skipped(p) ==
  /\ pc[p] = "renamed"
  /\ settled' = settled \cup {job[p].ev}
  /\ Return(p)
  /\ UNCHANGED <<log, dir, count, done, glued, lost>>

SyncDir(p) ==
  /\ pc[p] = "renamed"
  /\ kept' = [kept EXCEPT ![job[p].view] = view[job[p].view]]
  /\ settled' = settled \cup {job[p].ev}
  /\ Return(p)
  /\ UNCHANGED <<log, view, home, count, done, glued, lost>>

-----------------------------------------------------------------------------
(* Failures *)

(* The process is killed, or a call fails and the operation returns the    *)
(* error; the kernel keeps what was written.                               *)
Die(p) ==
  /\ pc[p] \in Killable
  /\ Return(p)
  /\ UNCHANGED <<log, dir, count, hist>>

(* What a power loss leaves of actor a's file: at least what was fsync'd,  *)
(* perhaps a piece of the next record, nothing if its entry was not.       *)
Survivors(a) ==
  LET f == file[a]
      cut == {SubSeq(f, 1, k) : k \in synced[a]..Len(f)}
      torn == {Append(SubSeq(f, 1, k), Torn) : k \in synced[a]..(Len(f) - 1)}
  IN  cut \cup torn \cup (IF linked[a] = "durable" THEN {} ELSE {<<>>})

(* ... and of a view: the entry before or after an unsynced rename, and an *)
(* unsynced inode whole or not.                                            *)
ViewsLeft(v) ==
  UNION {{i} \cup (IF i.synced THEN {} ELSE {[i EXCEPT !.n = Torn]}) : i \in {view[v], kept[v]}}

(* The files of events/, if it is still there, *)
LogLeft ==
  /\ \E f \in [Actors -> UNION {Survivors(a) : a \in Actors}] :
       /\ \A a \in Actors : f[a] \in Survivors(a)
       /\ file' = f
       /\ synced' = [a \in Actors |-> Len(f[a])]
       /\ linked' = [a \in Actors |-> IF f[a] = <<>> /\ linked[a] # "durable" THEN "none"
                                      ELSE "durable"]
  /\ evdir' = IF evdir = "none" THEN "none" ELSE "durable"
  /\ UNCHANGED lost

(* or events/ gone with all it held. *)
LogGone ==
  /\ evdir = "cached" /\ evdir' = "none"
  /\ file' = [a \in Actors |-> <<>>]
  /\ synced' = [a \in Actors |-> 0]
  /\ linked' = [a \in Actors |-> "none"]
  /\ lost' = lost \cup {e \in Event : \E a \in Actors : \E i \in DOMAIN file[a] : file[a][i] = e}

PowerLoss ==
  /\ LogLeft \/ LogGone
  /\ \E gone \in SUBSET {v \in Views : home[v] = "cached"} :
       /\ \E w \in [Views -> UNION {ViewsLeft(v) : v \in Views}] :
            /\ \A v \in Views : w[v] \in ViewsLeft(v)
            /\ view' = [v \in Views |-> IF v \in gone THEN NoFile
                                        ELSE [w[v] EXCEPT !.synced = TRUE]]
       /\ home' = [v \in Views |-> IF v \in gone \/ home[v] = "none" THEN "none" ELSE "durable"]
       /\ settled' = {e \in settled : e.view \notin gone}
  /\ kept' = view'
  /\ pc' = [p \in Procs |-> "idle"]
  /\ job' = [p \in Procs |-> Idle]
  /\ lock' = None
  /\ UNCHANGED <<count, done, glued>>

(* A new directory gets to the disk when the file system sees fit. *)
WriteBack ==
  /\ \/ evdir = "cached" /\ evdir' = "durable" /\ UNCHANGED home
     \/ /\ \E v \in Views : home[v] = "cached" /\ home' = [home EXCEPT ![v] = "durable"]
        /\ UNCHANGED evdir
  /\ UNCHANGED <<file, synced, linked, view, kept, lock, pc, job, count, hist>>

Init ==
  /\ file = [a \in Actors |-> <<>>]
  /\ synced = [a \in Actors |-> 0]
  /\ linked = [a \in Actors |-> "none"]
  /\ evdir = "none"
  /\ home = [v \in Views |-> "none"]
  /\ view = [v \in Views |-> NoFile]
  /\ kept = [v \in Views |-> NoFile]
  /\ lock = None
  /\ pc = [p \in Procs |-> "idle"]
  /\ job = [p \in Procs |-> Idle]
  /\ count = 0
  /\ done = {} /\ settled = {} /\ glued = {} /\ lost = {}

Next ==
  \/ \E p \in Procs :
       \/ Fold(p) \/ AppendRaw(p) \/ ShortWrite(p) \/ SyncFile(p) \/ LinkFile(p)
       \/ Rebuild(p) \/ CreateTemp(p) \/ SyncTemp(p) \/ Rename(p) \/ SyncDir(p)
       \/ Die(p)
  \/ PowerLoss \/ WriteBack

Spec == Init /\ [][Next]_vars

-----------------------------------------------------------------------------
(* Properties *)

(* Every variable keeps its type, and state.lock is held by a process that *)
(* is inside an operation.                                                 *)
TypeOK ==
  /\ file \in [Actors -> Seq(Event \cup {Torn})]
  /\ synced \in [Actors -> 0..MaxEvents + 1]
  /\ linked \in [Actors -> {"none", "cached", "durable"}]
  /\ evdir \in {"none", "cached", "durable"}
  /\ view \in [Views -> Inode] /\ kept \in [Views -> Inode]
  /\ home \in [Views -> {"none", "cached", "durable"}]
  /\ lock \in Procs \cup {None}
  /\ lock # None => pc[lock] # "idle"
  /\ pc \in [Procs -> {"idle"} \cup Steps]
  /\ job \in [Procs -> [ev : Event \cup {None}, actor : Actors \cup {None},
                        view : Views \cup {None}, inode : Inode]]
  /\ count \in 0..MaxEvents
  /\ {done, settled, glued, lost} \subseteq SUBSET Event

(* An event whose append returned is there for every later fold, whatever  *)
(* crashed since: fsync of the file and of events/ before AppendRaw ends.  *)
(* Two things take it all the same: a torn piece it was written behind     *)
(* (LogStaysReadable), and a power failure before events/ itself, which is *)
(* made without an fsync of its parent, got to the disk.                   *)
ReturnedSurvives == done \ (glued \cup lost) \subseteq Folded

(* The log is ahead of the views: what a view file says, also after a      *)
(* power loss, is an event the log still has, or that went with events/.   *)
(* It needs a writer that is not killed between write(2) and the fsyncs:   *)
(* its event can be seen, and a view rebuilt from it, before it is durable.*)
ViewsBackedByLog ==
  \A v \in Views : view[v].n \in 1..MaxEvents =>
    [n |-> view[v].n, view |-> v] \in Folded \cup glued \cup lost

(* No reader ever finds part of a view, and a view whose write returned is *)
(* not rolled back to an older one, unless its directory is lost with it.  *)
ViewsWholeAndKept ==
  \A v \in Views :
    /\ view[v].n # Torn
    /\ \A e \in settled : e.view = v => e.n <= view[v].n

(* A crash leaves at most a torn tail, which a fold skips (log.go; rev3    *)
(* section 4: it is cut off): so the log stays readable.                   *)
LogStaysReadable == FoldOk
=============================================================================
