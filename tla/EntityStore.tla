----------------------------- MODULE EntityStore -----------------------------
(***************************************************************************)
(* What the state engine promises its callers: one atomic store in which   *)
(* every operation reads the latest value of an entity, changes it by one  *)
(* of the rules of rev3 sections 5, 6, 14 and 15, and moves its revision   *)
(* by exactly one.  No log, no lock, no views, no crash.                   *)
(***************************************************************************)
EXTENDS HarnessModel

VARIABLE ent     \* the current image of every entity

Init == ent = [e \in Entities |-> Absent]

(* Replace entity e's image. *)
Put(e, v) == ent' = [ent EXCEPT ![e] = v]

(* A status change: the next revision, the rest of the image kept. *)
Advance(v, to) == [v EXCEPT !.st = to, !.rev = @ + 1]

Create(e) == ent[e] = Absent /\ Put(e, Fresh(e))

Move(e, to) == Legal(e, ent[e].st, to) /\ Put(e, Advance(ent[e], to))

Recover(j) ==
  LET rc == ent[j].rc + 1
  IN  /\ ent[j].st = "running"
      /\ Put(j, [Advance(ent[j], RecoverTarget(rc)) EXCEPT !.rc = rc])

Resolve(j, to) == Resolvable(ent[j].st, to) /\ Put(j, Advance(ent[j], to))

Extend(j, g) ==
  /\ ent[j] # Absent
  /\ Put(j, [ent[j] EXCEPT !.rev = @ + 1, !.allowed = @ \cup {g}])

(* At most one open gate per job and reason. *)
OpenGate(g, j, r) ==
  /\ ent[g] = Absent
  /\ \A h \in Gates : ent[h] # OpenedGate(j, r)
  /\ Put(g, OpenedGate(j, r))

ResolveGate(g, to) == ent[g] # Absent /\ Put(g, [ent[g] EXCEPT !.st = to])

(* The operations on entity e. *)
Change(e) ==
  \/ e \in Jobs \cup Tasks /\ (Create(e) \/ \E to \in Status : Move(e, to))
  \/ e \in Jobs /\ \/ Recover(e)
                   \/ \E to \in {"cancelled", "created"} : Resolve(e, to)
                   \/ \E g \in Globs : Extend(e, g)
  \/ e \in Gates /\ \/ \E j \in Jobs, r \in Reasons : OpenGate(e, j, r)
                    \/ \E to \in {"approved", "rejected"} : ResolveGate(e, to)

(* (Resolving a gate the way it is resolved changes nothing.) *)
Next == \E e \in Entities : ent'[e] # ent[e] /\ Change(e)

Spec == Init /\ [][Next]_ent
==============================================================================
