------------------------------ MODULE Delivery ------------------------------
(***************************************************************************)
(* What a task's delivery branch promises: it holds jobs an integrate has  *)
(* looked at one after the other and found done, put there in one step.    *)
(* It looks at every job that is done when it begins.  No worktree, no     *)
(* temporary branch, no merges, no leftovers of a killed integrate.  A job *)
(* that is rejected after it was looked at is delivered all the same, but  *)
(* never one that was rejected before, or that was not done.               *)
(***************************************************************************)
EXTENDS HarnessModel

CONSTANT Integrators   \* processes that may integrate the task

VARIABLES
  decided,    \* what has become of every job
  unseen,     \* the jobs an integrate has still to look at
  taken,      \* the jobs it will deliver, or None: no integrate
  delivery,   \* the jobs on the delivery branch, or None
  named       \* does a handoff name the delivery branch?

vars == <<decided, unseen, taken, delivery, named>>

Init ==
  /\ decided = [j \in Jobs |-> "open"]
  /\ unseen = [p \in Integrators |-> {}]
  /\ taken = [p \in Integrators |-> None]
  /\ delivery = None
  /\ named = FALSE

(* A job is done; it is rejected, done or not.  Neither is undone. *)
Decide(j) ==
  /\ \/ decided[j] = "open" /\ decided' = [decided EXCEPT ![j] = "done"]
     \/ decided[j] # "rejected" /\ decided' = [decided EXCEPT ![j] = "rejected"]
  /\ UNCHANGED <<unseen, taken, delivery, named>>

(* An integrate is going to look at every job that is done, *)
Begin(p) ==
  /\ taken[p] = None
  /\ taken' = [taken EXCEPT ![p] = {}]
  /\ \E S \in SUBSET Jobs : /\ {j \in Jobs : decided[j] = "done"} \subseteq S
                            /\ unseen' = [unseen EXCEPT ![p] = S]
  /\ UNCHANGED <<decided, delivery, named>>

(* takes a job if it is done when it looks, *)
Look(p) ==
  /\ \E j \in unseen[p] :
       /\ unseen' = [unseen EXCEPT ![p] = @ \ {j}]
       /\ taken' = [taken EXCEPT ![p] = IF decided[j] = "done" THEN @ \cup {j} ELSE @]
  /\ UNCHANGED <<decided, delivery, named>>

(* and delivers all it has taken, *)
Deliver(p) ==
  /\ taken[p] # None /\ unseen[p] = {}
  /\ delivery' = taken[p]
  /\ taken' = [taken EXCEPT ![p] = None]
  /\ UNCHANGED <<decided, unseen, named>>

(* or nothing. *)
GiveUp(p) ==
  /\ taken[p] # None
  /\ taken' = [taken EXCEPT ![p] = None]
  /\ unseen' = [unseen EXCEPT ![p] = {}]
  /\ UNCHANGED <<decided, delivery, named>>

(* A handoff is written; one that names the branch needs the branch. *)
HandOff ==
  /\ named' \in BOOLEAN
  /\ named' => delivery # None
  /\ UNCHANGED <<decided, unseen, taken, delivery>>

(* (Most of what the program does does not show.) *)
Next ==
  \/ UNCHANGED vars
  \/ \E p \in Integrators : Begin(p) \/ Look(p) \/ Deliver(p) \/ GiveUp(p)
  \/ \E j \in Jobs : Decide(j)
  \/ HandOff

Spec == Init /\ [][Next]_vars
=============================================================================
