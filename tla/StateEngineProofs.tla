--------------------------- MODULE StateEngineProofs ---------------------------
(***************************************************************************)
(* What TLAPS proves of StateEngine for every value of its constants.      *)
(* First the reduction: what Latest, Mine and Folded return, and what an   *)
(* appended event does to them.  Then the inductive invariant of the       *)
(* engine and the theorems that follow from it, for any clock.             *)
(***************************************************************************)
EXTENDS StateEngine, TLAPS

-----------------------------------------------------------------------------
(* Last writers *)

(* m is the last element of S in fold order. *)
Top(L, S, m) == m \in S /\ \A k \in S \ {m} : Before(L, k, m)
HasTop(L, S) == \E m \in S : Top(L, S, m)

(* Latest returns the top of a set of events that has one. *)
LEMMA LatestIsTop ==
  ASSUME NEW L \in Seq(Event), NEW S \in SUBSET DOMAIN L, NEW m, Top(L, S, m)
  PROVE  Latest(L, S) = m
<1>1. \A i \in S : L[i].ts \in Int /\ L[i].actor \in Int /\ i \in Int
  <2> TAKE i \in S
  <2>1. i \in Int /\ L[i] \in Event
    OBVIOUS
  <2> QED
    BY <2>1 DEF Event
<1>2. \A i \in S : (\A k \in S \ {i} : Before(L, k, i)) => i = m
  BY <1>1 DEF Top, Before
<1> QED
  BY <1>2 DEF Top, Latest

(* An append leaves the events before it, and their order, alone. *)
LEMMA AppendKeeps ==
  ASSUME NEW L \in Seq(Event), NEW ev \in Event
  PROVE  /\ Append(L, ev) \in Seq(Event)
         /\ DOMAIN Append(L, ev) = DOMAIN L \cup {Len(L) + 1}
         /\ Len(L) + 1 \notin DOMAIN L
         /\ Append(L, ev)[Len(L) + 1] = ev
         /\ \A i \in DOMAIN L : Append(L, ev)[i] = L[i]
         /\ \A i, k \in DOMAIN L : Before(Append(L, ev), i, k) <=> Before(L, i, k)
<1>1. /\ Append(L, ev) \in Seq(Event)
      /\ DOMAIN Append(L, ev) = DOMAIN L \cup {Len(L) + 1}
      /\ Len(L) + 1 \notin DOMAIN L
      /\ Append(L, ev)[Len(L) + 1] = ev
      /\ \A i \in DOMAIN L : Append(L, ev)[i] = L[i]
  OBVIOUS
<1>2. \A i, k \in DOMAIN L : Before(Append(L, ev), i, k) <=> Before(L, i, k)
  BY <1>1 DEF Before
<1> QED
  BY <1>1, <1>2

(* Fold order is total: with one more event the top is the old one or it. *)
LEMMA TopAfterAppend ==
  ASSUME NEW L \in Seq(Event), NEW ev \in Event, NEW S \in SUBSET DOMAIN L,
         S = {} \/ HasTop(L, S)
  PROVE  HasTop(Append(L, ev), S \cup {Len(L) + 1})
<1> DEFINE M == Append(L, ev)
           n == Len(L) + 1
<1>1. /\ M \in Seq(Event) /\ n \notin DOMAIN L
      /\ DOMAIN M = DOMAIN L \cup {n}
      /\ \A i, k \in DOMAIN L : Before(M, i, k) <=> Before(L, i, k)
  BY AppendKeeps
<1> HIDE DEF M
<1>2. \A i \in DOMAIN M : M[i].ts \in Int /\ M[i].actor \in Int /\ i \in Int
  <2> TAKE i \in DOMAIN M
  <2>1. i \in Int /\ M[i] \in Event
    BY <1>1
  <2> QED
    BY <2>1 DEF Event
<1> HIDE DEF n
<1>3. CASE S = {}
  BY <1>3 DEF HasTop, Top, M, n
<1>4. CASE HasTop(L, S)
  <2>1. PICK m \in S : \A k \in S \ {m} : Before(M, k, m)
    BY <1>1, <1>4 DEF HasTop, Top
  <2>2. CASE Before(M, m, n)
    <3>1. ASSUME NEW k \in S
          PROVE  Before(M, k, n)
      <4>1. k = m \/ Before(M, k, m)
        BY <2>1
      <4>2. k \in DOMAIN M /\ m \in DOMAIN M /\ n \in DOMAIN M
        BY <1>1
      <4>3. k \in Int /\ m \in Int /\ n \in Int
        BY <4>2, <1>2
      <4>4. /\ M[k].ts \in Int /\ M[m].ts \in Int /\ M[n].ts \in Int
            /\ M[k].actor \in Int /\ M[m].actor \in Int /\ M[n].actor \in Int
        BY <4>2, <1>2
      <4> QED
        BY <4>1, <4>3, <4>4, <2>2 DEF Before
    <3> QED
      BY <3>1, <1>1 DEF HasTop, Top, M, n
  <2>3. CASE ~Before(M, m, n)
    <3>1. Before(M, n, m)
      BY <1>1, <1>2, <2>3 DEF Before
    <3> QED
      BY <3>1, <2>1 DEF HasTop, Top, M, n
  <2> QED
    BY <2>2, <2>3
<1> QED
  BY <1>3, <1>4

(* A set that has a top keeps it when other events are appended. *)
LEMMA TopKept ==
  ASSUME NEW L \in Seq(Event), NEW ev \in Event, NEW S \in SUBSET DOMAIN L,
         NEW m, Top(L, S, m)
  PROVE  Top(Append(L, ev), S, m)
BY AppendKeeps DEF Top

-----------------------------------------------------------------------------
(* Well-formed logs *)

(* What an appended event must be for the log to stay one Reduce can read  *)
(* field by field: a creation sets every field and finds no entity, a      *)
(* change finds one.                                                       *)
Sound(L, ev) ==
  \/ ev.kind = "violation"
  \/ /\ ev.kind = "created" /\ Mine(L, ev.ent) = {}
     /\ ev.to # None /\ ev.rc # NoCount /\ ev.glob = None
  \/ /\ ev.kind \in {"changed", "extended"} /\ Mine(L, ev.ent) # {}
     /\ ev.job = None /\ ev.reason = None

IsOpening(L, e, c) == c \in Mine(L, e) /\ L[c].kind = "created"

(* Every entity with an event was created once, and each set of its events *)
(* that Reduce takes the last of has a last.                               *)
WellFormedFor(L, e) ==
  Mine(L, e) # {} =>
    /\ \E c \in Mine(L, e) : IsOpening(L, e, c)
    /\ \A c, d \in Mine(L, e) : IsOpening(L, e, c) /\ IsOpening(L, e, d) => c = d
    /\ HasTop(L, Mine(L, e)) /\ HasTop(L, Moved(L, e)) /\ HasTop(L, Counted(L, e))

WellFormed(L) == L \in Seq(Event) /\ \A e \in Entities : WellFormedFor(L, e)

(* The sets Reduce looks at, after an append. *)
LEMMA SetsAfterAppend ==
  ASSUME NEW L \in Seq(Event), NEW ev \in Event, NEW e \in Entities
  PROVE  LET M == Append(L, ev)
             n == Len(L) + 1
             mine == ev.ent = e /\ ev.kind # "violation"
         IN /\ Mine(M, e) = Mine(L, e) \cup (IF mine THEN {n} ELSE {})
            /\ Moved(M, e) = Moved(L, e) \cup (IF mine /\ ev.to # None THEN {n} ELSE {})
            /\ Counted(M, e) = Counted(L, e) \cup (IF mine /\ ev.rc # NoCount THEN {n} ELSE {})
            /\ Widened(M, e) = Widened(L, e) \cup (IF mine /\ ev.glob # None THEN {n} ELSE {})
<1> DEFINE M == Append(L, ev)
           n == Len(L) + 1
           mine == ev.ent = e /\ ev.kind # "violation"
<1>1. /\ DOMAIN M = DOMAIN L \cup {n} /\ n \notin DOMAIN L
      /\ M[n] = ev /\ \A i \in DOMAIN L : M[i] = L[i]
  BY AppendKeeps
<1> HIDE DEF M, n
<1>2. Mine(M, e) = Mine(L, e) \cup (IF mine THEN {n} ELSE {})
  BY <1>1 DEF Mine
<1>3. \A i \in Mine(L, e) : i \in DOMAIN L
  BY DEF Mine
<1>4. Moved(M, e) = Moved(L, e) \cup (IF mine /\ ev.to # None THEN {n} ELSE {})
  BY <1>1, <1>2, <1>3 DEF Moved
<1>5. Counted(M, e) = Counted(L, e) \cup (IF mine /\ ev.rc # NoCount THEN {n} ELSE {})
  BY <1>1, <1>2, <1>3 DEF Counted
<1>6. Widened(M, e) = Widened(L, e) \cup (IF mine /\ ev.glob # None THEN {n} ELSE {})
  BY <1>1, <1>2, <1>3 DEF Widened
<1> QED
  BY <1>2, <1>4, <1>5, <1>6 DEF M, n

LEMMA SetsInDomain ==
  ASSUME NEW L, NEW e
  PROVE  /\ Mine(L, e) \in SUBSET DOMAIN L
         /\ Moved(L, e) \in SUBSET Mine(L, e)
         /\ Counted(L, e) \in SUBSET Mine(L, e)
         /\ Widened(L, e) \in SUBSET Mine(L, e)
BY DEF Mine, Moved, Counted, Widened

(* A set that had a top, or was empty, has one when the new event joins.   *)
LEMMA TopAfterJoin ==
  ASSUME NEW L \in Seq(Event), NEW ev \in Event, NEW S \in SUBSET DOMAIN L,
         NEW N \in SUBSET {Len(L) + 1},
         S = {} \/ HasTop(L, S), S # {} \/ N # {}
  PROVE  HasTop(Append(L, ev), S \cup N)
<1>1. CASE N = {}
  <2>1. S \cup N = S /\ HasTop(L, S)
    BY <1>1
  <2> QED
    BY <2>1, TopKept DEF HasTop
<1>2. CASE N = {Len(L) + 1}
  BY <1>2, TopAfterAppend
<1> QED
  BY <1>1, <1>2

(* A sound append keeps the log well formed. *)
LEMMA WellFormedAppend ==
  ASSUME NEW L, WellFormed(L), NEW ev \in Event, Sound(L, ev)
  PROVE  WellFormed(Append(L, ev))
<1> DEFINE M == Append(L, ev)
           n == Len(L) + 1
<1>0. L \in Seq(Event)
  BY DEF WellFormed
<1>1. /\ M \in Seq(Event) /\ n \notin DOMAIN L
      /\ M[n] = ev /\ \A i \in DOMAIN L : M[i] = L[i]
  BY <1>0, AppendKeeps
<1>2. SUFFICES ASSUME NEW e \in Entities, Mine(M, e) # {}
               PROVE  WellFormedFor(M, e)
  BY <1>1 DEF WellFormed, WellFormedFor
<1> DEFINE mine == ev.ent = e /\ ev.kind # "violation"
           A == IF mine THEN {n} ELSE {}
           B == IF mine /\ ev.to # None THEN {n} ELSE {}
           C == IF mine /\ ev.rc # NoCount THEN {n} ELSE {}
<1>3. /\ Mine(M, e) = Mine(L, e) \cup A
      /\ Moved(M, e) = Moved(L, e) \cup B
      /\ Counted(M, e) = Counted(L, e) \cup C
  BY <1>0, SetsAfterAppend
<1>4. /\ Mine(L, e) \in SUBSET DOMAIN L
      /\ Moved(L, e) \in SUBSET DOMAIN L
      /\ Counted(L, e) \in SUBSET DOMAIN L
      /\ Moved(L, e) \in SUBSET Mine(L, e) /\ Counted(L, e) \in SUBSET Mine(L, e)
  BY SetsInDomain
<1>5. WellFormedFor(L, e)
  BY DEF WellFormed
<1>6. CASE Mine(L, e) = {}
  <2>1. /\ mine /\ ev.kind = "created" /\ ev.to # None /\ ev.rc # NoCount
    BY <1>2, <1>3, <1>6 DEF Sound
  <2>2. /\ Moved(L, e) = {} /\ Counted(L, e) = {}
    BY <1>4, <1>6
  <2>3. Mine(M, e) = {n} /\ A = {n} /\ B = {n} /\ C = {n}
    BY <1>3, <1>6, <2>1
  <2>4. HasTop(M, Mine(M, e)) /\ HasTop(M, Moved(M, e)) /\ HasTop(M, Counted(M, e))
    <3> HIDE DEF A, B, C, M
    <3>1. HasTop(Append(L, ev), Mine(L, e) \cup A)
      BY <1>0, <1>4, <1>6, <2>3, TopAfterJoin
    <3>2. HasTop(Append(L, ev), Moved(L, e) \cup B)
      BY <1>0, <1>4, <2>2, <2>3, TopAfterJoin
    <3>3. HasTop(Append(L, ev), Counted(L, e) \cup C)
      BY <1>0, <1>4, <2>2, <2>3, TopAfterJoin
    <3> QED
      BY <3>1, <3>2, <3>3, <1>3 DEF M
  <2>5. IsOpening(M, e, n) /\ n \in Mine(M, e)
    BY <2>1, <2>3, <1>1 DEF IsOpening
  <2>6. \A c, d \in Mine(M, e) : c = d
    BY <2>3
  <2> HIDE DEF M, n
  <2> QED
    BY <2>4, <2>5, <2>6 DEF WellFormedFor
<1>7. CASE Mine(L, e) # {}
  <2>1. ~(mine /\ ev.kind = "created")
    BY <1>7 DEF Sound
  <2>2. /\ \E c \in Mine(L, e) : IsOpening(L, e, c)
        /\ \A c, d \in Mine(L, e) : IsOpening(L, e, c) /\ IsOpening(L, e, d) => c = d
        /\ HasTop(L, Mine(L, e)) /\ HasTop(L, Moved(L, e)) /\ HasTop(L, Counted(L, e))
    BY <1>5, <1>7 DEF WellFormedFor
  <2>3. Moved(L, e) # {} /\ Counted(L, e) # {}
    BY <2>2 DEF HasTop
  <2>4. HasTop(M, Mine(M, e)) /\ HasTop(M, Moved(M, e)) /\ HasTop(M, Counted(M, e))
    <3>0. A \in SUBSET {n} /\ B \in SUBSET {n} /\ C \in SUBSET {n}
      OBVIOUS
    <3> HIDE DEF A, B, C, M
    <3>1. HasTop(Append(L, ev), Mine(L, e) \cup A)
      BY <1>0, <1>4, <1>7, <2>2, <3>0, TopAfterJoin
    <3>2. HasTop(Append(L, ev), Moved(L, e) \cup B)
      BY <1>0, <1>4, <2>2, <2>3, <3>0, TopAfterJoin
    <3>3. HasTop(Append(L, ev), Counted(L, e) \cup C)
      BY <1>0, <1>4, <2>2, <2>3, <3>0, TopAfterJoin
    <3> QED
      BY <3>1, <3>2, <3>3, <1>3 DEF M
  <2>5. \A c : c \in Mine(M, e) /\ IsOpening(M, e, c)
                <=> c \in Mine(L, e) /\ IsOpening(L, e, c)
    BY <1>1, <1>3, <1>4, <2>1 DEF IsOpening
  <2> HIDE DEF M, n
  <2> QED
    BY <2>2, <2>4, <2>5 DEF WellFormedFor
<1> QED
  BY <1>6, <1>7

-----------------------------------------------------------------------------
(* The reduction of a well-formed log *)

LEMMA FoldedOfSome ==
  ASSUME NEW L, WellFormed(L), NEW e \in Entities, Mine(L, e) # {}
  PROVE  \E i, r, k, c \in Mine(L, e) :
           /\ Top(L, Moved(L, e), i) /\ Top(L, Mine(L, e), r) /\ Top(L, Counted(L, e), k)
           /\ IsOpening(L, e, c)
           /\ Folded(L, e) = [st |-> L[i].to, rev |-> L[r].rev, rc |-> L[k].rc,
                              allowed |-> Added(L, e),
                              job |-> L[c].job, reason |-> L[c].reason]
<1>1. /\ L \in Seq(Event)
      /\ \E c \in Mine(L, e) : IsOpening(L, e, c)
      /\ HasTop(L, Mine(L, e)) /\ HasTop(L, Moved(L, e)) /\ HasTop(L, Counted(L, e))
  BY DEF WellFormed, WellFormedFor
<1>2. PICK i \in Moved(L, e) : Top(L, Moved(L, e), i)
  BY <1>1 DEF HasTop
<1>3. PICK r \in Mine(L, e) : Top(L, Mine(L, e), r)
  BY <1>1 DEF HasTop
<1>4. PICK k \in Counted(L, e) : Top(L, Counted(L, e), k)
  BY <1>1 DEF HasTop
<1>5. /\ Mine(L, e) \in SUBSET DOMAIN L /\ Moved(L, e) \in SUBSET Mine(L, e)
      /\ Counted(L, e) \in SUBSET Mine(L, e)
  BY SetsInDomain
<1>6. Moved(L, e) \in SUBSET DOMAIN L /\ Counted(L, e) \in SUBSET DOMAIN L
  BY <1>5
<1>7. Latest(L, Moved(L, e)) = i
  BY <1>1, <1>2, <1>6, LatestIsTop
<1>8. Latest(L, Mine(L, e)) = r
  BY <1>1, <1>3, <1>5, LatestIsTop
<1>9. Latest(L, Counted(L, e)) = k
  BY <1>1, <1>4, <1>6, LatestIsTop
<1>10. IsOpening(L, e, Opening(L, e)) /\ Opening(L, e) \in Mine(L, e)
  BY <1>1 DEF Opening, IsOpening
<1>11. Folded(L, e) = [st |-> L[i].to, rev |-> L[r].rev, rc |-> L[k].rc,
                       allowed |-> Added(L, e),
                       job |-> L[Opening(L, e)].job, reason |-> L[Opening(L, e)].reason]
  BY <1>7, <1>8, <1>9 DEF Folded
<1> QED
  BY <1>2, <1>3, <1>4, <1>5, <1>10, <1>11

(* What the log says of an entity is a well-typed image. *)
LEMMA FoldedType ==
  ASSUME NEW L, WellFormed(L), NEW e \in Entities
  PROVE  /\ Mine(L, e) = {} => Folded(L, e) = Absent
         /\ Mine(L, e) # {} => Folded(L, e) \in Image
<1>1. CASE Mine(L, e) = {}
  BY <1>1 DEF Folded
<1>2. CASE Mine(L, e) # {}
  <2>1. PICK i, r, k, c \in Mine(L, e) :
           /\ Top(L, Moved(L, e), i) /\ Top(L, Counted(L, e), k)
           /\ Folded(L, e) = [st |-> L[i].to, rev |-> L[r].rev, rc |-> L[k].rc,
                              allowed |-> Added(L, e),
                              job |-> L[c].job, reason |-> L[c].reason]
    BY <1>2, FoldedOfSome
  <2>2. /\ L[i] \in Event /\ L[r] \in Event /\ L[k] \in Event /\ L[c] \in Event
    BY <2>1, SetsInDomain DEF WellFormed
  <2>3. L[i].to # None /\ L[k].rc # NoCount
    BY <2>1 DEF Top, Moved, Counted
  <2>4. Added(L, e) \in SUBSET Globs
    <3>1. ASSUME NEW x \in Widened(L, e)
          PROVE  L[x].glob \in Globs
      <4>1. L[x] \in Event /\ L[x].glob # None
        BY SetsInDomain DEF WellFormed, Widened
      <4> QED
        BY <4>1 DEF Event
    <3> QED
      BY <3>1 DEF Added
  <2>5. /\ L[i].to \in Status /\ L[r].rev \in Nat /\ L[k].rc \in Nat
        /\ L[c].job \in Jobs \cup {None} /\ L[c].reason \in Reasons \cup {None}
    BY <2>2, <2>3 DEF Event
  <2> QED
    BY <1>2, <2>1, <2>4, <2>5 DEF Image
<1> QED
  BY <1>1, <1>2

(* An entity with an image is not absent. *)
LEMMA ImageNotAbsent == Absent \notin Image
BY NoneIsNoStatus DEF Absent, Image

(* Another entity's event, or a policy.violation, does not change an       *)
(* entity's image.                                                         *)
LEMMA FoldedKept ==
  ASSUME NEW L, WellFormed(L), NEW ev \in Event, Sound(L, ev), NEW e \in Entities,
         ev.ent # e \/ ev.kind = "violation"
  PROVE  Folded(Append(L, ev), e) = Folded(L, e)
<1> DEFINE M == Append(L, ev)
<1>0. L \in Seq(Event) /\ WellFormed(M)
  BY WellFormedAppend DEF WellFormed
<1>1. /\ M \in Seq(Event) /\ \A x \in DOMAIN L : M[x] = L[x]
  BY <1>0, AppendKeeps
<1>2. /\ Mine(M, e) = Mine(L, e) /\ Moved(M, e) = Moved(L, e)
      /\ Counted(M, e) = Counted(L, e) /\ Widened(M, e) = Widened(L, e)
  <2>1. ~(ev.ent = e /\ ev.kind # "violation")
    OBVIOUS
  <2>2. /\ Mine(M, e) = Mine(L, e) \cup {} /\ Moved(M, e) = Moved(L, e) \cup {}
        /\ Counted(M, e) = Counted(L, e) \cup {} /\ Widened(M, e) = Widened(L, e) \cup {}
    BY <1>0, <2>1, SetsAfterAppend
  <2> QED
    BY <2>2
<1>3. CASE Mine(L, e) = {}
  BY <1>2, <1>3 DEF Folded
<1>4. CASE Mine(L, e) # {}
  <2>1. PICK i, r, k, c \in Mine(L, e) :
           /\ Top(L, Moved(L, e), i) /\ Top(L, Mine(L, e), r) /\ Top(L, Counted(L, e), k)
           /\ IsOpening(L, e, c)
           /\ Folded(L, e) = [st |-> L[i].to, rev |-> L[r].rev, rc |-> L[k].rc,
                              allowed |-> Added(L, e),
                              job |-> L[c].job, reason |-> L[c].reason]
    BY <1>4, FoldedOfSome
  <2>2. PICK i2, r2, k2, c2 \in Mine(M, e) :
           /\ Top(M, Moved(M, e), i2) /\ Top(M, Mine(M, e), r2)
           /\ Top(M, Counted(M, e), k2) /\ IsOpening(M, e, c2)
           /\ Folded(M, e) = [st |-> M[i2].to, rev |-> M[r2].rev, rc |-> M[k2].rc,
                              allowed |-> Added(M, e),
                              job |-> M[c2].job, reason |-> M[c2].reason]
    <3>1. WellFormed(M) /\ Mine(M, e) # {}
      BY <1>0, <1>2, <1>4
    <3> HIDE DEF M
    <3> QED
      BY <3>1, FoldedOfSome
  <2>3. /\ Mine(L, e) \in SUBSET DOMAIN L /\ Moved(L, e) \in SUBSET DOMAIN L
        /\ Counted(L, e) \in SUBSET DOMAIN L /\ Widened(L, e) \in SUBSET DOMAIN L
        /\ Mine(M, e) \in SUBSET DOMAIN M /\ Moved(M, e) \in SUBSET DOMAIN M
        /\ Counted(M, e) \in SUBSET DOMAIN M
    BY SetsInDomain
  <2>4. /\ Top(M, Moved(M, e), i) /\ Top(M, Mine(M, e), r) /\ Top(M, Counted(M, e), k)
    BY <1>0, <1>2, <2>1, <2>3, TopKept
  <2>5. i = i2 /\ r = r2 /\ k = k2
    BY <1>1, <2>2, <2>3, <2>4, LatestIsTop
  <2>6. IsOpening(M, e, c)
    BY <1>1, <1>2, <2>1, <2>3 DEF IsOpening
  <2>7. c = c2
    BY <1>0, <1>2, <2>1, <2>2, <2>6 DEF WellFormed, WellFormedFor
  <2>8. Added(M, e) = Added(L, e)
    BY <1>1, <1>2, <2>3 DEF Added
  <2>9. M[i2] = L[i] /\ M[r2] = L[r] /\ M[k2] = L[k] /\ M[c2] = L[c]
    BY <1>1, <2>1, <2>3, <2>5, <2>7
  <2> HIDE DEF M
  <2> QED
    BY <2>1, <2>2, <2>8, <2>9 DEF M
<1> QED
  BY <1>3, <1>4

(* The new event sorts after all others. *)
Newest(L, ev) == \A i \in DOMAIN L : L[i].ts < ev.ts

(* What the engine writes is what Reduce will say, when the event it       *)
(* appended is the last in fold order.                                     *)
LEMMA FoldedApplied ==
  ASSUME NEW L, WellFormed(L), NEW ev \in Event, Sound(L, ev), Newest(L, ev),
         ev.kind # "violation"
  PROVE  Folded(Append(L, ev), ev.ent) = Apply(Folded(L, ev.ent), ev)
<1> DEFINE M == Append(L, ev)
           n == Len(L) + 1
           e == ev.ent
<1>0. L \in Seq(Event) /\ WellFormed(M) /\ e \in Entities
  BY WellFormedAppend DEF WellFormed, Event
<1>1. /\ M \in Seq(Event) /\ n \notin DOMAIN L /\ M[n] = ev
      /\ DOMAIN M = DOMAIN L \cup {n} /\ \A x \in DOMAIN L : M[x] = L[x]
  BY <1>0, AppendKeeps
<1>2. /\ Mine(M, e) = Mine(L, e) \cup {n}
      /\ Moved(M, e) = Moved(L, e) \cup (IF ev.to # None THEN {n} ELSE {})
      /\ Counted(M, e) = Counted(L, e) \cup (IF ev.rc # NoCount THEN {n} ELSE {})
      /\ Widened(M, e) = Widened(L, e) \cup (IF ev.glob # None THEN {n} ELSE {})
  BY <1>0, SetsAfterAppend
<1>3. /\ Mine(L, e) \in SUBSET DOMAIN L /\ Moved(L, e) \in SUBSET DOMAIN L
      /\ Counted(L, e) \in SUBSET DOMAIN L /\ Widened(L, e) \in SUBSET DOMAIN L
      /\ Moved(L, e) \in SUBSET Mine(L, e) /\ Counted(L, e) \in SUBSET Mine(L, e)
      /\ Widened(L, e) \in SUBSET Mine(L, e)
      /\ Mine(M, e) \in SUBSET DOMAIN M /\ Moved(M, e) \in SUBSET DOMAIN M
      /\ Counted(M, e) \in SUBSET DOMAIN M
  BY SetsInDomain
<1>4. \A x \in DOMAIN L : Before(M, x, n)
  BY <1>1 DEF Newest, Before
<1>5. PICK i, r, k, c \in Mine(M, e) :
         /\ Top(M, Moved(M, e), i) /\ Top(M, Mine(M, e), r)
         /\ Top(M, Counted(M, e), k) /\ IsOpening(M, e, c)
         /\ Folded(M, e) = [st |-> M[i].to, rev |-> M[r].rev, rc |-> M[k].rc,
                            allowed |-> Added(M, e),
                            job |-> M[c].job, reason |-> M[c].reason]
  <2>1. WellFormed(M) /\ Mine(M, e) # {} /\ e \in Entities
    BY <1>0, <1>2
  <2> HIDE DEF M, e
  <2> QED
    BY <2>1, FoldedOfSome
<1> HIDE DEF M, n, e
<1>6. Top(M, Mine(M, e), n)
  BY <1>2, <1>3, <1>4 DEF Top
<1>7. r = n
  BY <1>1, <1>3, <1>5, <1>6, LatestIsTop
<1>8. ev.to # None => Top(M, Moved(M, e), n)
  BY <1>2, <1>3, <1>4 DEF Top
<1>9. ev.to # None => i = n
  BY <1>1, <1>3, <1>5, <1>8, LatestIsTop
<1>10. ev.rc # NoCount => Top(M, Counted(M, e), n)
  BY <1>2, <1>3, <1>4 DEF Top
<1>11. ev.rc # NoCount => k = n
  BY <1>1, <1>3, <1>5, <1>10, LatestIsTop
<1>12. CASE ev.kind = "created"
  <2>1. /\ Mine(L, e) = {} /\ ev.to # None /\ ev.rc # NoCount /\ ev.glob = None
    BY <1>12 DEF Sound, e
  <2>2. Mine(M, e) = {n} /\ Widened(M, e) = {}
    BY <1>2, <1>3, <2>1
  <2>3. c = n
    BY <1>5, <2>2
  <2>4. Added(M, e) = {}
    BY <2>2 DEF Added
  <2> QED
    BY <1>1, <1>5, <1>7, <1>9, <1>11, <1>12, <2>1, <2>3, <2>4 DEF Apply, M, e
<1>13. CASE ev.kind # "created"
  <2>1. Mine(L, e) # {} /\ ev.kind \in {"changed", "extended"}
    BY <1>13 DEF Sound, e
  <2>2. PICK i0, r0, k0, c0 \in Mine(L, e) :
           /\ Top(L, Moved(L, e), i0) /\ Top(L, Mine(L, e), r0)
           /\ Top(L, Counted(L, e), k0) /\ IsOpening(L, e, c0)
           /\ Folded(L, e) = [st |-> L[i0].to, rev |-> L[r0].rev, rc |-> L[k0].rc,
                              allowed |-> Added(L, e),
                              job |-> L[c0].job, reason |-> L[c0].reason]
    BY <1>0, <2>1, FoldedOfSome
  <2>3. M[i].to = IF ev.to = None THEN L[i0].to ELSE ev.to
    <3>1. CASE ev.to # None
      BY <3>1, <1>1, <1>9
    <3>2. CASE ev.to = None
      <4>1. Moved(M, e) = Moved(L, e)
        BY <1>2, <3>2
      <4>2. Top(M, Moved(M, e), i0)
        BY <4>1, <2>2, <1>0, <1>3, TopKept DEF M
      <4>3. i = i0
        BY <1>1, <1>3, <1>5, <4>2, LatestIsTop
      <4> QED
        BY <4>3, <1>1, <1>3, <2>2, <3>2
    <3> QED
      BY <3>1, <3>2
  <2>4. M[k].rc = IF ev.rc = NoCount THEN L[k0].rc ELSE ev.rc
    <3>1. CASE ev.rc # NoCount
      BY <3>1, <1>1, <1>11
    <3>2. CASE ev.rc = NoCount
      <4>1. Counted(M, e) = Counted(L, e)
        BY <1>2, <3>2
      <4>2. Top(M, Counted(M, e), k0)
        BY <4>1, <2>2, <1>0, <1>3, TopKept DEF M
      <4>3. k = k0
        BY <1>1, <1>3, <1>5, <4>2, LatestIsTop
      <4> QED
        BY <4>3, <1>1, <1>3, <2>2, <3>2
    <3> QED
      BY <3>1, <3>2
  <2>5. IsOpening(M, e, c0)
    BY <1>1, <1>2, <1>3, <2>2 DEF IsOpening
  <2>6. c = c0 /\ M[c] = L[c0]
    <3>1. c = c0
      BY <1>0, <1>2, <1>5, <2>2, <2>5 DEF WellFormed, WellFormedFor
    <3> QED
      BY <3>1, <1>1, <1>3, <2>2
  <2>7. Added(M, e) = Added(L, e) \cup ({ev.glob} \ {None})
    <3>1. CASE ev.glob = None
      BY <3>1, <1>1, <1>2, <1>3 DEF Added
    <3>2. CASE ev.glob # None
      BY <3>2, <1>1, <1>2, <1>3 DEF Added
    <3> QED
      BY <3>1, <3>2
  <2>8. M[r].rev = ev.rev
    BY <1>1, <1>7
  <2>9. Apply(Folded(L, e), ev) =
          [st |-> M[i].to, rev |-> ev.rev, rc |-> M[k].rc,
           allowed |-> Added(M, e),
           job |-> M[c].job, reason |-> M[c].reason]
    BY <1>13, <2>2, <2>3, <2>4, <2>6, <2>7 DEF Apply
  <2> QED
    BY <1>5, <2>8, <2>9 DEF M, e
<1> QED
  BY <1>12, <1>13

(* The image a sound event leaves behind is well typed. *)
LEMMA AppliedType ==
  ASSUME NEW L, WellFormed(L), NEW ev \in Event, Sound(L, ev), ev.kind # "violation"
  PROVE  Apply(Folded(L, ev.ent), ev) \in Image
<1>0. /\ ev.to \in Status \cup {None} /\ ev.rev \in Nat /\ ev.rc \in Nat \cup {NoCount}
      /\ ev.glob \in Globs \cup {None} /\ ev.job \in Jobs \cup {None}
      /\ ev.reason \in Reasons \cup {None} /\ ev.ent \in Entities
  BY DEF Event
<1>1. CASE ev.kind = "created"
  <2>1. ev.to \in Status /\ ev.rc \in Nat
    BY <1>0, <1>1 DEF Sound
  <2> QED
    BY <1>0, <1>1, <2>1 DEF Apply, Image
<1>2. CASE ev.kind # "created"
  <2>1. Mine(L, ev.ent) # {}
    BY <1>2 DEF Sound
  <2>2. Folded(L, ev.ent) \in Image
    BY <1>0, <2>1, FoldedType
  <2> QED
    BY <1>0, <1>2, <2>2 DEF Apply, Image
<1> QED
  BY <1>1, <1>2

-----------------------------------------------------------------------------
(* The inductive invariant *)

(* The arguments a caller may pass. *)
CallOK(c) ==
  /\ c.op \in AllOps
  /\ c.op \in {"create", "move"} => c.ent \in Jobs \cup Tasks
  /\ c.op \in {"recover", "resolve", "extend", "open"} => c.ent \in Jobs
  /\ c.op = "settle" => c.ent \in Gates /\ c.arg \in {"approved", "rejected"}
  /\ c.op \in {"move", "resolve", "settle"} => c.arg \in Status
  /\ c.op = "extend" => c.arg \in Globs
  /\ c.op = "open" => c.arg \in Reasons

(* A process is past the lock exactly while it holds it. *)
LockInv == \A p \in Procs : lock = p <=> pc[p] \in {"folded", "writing"}
CallInv == \A p \in Procs : pc[p] # "idle" => CallOK(call[p])
(* What the lock holder folded is still what the log says. *)
KnownInv == \A p \in Procs : pc[p] = "folded" => known[p] = State(log)
PendingInv == \A p \in Procs : pc[p] # "writing" => pending[p] = {}

IInv == TypeOK /\ LockInv /\ CallInv /\ KnownInv /\ PendingInv /\ WellFormed(log)

LEMMA EmptyLog == WellFormed(<<>>) /\ State(<<>>) = [e \in Entities |-> Absent]
<1>1. \A e : Mine(<<>>, e) = {}
  BY DEF Mine
<1> QED
  BY <1>1 DEF WellFormed, WellFormedFor, State, Folded

LEMMA InitIInv == Init => IInv
<1> SUFFICES ASSUME Init PROVE IInv
  OBVIOUS
<1>1. /\ WellFormed(log) /\ log \in Seq(Event)
      /\ \A p \in Procs : known[p] = [e \in Entities |-> Absent]
  BY EmptyLog DEF Init, WellFormed
<1>2. TypeOK
  <2>1. NoCall \in [op : AllOps \cup {None}, ent : Entities \cup {None},
                   arg : Status \cup Globs \cup Reasons \cup {None}, expect : Nat]
    BY DEF NoCall
  <2> QED
    BY <1>1, <2>1 DEF Init, TypeOK
<1>3. LockInv /\ CallInv /\ KnownInv /\ PendingInv
  BY NoneIsNoProc DEF Init, LockInv, CallInv, KnownInv, PendingInv
<1> QED
  BY <1>1, <1>2, <1>3 DEF IInv

(* What a process that has folded knows of an entity. *)
LEMMA KnownFacts ==
  ASSUME IInv, NEW p \in Procs, pc[p] = "folded", NEW e \in Entities
  PROVE  /\ known[p][e] = Folded(log, e)
         /\ known[p][e] = Absent <=> Mine(log, e) = {}
         /\ known[p][e] # Absent => known[p][e] \in Image
<1>1. known[p][e] = Folded(log, e)
  BY DEF IInv, KnownInv, State
<1>2. WellFormed(log)
  BY DEF IInv
<1> QED
  BY <1>1, <1>2, FoldedType, ImageNotAbsent

LEMMA ActorType == ASSUME NEW op, NEW e PROVE Actor(op, e) \in 0..3
BY DEF Actor

(* The events of the engine's operations are events, and sound ones. *)
LEMMA NewEventOK ==
  ASSUME IInv, NEW p \in Procs, pc[p] = "folded", NEW e \in Entities,
         known[p][e] # Absent, NEW kind \in {"changed", "extended", "violation"},
         NEW to \in Status \cup {None}, NEW rc \in Nat \cup {NoCount},
         NEW glob \in Globs \cup {None}
  PROVE  LET ev == NewEvent(p, kind, e, known[p][e].st, to, rc, glob)
         IN  ev \in Event /\ Sound(log, ev) /\ ev.ent = e /\ ev.kind = kind
<1> DEFINE ev == NewEvent(p, kind, e, known[p][e].st, to, rc, glob)
<1>1. known[p][e] \in Image /\ Mine(log, e) # {}
  BY KnownFacts
<1>2. /\ known[p][e].st \in Status /\ known[p][e].rev \in Nat
      /\ call[p].expect \in Nat /\ clock \in Int
  BY <1>1 DEF Image, IInv, TypeOK
<1>3. ev \in Event
  BY <1>2, ActorType DEF NewEvent, Event
<1>4. /\ ev.ent = e /\ ev.kind = kind /\ ev.job = None /\ ev.reason = None
  BY DEF NewEvent
<1> QED
  BY <1>1, <1>3, <1>4 DEF Sound

(* The same for the events that leave recover_count alone. *)
LEMMA PlainEventOK ==
  ASSUME IInv, NEW p \in Procs, pc[p] = "folded", NEW e \in Entities,
         known[p][e] # Absent, NEW kind \in {"changed", "extended", "violation"},
         NEW to \in Status \cup {None}, NEW glob \in Globs \cup {None}
  PROVE  LET ev == NewEvent(p, kind, e, known[p][e].st, to, NoCount, glob)
         IN  ev \in Event /\ Sound(log, ev) /\ ev.ent = e /\ ev.kind = kind
<1> DEFINE rc == NoCount
<1>1. rc \in Nat \cup {NoCount}
  OBVIOUS
<1> HIDE DEF rc
<1> DEFINE ev == NewEvent(p, kind, e, known[p][e].st, to, rc, glob)
<1>2. ev \in Event /\ Sound(log, ev) /\ ev.ent = e /\ ev.kind = kind
  BY <1>1, NewEventOK
<1> QED
  BY <1>2 DEF rc

LEMMA CreationOK ==
  ASSUME IInv, NEW p \in Procs, pc[p] = "folded", NEW e \in Entities,
         known[p][e] = Absent, NEW v \in Image
  PROVE  LET ev == Creation(p, e, v)
         IN  ev \in Event /\ Sound(log, ev) /\ ev.kind = "created" /\ ev.ent = e
<1> DEFINE ev == Creation(p, e, v)
<1>1. Mine(log, e) = {}
  BY KnownFacts
<1>2. /\ v.st \in Status /\ v.rev \in Nat /\ v.job \in Jobs \cup {None}
      /\ v.reason \in Reasons \cup {None} /\ clock \in Int
  BY DEF Image, IInv, TypeOK
<1>3. ev \in Event
  BY <1>2, ActorType DEF Creation, Event
<1>4. /\ ev.kind = "created" /\ ev.ent = e /\ ev.to = v.st /\ ev.rc = 0 /\ ev.glob = None
  BY DEF Creation
<1> QED
  BY <1>1, <1>2, <1>3, <1>4, NoneIsNoStatus DEF Sound, NoCount

LEMMA FreshType ==
  /\ \A e \in Entities : Fresh(e) \in Image
  /\ \A j \in Jobs, r \in Reasons : OpenedGate(j, r) \in Image
<1>1. ASSUME NEW e \in Entities
      PROVE  Fresh(e) \in Image
  <2>1. FreshStatus(e) \in Status
    BY DEF FreshStatus, Status, JobStatus, TaskPhase
  <2> QED
    BY <2>1 DEF Fresh, Image, Absent
<1>2. ASSUME NEW j \in Jobs, NEW r \in Reasons
      PROVE  OpenedGate(j, r) \in Image
  BY DEF OpenedGate, Image, Absent, Status, GateStatus
<1> QED
  BY <1>1, <1>2

(* AppendRaw stamps the event; that changes nothing the reduction needs. *)
LEMMA StampOK ==
  ASSUME NEW L, NEW ev \in Event, Sound(L, ev), NEW t \in Int
  PROVE  LET e2 == [ev EXCEPT !.ts = t]
         IN  /\ e2 \in Event /\ Sound(L, e2) /\ e2.ts = t /\ e2.ent = ev.ent
             /\ e2.kind = ev.kind /\ e2.rev = ev.rev /\ e2.expect = ev.expect
             /\ e2.from = ev.from /\ e2.to = ev.to
             /\ \A v : Apply(v, e2) = Apply(v, ev)
<1> DEFINE e2 == [ev EXCEPT !.ts = t]
<1>1. e2 \in Event
  BY DEF Event
<1>2. /\ e2.ts = t /\ e2.ent = ev.ent /\ e2.kind = ev.kind /\ e2.rev = ev.rev
      /\ e2.expect = ev.expect /\ e2.from = ev.from /\ e2.to = ev.to /\ e2.rc = ev.rc
      /\ e2.glob = ev.glob /\ e2.job = ev.job /\ e2.reason = ev.reason
  BY DEF Event
<1>3. Sound(L, e2)
  BY <1>2 DEF Sound
<1>4. \A v : Apply(v, e2) = Apply(v, ev)
  BY <1>2 DEF Apply
<1> QED
  BY <1>1, <1>2, <1>3, <1>4

(* Any append of a sound event keeps the log well formed. *)
LEMMA AppendRawKeeps ==
  ASSUME IInv, NEW ev \in Event, Sound(log, ev), AppendRaw(ev)
  PROVE  /\ WellFormed(log') /\ log' \in Seq(Event) /\ clock' \in Int
         /\ \E d \in ClockSteps : /\ clock' = clock + d
                                 /\ log' = Append(log, [ev EXCEPT !.ts = clock + d])
<1>1. PICK d \in ClockSteps : /\ clock' = clock + d
                              /\ log' = Append(log, [ev EXCEPT !.ts = clock + d])
  BY DEF AppendRaw
<1>2. clock \in Int /\ d \in Int
  BY ClockStepsAreInts DEF IInv, TypeOK
<1>3. clock + d \in Int
  BY <1>2
<1>4. [ev EXCEPT !.ts = clock + d] \in Event /\ Sound(log, [ev EXCEPT !.ts = clock + d])
  BY <1>3, StampOK
<1>5. WellFormed(log')
  BY <1>1, <1>4, WellFormedAppend DEF IInv
<1> QED
  BY <1>1, <1>3, <1>5 DEF WellFormed

(* An operation that appends a sound event and now owes its view. *)
LEMMA CommitKeeps ==
  ASSUME IInv, NEW p \in Procs, pc[p] = "folded", NEW ev \in Event,
         Sound(log, ev), ev.kind # "violation", Commit(p, ev)
  PROVE  IInv'
<1>1. /\ AppendRaw(ev) /\ UNCHANGED <<view, lock, call, known, stale>>
      /\ pc' = [pc EXCEPT ![p] = "writing"]
      /\ pending' = [pending EXCEPT ![p] = {<<ev.ent, Apply(known[p][ev.ent], ev)>>}]
  BY DEF Commit
<1>2. WellFormed(log') /\ log' \in Seq(Event) /\ clock' \in Int
  BY <1>1, AppendRawKeeps
<1>3. TypeOK /\ LockInv /\ CallInv /\ PendingInv /\ WellFormed(log)
  BY DEF IInv
<1>4. ev.ent \in Entities /\ Apply(known[p][ev.ent], ev) \in Image
  <2>1. ev.ent \in Entities
    BY DEF Event
  <2> QED
    BY <2>1, <1>3, KnownFacts, AppliedType
<1>5. lock = p /\ \A q \in Procs \ {p} : pc[q] \notin {"folded", "writing"}
  BY <1>3 DEF LockInv
<1>6. TypeOK'
  <2>1. pc' \in [Procs -> {"idle", "waiting", "folded", "writing"}]
    BY <1>1, <1>3 DEF TypeOK
  <2>2. pending' \in [Procs -> SUBSET (Entities \X (Image \cup {Absent}))]
    BY <1>1, <1>3, <1>4 DEF TypeOK
  <2> QED
    BY <1>1, <1>2, <1>3, <2>1, <2>2 DEF TypeOK
<1>7. \A q \in Procs : pc'[q] = IF q = p THEN "writing" ELSE pc[q]
  BY <1>1, <1>3 DEF TypeOK
<1>8. LockInv'
  BY <1>1, <1>3, <1>5, <1>7 DEF LockInv
<1>9. CallInv'
  BY <1>1, <1>3, <1>7 DEF CallInv
<1>10. KnownInv'
  BY <1>5, <1>7 DEF KnownInv
<1>11. PendingInv'
  BY <1>1, <1>3, <1>7 DEF PendingInv, TypeOK
<1> QED
  BY <1>2, <1>6, <1>8, <1>9, <1>10, <1>11 DEF IInv

(* An operation that returns, whatever it wrote before. *)
LEMMA ReturnKeeps ==
  ASSUME IInv, NEW p \in Procs, Return(p), WellFormed(log'), clock' \in Int,
         log' = log \/ pc[p] = "folded",
         view' \in [Entities -> Image \cup {Absent}], stale' \in SUBSET Entities
  PROVE  IInv'
<1>1. /\ lock' = IF lock = p THEN None ELSE lock
      /\ pc' = [pc EXCEPT ![p] = "idle"] /\ call' = [call EXCEPT ![p] = NoCall]
      /\ known' = [known EXCEPT ![p] = State(<<>>)]
      /\ pending' = [pending EXCEPT ![p] = {}]
  BY DEF Return
<1>2. TypeOK /\ LockInv /\ CallInv /\ KnownInv /\ PendingInv
  BY DEF IInv
<1>3. \A q \in Procs : /\ pc'[q] = IF q = p THEN "idle" ELSE pc[q]
                       /\ call'[q] = IF q = p THEN NoCall ELSE call[q]
                       /\ known'[q] = IF q = p THEN State(<<>>) ELSE known[q]
                       /\ pending'[q] = IF q = p THEN {} ELSE pending[q]
  BY <1>1, <1>2 DEF TypeOK
<1>4. TypeOK'
  <2>1. NoCall \in [op : AllOps \cup {None}, ent : Entities \cup {None},
                   arg : Status \cup Globs \cup Reasons \cup {None}, expect : Nat]
    BY DEF NoCall
  <2>2. State(<<>>) \in [Entities -> Image \cup {Absent}]
    BY EmptyLog
  <2>3. call' \in [Procs -> [op : AllOps \cup {None}, ent : Entities \cup {None},
                   arg : Status \cup Globs \cup Reasons \cup {None}, expect : Nat]]
    BY <1>1, <1>2, <2>1 DEF TypeOK
  <2>4. known' \in [Procs -> [Entities -> Image \cup {Absent}]]
    BY <1>1, <1>2, <2>2 DEF TypeOK
  <2>5. pc' \in [Procs -> {"idle", "waiting", "folded", "writing"}]
    BY <1>1, <1>2 DEF TypeOK
  <2>6. pending' \in [Procs -> SUBSET (Entities \X (Image \cup {Absent}))]
    BY <1>1, <1>2 DEF TypeOK
  <2>7. lock' \in Procs \cup {None}
    BY <1>1, <1>2 DEF TypeOK
  <2>8. log' \in Seq(Event)
    BY DEF WellFormed
  <2> QED
    BY <2>3, <2>4, <2>5, <2>6, <2>7, <2>8 DEF TypeOK
<1>5. LockInv'
  BY <1>1, <1>2, <1>3, NoneIsNoProc DEF LockInv
<1>6. CallInv'
  BY <1>2, <1>3 DEF CallInv
<1>7. KnownInv'
  BY <1>2, <1>3 DEF KnownInv, LockInv
<1>8. PendingInv'
  BY <1>2, <1>3 DEF PendingInv
<1> QED
  BY <1>4, <1>5, <1>6, <1>7, <1>8 DEF IInv

(* Requests only asks for what CallOK allows. *)
LEMMA RequestsOK ==
  ASSUME NEW c \in Requests, NEW n \in Nat
  PROVE  /\ CallOK(c) /\ CallOK([c EXCEPT !.expect = n])
         /\ c \in [op : AllOps \cup {None}, ent : Entities \cup {None},
                   arg : Status \cup Globs \cup Reasons \cup {None}, expect : Nat]
         /\ c.op \in CasOps => c.ent \in Entities
<1>1. /\ c = [op |-> c.op, ent |-> c.ent, arg |-> c.arg, expect |-> 0]
      /\ \/ c.op = "create" /\ c.ent \in Jobs \cup Tasks /\ c.arg = None
         \/ c.op = "move" /\ c.ent \in Jobs \cup Tasks /\ c.arg \in JobStatus \cup TaskPhase
         \/ c.op = "recover" /\ c.ent \in Jobs /\ c.arg = None
         \/ c.op = "resolve" /\ c.ent \in Jobs /\ c.arg \in {"cancelled", "created"}
         \/ c.op = "extend" /\ c.ent \in Jobs /\ c.arg \in Globs
         \/ c.op = "open" /\ c.ent \in Jobs /\ c.arg \in Reasons
         \/ c.op = "settle" /\ c.ent \in Gates /\ c.arg \in {"approved", "rejected"}
         \/ c.op = "rebuild" /\ c.ent = None /\ c.arg = None
  BY DEF Requests
<1>2. /\ c.op \in AllOps /\ c.ent \in Entities \cup {None}
      /\ c.arg \in Status \cup Globs \cup Reasons \cup {None}
      /\ c.op \in CasOps => c.ent \in Entities
  BY <1>1 DEF AllOps, CasOps, Entities, Status, JobStatus, GateStatus
<1>3. c \in [op : AllOps \cup {None}, ent : Entities \cup {None},
            arg : Status \cup Globs \cup Reasons \cup {None}, expect : Nat]
  <2>1. [op |-> c.op, ent |-> c.ent, arg |-> c.arg, expect |-> 0]
          \in [op : AllOps \cup {None}, ent : Entities \cup {None},
              arg : Status \cup Globs \cup Reasons \cup {None}, expect : Nat]
    BY <1>2
  <2> QED
    BY <2>1, <1>1
<1>4. CallOK(c)
  BY <1>1, <1>2 DEF CallOK, Status, JobStatus, GateStatus
<1>5. LET d == [c EXCEPT !.expect = n] IN d.op = c.op /\ d.ent = c.ent /\ d.arg = c.arg
  BY <1>3
<1>6. CallOK([c EXCEPT !.expect = n])
  BY <1>4, <1>5 DEF CallOK
<1> QED
  BY <1>2, <1>3, <1>4, <1>6

LEMMA BeginKeeps ==
  ASSUME IInv, NEW p \in Procs, Begin(p)
  PROVE  IInv'
<1>1. PICK c \in Requests :
        /\ call' = [call EXCEPT ![p] =
                      IF c.op \in CasOps THEN [c EXCEPT !.expect = view[c.ent].rev] ELSE c]
        /\ pc[p] = "idle" /\ pc' = [pc EXCEPT ![p] = "waiting"]
        /\ UNCHANGED <<log, clock, view, lock, known, pending, stale>>
  BY DEF Begin
<1> DEFINE d == IF c.op \in CasOps THEN [c EXCEPT !.expect = view[c.ent].rev] ELSE c
           CallType == [op : AllOps \cup {None}, ent : Entities \cup {None},
                        arg : Status \cup Globs \cup Reasons \cup {None}, expect : Nat]
<1>2. TypeOK /\ LockInv /\ CallInv /\ KnownInv /\ PendingInv /\ WellFormed(log)
  BY DEF IInv
<1>3. c.op \in CasOps => view[c.ent].rev \in Nat
  <2>1. ASSUME c.op \in CasOps PROVE view[c.ent] \in Image \cup {Absent}
    BY <2>1, <1>2, RequestsOK DEF TypeOK
  <2> QED
    BY <2>1 DEF Image, Absent
<1>4. CallOK(d) /\ d \in CallType
  <2>1. CASE c.op \in CasOps
    <3>1. c \in CallType /\ CallOK([c EXCEPT !.expect = view[c.ent].rev])
      BY <1>3, <2>1, RequestsOK
    <3>2. [c EXCEPT !.expect = view[c.ent].rev] \in CallType
      BY <1>3, <2>1, <3>1
    <3> QED
      BY <2>1, <3>1, <3>2
  <2>2. CASE c.op \notin CasOps
    BY <2>2, RequestsOK
  <2> QED
    BY <2>1, <2>2
<1> HIDE DEF d
<1>5. call' = [call EXCEPT ![p] = d]
  BY <1>1 DEF d
<1>6. \A q \in Procs : /\ pc'[q] = IF q = p THEN "waiting" ELSE pc[q]
                       /\ call'[q] = IF q = p THEN d ELSE call[q]
  BY <1>1, <1>2, <1>5 DEF TypeOK
<1>7. TypeOK'
  <2>1. call' \in [Procs -> CallType]
    BY <1>2, <1>4, <1>5 DEF TypeOK
  <2>2. pc' \in [Procs -> {"idle", "waiting", "folded", "writing"}]
    BY <1>1, <1>2 DEF TypeOK
  <2> QED
    BY <1>1, <1>2, <2>1, <2>2 DEF TypeOK
<1>8. LockInv' /\ CallInv' /\ KnownInv' /\ PendingInv'
  BY <1>1, <1>2, <1>4, <1>6 DEF LockInv, CallInv, KnownInv, PendingInv
<1>9. WellFormed(log')
  BY <1>1, <1>2
<1> QED
  BY <1>7, <1>8, <1>9 DEF IInv

LEMMA AcquireKeeps ==
  ASSUME IInv, NEW p \in Procs, Acquire(p)
  PROVE  IInv'
<1>1. TypeOK /\ LockInv /\ CallInv /\ KnownInv /\ PendingInv /\ WellFormed(log)
  BY DEF IInv
<1>2. /\ pc[p] = "waiting" /\ lock = None /\ lock' = p
      /\ known' = [known EXCEPT ![p] = State(log)] /\ pc' = [pc EXCEPT ![p] = "folded"]
      /\ UNCHANGED <<log, clock, view, call, pending, stale>>
  BY DEF Acquire
<1>3. \A q \in Procs : /\ pc'[q] = IF q = p THEN "folded" ELSE pc[q]
                       /\ known'[q] = IF q = p THEN State(log) ELSE known[q]
  BY <1>1, <1>2 DEF TypeOK
<1>4. State(log) \in [Entities -> Image \cup {Absent}]
  BY <1>1, FoldedType DEF State
<1>5. TypeOK'
  <2>1. known' \in [Procs -> [Entities -> Image \cup {Absent}]]
    BY <1>1, <1>2, <1>4 DEF TypeOK
  <2>2. pc' \in [Procs -> {"idle", "waiting", "folded", "writing"}]
    BY <1>1, <1>2 DEF TypeOK
  <2> QED
    BY <1>1, <1>2, <2>1, <2>2 DEF TypeOK
<1>6. LockInv'
  BY <1>1, <1>2, <1>3, NoneIsNoProc DEF LockInv
<1>7. KnownInv'
  BY <1>1, <1>2, <1>3, NoneIsNoProc DEF KnownInv, LockInv
<1>8. CallInv' /\ PendingInv' /\ WellFormed(log')
  BY <1>1, <1>2, <1>3 DEF CallInv, PendingInv
<1> QED
  BY <1>5, <1>6, <1>7, <1>8 DEF IInv

(* What an operation records of the image it folded: the revision its      *)
(* caller expected is the current one, the event's own is the next; gates  *)
(* have no revision.                                                       *)
Decided(p, ev) ==
  /\ ev.ent \in Gates => ev.rev = 0
  /\ ev.kind # "created" /\ ev.ent \notin Gates =>
    /\ ev.expect = known[p][ev.ent].rev
    /\ ev.rev = known[p][ev.ent].rev + 1
    /\ ev.from = known[p][ev.ent].st

Operation(p) ==
  \/ Create(p) \/ Move(p) \/ RecoverJob(p) \/ ResolveJob(p) \/ ExtendJobScope(p)
  \/ OpenGateForJob(p) \/ ResolveGate(p)

LEMMA ChangeDecided ==
  ASSUME NEW p, NEW kind, NEW e, NEW to, NEW rc, NEW glob,
         call[p].op \in CasOps => call[p].expect = known[p][e].rev
  PROVE  Decided(p, NewEvent(p, kind, e, known[p][e].st, to, rc, glob))
<1> DEFINE ev == NewEvent(p, kind, e, known[p][e].st, to, rc, glob)
<1>1. /\ ev.ent = e /\ ev.from = known[p][e].st
      /\ ev.expect = IF call[p].op \in CasOps THEN call[p].expect ELSE known[p][e].rev
      /\ ev.rev = IF e \in Gates THEN 0 ELSE known[p][e].rev + 1
  BY DEF NewEvent
<1> HIDE DEF ev
<1>2. Decided(p, ev)
  BY <1>1 DEF Decided
<1> QED
  BY <1>2 DEF ev

(* What an operation's event may do to a gate and to a recover count: a     *)
(* gate is opened where no open one is known, or settled; a count grows by *)
(* one, and goes with a return to created only up to the cap.              *)
Shaped(p, ev) ==
  /\ ev.ent \in Gates =>
       /\ ev.rc \in {0, NoCount} /\ ev.glob = None
       /\ \/ /\ ev.kind = "created"
             /\ \A h \in Gates : known[p][h] # OpenedGate(ev.job, ev.reason)
          \/ ev.kind = "changed" /\ ev.to \in {"approved", "rejected"}
  /\ ev.kind = "created" => ev.rc = 0
  /\ ev.kind # "created" /\ ev.rc # NoCount =>
       ev.rc = known[p][ev.ent].rc + 1 /\ (ev.to = "created" => ev.rc <= MaxRetries)

LEMMA ChangeShaped ==
  ASSUME NEW p, NEW kind, NEW e, NEW to, NEW rc, NEW glob, kind # "created",
         e \in Gates => /\ rc = NoCount /\ glob = None /\ kind = "changed"
                        /\ to \in {"approved", "rejected"},
         rc # NoCount => rc = known[p][e].rc + 1 /\ (to = "created" => rc <= MaxRetries)
  PROVE  Shaped(p, NewEvent(p, kind, e, known[p][e].st, to, rc, glob))
<1> DEFINE ev == NewEvent(p, kind, e, known[p][e].st, to, rc, glob)
<1>1. ev.kind = kind /\ ev.ent = e /\ ev.rc = rc /\ ev.glob = glob /\ ev.to = to
  BY DEF NewEvent
<1> HIDE DEF ev
<1>2. Shaped(p, ev)
  BY <1>1 DEF Shaped
<1> QED
  BY <1>2 DEF ev

(* Every operation appends one sound event, decided on what it folded. *)
LEMMA OperationCommits ==
  ASSUME IInv, NEW p \in Procs, Operation(p)
  PROVE  /\ pc[p] = "folded"
         /\ \E ev \in Event : /\ Sound(log, ev) /\ ev.kind # "violation"
                             /\ Decided(p, ev) /\ Shaped(p, ev) /\ Commit(p, ev)
<1> DEFINE c == call[p]
<1>1. pc[p] = "folded" /\ Accepts(p)
  BY DEF Operation, Create, Move, RecoverJob, ResolveJob, ExtendJobScope,
         OpenGateForJob, ResolveGate, Ready
<1>2. CallOK(c) /\ \A e \in Entities : known[p][e] \in Image \cup {Absent}
  BY <1>1 DEF IInv, TypeOK, CallInv
<1>3. Absent.st = None /\ None \notin Status
  BY NoneIsNoStatus DEF Absent
<1>4. /\ Jobs \subseteq Entities /\ Tasks \subseteq Entities /\ Gates \subseteq Entities
      /\ \A j \in Jobs \cup Tasks : j \notin Gates
  BY EntitiesDistinct DEF Entities
<1>5. None \in Globs \cup {None}
  OBVIOUS
<1>6. CASE Create(p)
  <2>1. /\ c.op = "create" /\ Commit(p, Creation(p, c.ent, Fresh(c.ent)))
    BY <1>6 DEF Create, Ready
  <2>2. c.ent \in Entities /\ c.ent \notin Gates /\ known[p][c.ent] = Absent
    BY <1>1, <1>2, <1>4, <2>1 DEF Accepts, Subject, CallOK
  <2>3. Fresh(c.ent) \in Image
    BY <2>2, FreshType
  <2> DEFINE ev == Creation(p, c.ent, Fresh(c.ent))
  <2>4. ev \in Event /\ Sound(log, ev) /\ ev.kind = "created" /\ ev.ent = c.ent
    BY <1>1, <2>2, <2>3, CreationOK
  <2> HIDE DEF ev
  <2>5. Decided(p, ev)
    BY <2>2, <2>4 DEF Decided
  <2>6. Shaped(p, ev)
    <3>1. ev.rc = 0
      BY DEF ev, Creation
    <3> QED
      BY <2>2, <2>4, <3>1 DEF Shaped
  <2> QED
    BY <1>1, <2>1, <2>4, <2>5, <2>6 DEF ev
<1>7. CASE Move(p)
  <2>1. c.op = "move" /\ Commit(p, Change(p, c.ent, c.arg, NoCount))
    BY <1>7 DEF Move, Ready
  <2>2. c.ent \in Entities /\ CasOk(p) /\ c.arg \in Status
    BY <1>1, <1>2, <1>4, <2>1 DEF Accepts, CallOK
  <2> DEFINE ev == NewEvent(p, "changed", c.ent, known[p][c.ent].st, c.arg, NoCount, None)
  <2>3. ev \in Event /\ Sound(log, ev) /\ ev.kind = "changed"
    <3>1. c.ent \in Entities /\ known[p][c.ent] # Absent /\ c.arg \in Status
      BY <2>2 DEF CasOk, Subject
    <3> QED
      BY <1>1, <3>1, PlainEventOK
  <2>4. Decided(p, ev)
    BY <2>2, ChangeDecided DEF CasOk, Subject
  <2>5. Shaped(p, ev)
    <3>1. c.ent \notin Gates
      BY <1>2, <1>4, <2>1 DEF CallOK
    <3> QED
      BY <3>1, ChangeShaped
  <2> HIDE DEF ev
  <2> QED
    BY <1>1, <2>1, <2>3, <2>4, <2>5 DEF ev, Change
<1>8. CASE RecoverJob(p)
  <2> DEFINE rc == known[p][c.ent].rc + 1
  <2>1. c.op = "recover" /\ Commit(p, Change(p, c.ent, RecoverTarget(rc), rc))
    BY <1>8 DEF RecoverJob, Ready
  <2>2. c.ent \in Entities /\ known[p][c.ent].st = "running"
    BY <1>1, <1>2, <1>4, <2>1 DEF Accepts, Subject, CallOK
  <2>3. known[p][c.ent] # Absent
    BY <2>2, <1>3 DEF Status, JobStatus
  <2>4. rc \in Nat \cup {NoCount} /\ RecoverTarget(rc) \in Status \cup {None}
    <3>1. known[p][c.ent].rc \in Nat
      BY <1>2, <2>2, <2>3 DEF Image
    <3> QED
      BY <3>1 DEF RecoverTarget, Status, JobStatus
  <2> HIDE DEF rc
  <2> DEFINE ev == NewEvent(p, "changed", c.ent, known[p][c.ent].st, RecoverTarget(rc), rc, None)
  <2>5. ev \in Event /\ Sound(log, ev) /\ ev.kind = "changed"
    BY <1>1, <1>5, <2>2, <2>3, <2>4, NewEventOK
  <2>6. Decided(p, ev)
    BY <2>1, ChangeDecided DEF CasOps
  <2>7. Shaped(p, ev)
    <3>1. c.ent \notin Gates
      BY <1>2, <1>4, <2>1 DEF CallOK
    <3>2. RecoverTarget(rc) = "created" => rc <= MaxRetries
      <4>1. rc \in Nat
        BY <1>2, <2>2, <2>3 DEF rc, Image
      <4> QED
        BY <4>1, MaxRetriesIsNat DEF RecoverTarget
    <3>3. rc = known[p][c.ent].rc + 1
      BY DEF rc
    <3> QED
      BY <3>1, <3>2, <3>3, ChangeShaped
  <2> HIDE DEF ev
  <2> QED
    BY <1>1, <2>1, <2>5, <2>6, <2>7 DEF ev, Change
<1>9. CASE ResolveJob(p)
  <2>1. c.op = "resolve" /\ Commit(p, Change(p, c.ent, c.arg, NoCount))
    BY <1>9 DEF ResolveJob, Ready
  <2>2. c.ent \in Entities /\ Resolvable(known[p][c.ent].st, c.arg) /\ c.arg \in Status
    BY <1>1, <1>2, <1>4, <2>1 DEF Accepts, Subject, CallOK
  <2>3. known[p][c.ent] # Absent
    BY <2>2, <1>3 DEF Resolvable, Unfinished, Status, JobStatus
  <2> DEFINE ev == NewEvent(p, "changed", c.ent, known[p][c.ent].st, c.arg, NoCount, None)
  <2>4. ev \in Event /\ Sound(log, ev) /\ ev.kind = "changed"
    BY <1>1, <2>2, <2>3, PlainEventOK
  <2>5. Decided(p, ev)
    BY <2>1, ChangeDecided DEF CasOps
  <2>6. Shaped(p, ev)
    <3>1. c.ent \notin Gates
      BY <1>2, <1>4, <2>1 DEF CallOK
    <3> QED
      BY <3>1, ChangeShaped
  <2> HIDE DEF ev
  <2> QED
    BY <1>1, <2>1, <2>4, <2>5, <2>6 DEF ev, Change
<1>10. CASE ExtendJobScope(p)
  <2> DEFINE ev == NewEvent(p, "extended", c.ent, known[p][c.ent].st, None, NoCount, c.arg)
  <2>1. c.op = "extend" /\ Commit(p, ev)
    BY <1>10 DEF ExtendJobScope, Ready, Subject
  <2>2. c.ent \in Entities /\ CasOk(p) /\ c.arg \in Globs \cup {None}
    BY <1>1, <1>2, <1>4, <2>1 DEF Accepts, CallOK
  <2>3. ev \in Event /\ Sound(log, ev) /\ ev.kind = "extended"
    BY <1>1, <2>2, PlainEventOK DEF CasOk, Subject
  <2>4. Decided(p, ev)
    BY <2>2, ChangeDecided DEF CasOk, Subject
  <2>5. Shaped(p, ev)
    <3>1. c.ent \notin Gates
      BY <1>2, <1>4, <2>1 DEF CallOK
    <3> QED
      BY <3>1, ChangeShaped
  <2> HIDE DEF ev
  <2> QED
    BY <1>1, <2>1, <2>3, <2>4, <2>5
<1>11. CASE OpenGateForJob(p)
  <2>1. c.op = "open"
    BY <1>11 DEF OpenGateForJob, Ready
  <2>2. PICK g \in Gates : /\ MayOpen(p, g)
                           /\ Commit(p, Creation(p, g, OpenedGate(c.ent, c.arg)))
    BY <1>11 DEF OpenGateForJob
  <2>3. c.ent \in Jobs /\ c.arg \in Reasons
    BY <1>2, <2>1 DEF CallOK
  <2>4. OpenedGate(c.ent, c.arg) \in Image
    BY <2>3, FreshType
  <2> DEFINE ev == Creation(p, g, OpenedGate(c.ent, c.arg))
  <2>5. ev \in Event /\ Sound(log, ev) /\ ev.kind = "created"
    BY <1>1, <1>4, <2>2, <2>4, CreationOK DEF MayOpen
  <2>6. ev.rev = 0
    BY DEF Creation, OpenedGate, Absent
  <2> HIDE DEF ev
  <2>7. Decided(p, ev)
    BY <2>5, <2>6 DEF Decided
  <2>8. Shaped(p, ev)
    <3>1. /\ ev.rc = 0 /\ ev.glob = None /\ ev.job = c.ent /\ ev.reason = c.arg
      BY DEF ev, Creation, OpenedGate, Absent
    <3> QED
      BY <2>2, <2>5, <3>1 DEF Shaped, MayOpen
  <2> QED
    BY <1>1, <2>2, <2>5, <2>7, <2>8 DEF ev
<1>12. CASE ResolveGate(p)
  <2>1. c.op = "settle" /\ Commit(p, Change(p, c.ent, c.arg, NoCount))
    BY <1>12 DEF ResolveGate, Ready
  <2>2. c.ent \in Entities /\ known[p][c.ent] # Absent /\ c.arg \in Status
    BY <1>1, <1>2, <1>4, <2>1 DEF Accepts, Subject, CallOK
  <2> DEFINE ev == NewEvent(p, "changed", c.ent, known[p][c.ent].st, c.arg, NoCount, None)
  <2>3. ev \in Event /\ Sound(log, ev) /\ ev.kind = "changed"
    BY <1>1, <2>2, PlainEventOK
  <2>4. Decided(p, ev)
    BY <2>1, ChangeDecided DEF CasOps
  <2>5. Shaped(p, ev)
    <3>1. c.arg \in {"approved", "rejected"}
      BY <1>2, <2>1 DEF CallOK
    <3> QED
      BY <3>1, ChangeShaped
  <2> HIDE DEF ev
  <2> QED
    BY <1>1, <2>1, <2>3, <2>4, <2>5 DEF ev, Change
<1> QED
  BY <1>6, <1>7, <1>8, <1>9, <1>10, <1>11, <1>12 DEF Operation

LEMMA OperationKeeps ==
  ASSUME IInv, NEW p \in Procs, Operation(p)
  PROVE  IInv'
BY OperationCommits, CommitKeeps

(* A refused move appends its policy.violation and returns. *)
LEMMA IllegalMoveKeeps ==
  ASSUME IInv, NEW p \in Procs, IllegalMove(p)
  PROVE  /\ IInv'
         /\ \E ev \in Event : /\ Sound(log, ev) /\ ev.kind = "violation"
                              /\ AppendRaw(ev)
<1> DEFINE c == call[p]
           ev == NewEvent(p, "violation", c.ent, known[p][c.ent].st, None, NoCount, None)
<1>1. /\ pc[p] = "folded" /\ c.op = "move" /\ CasOk(p) /\ AppendRaw(ev)
      /\ Return(p) /\ UNCHANGED <<view, stale>>
  BY DEF IllegalMove, Subject
<1>2. c.ent \in Entities /\ TypeOK
  BY <1>1 DEF IInv, CallInv, CallOK, Entities
<1>3. ev \in Event /\ Sound(log, ev) /\ ev.kind = "violation"
  BY <1>1, <1>2, PlainEventOK DEF CasOk, Subject
<1> HIDE DEF ev
<1>4. WellFormed(log') /\ clock' \in Int
  BY <1>1, <1>3, AppendRawKeeps
<1>5. view' \in [Entities -> Image \cup {Absent}] /\ stale' \in SUBSET Entities
  BY <1>1, <1>2 DEF TypeOK
<1>6. IInv'
  BY <1>1, <1>4, <1>5, ReturnKeeps
<1> QED
  BY <1>1, <1>3, <1>6

(* Returns that append nothing: refusals, failed folds, aborts. *)
LEMMA QuietReturnKeeps ==
  ASSUME IInv, NEW p \in Procs, FoldFails(p) \/ Refuse(p) \/ Abort(p)
  PROVE  IInv'
<1>1. /\ Return(p) /\ UNCHANGED <<log, clock, view>>
      /\ stale' = stale \/ stale' = stale \cup {w[1] : w \in pending[p]}
  BY DEF FoldFails, Refuse, Abort
<1>2. TypeOK /\ WellFormed(log)
  BY DEF IInv
<1>3. pending[p] \in SUBSET (Entities \X (Image \cup {Absent}))
  BY <1>2 DEF TypeOK
<1>4. {w[1] : w \in pending[p]} \in SUBSET Entities
  BY <1>3
<1>5. view' \in [Entities -> Image \cup {Absent}] /\ stale' \in SUBSET Entities
      /\ clock' \in Int /\ WellFormed(log')
  BY <1>1, <1>2, <1>4 DEF TypeOK
<1> QED
  BY <1>1, <1>5, ReturnKeeps

LEMMA RebuildKeeps ==
  ASSUME IInv, NEW p \in Procs, RebuildViews(p)
  PROVE  IInv'
<1>1. /\ pc[p] = "folded" /\ pc' = [pc EXCEPT ![p] = "writing"]
      /\ pending' = [pending EXCEPT ![p] = {<<e, known[p][e]>> : e \in Existing(p)}]
      /\ UNCHANGED <<log, clock, view, lock, call, known, stale>>
  BY DEF RebuildViews, Ready
<1>2. TypeOK /\ LockInv /\ CallInv /\ KnownInv /\ PendingInv /\ WellFormed(log)
  BY DEF IInv
<1>3. {<<e, known[p][e]>> : e \in Existing(p)} \in SUBSET (Entities \X (Image \cup {Absent}))
  BY <1>2 DEF Existing, TypeOK
<1>4. \A q \in Procs : pc'[q] = IF q = p THEN "writing" ELSE pc[q]
  BY <1>1, <1>2 DEF TypeOK
<1>5. TypeOK'
  <2>1. pc' \in [Procs -> {"idle", "waiting", "folded", "writing"}]
    BY <1>1, <1>2 DEF TypeOK
  <2>2. pending' \in [Procs -> SUBSET (Entities \X (Image \cup {Absent}))]
    BY <1>1, <1>2, <1>3 DEF TypeOK
  <2> QED
    BY <1>1, <1>2, <2>1, <2>2 DEF TypeOK
<1>6. LockInv' /\ CallInv' /\ WellFormed(log')
  BY <1>1, <1>2, <1>4 DEF LockInv, CallInv
<1>7. KnownInv'
  BY <1>1, <1>2, <1>4 DEF KnownInv, LockInv, State, Folded
<1>8. PendingInv'
  BY <1>1, <1>2, <1>4 DEF PendingInv, TypeOK
<1> QED
  BY <1>5, <1>6, <1>7, <1>8 DEF IInv

LEMMA WriteViewKeeps ==
  ASSUME IInv, NEW p \in Procs, WriteView(p)
  PROVE  IInv'
<1>1. PICK w \in pending[p] :
        /\ pc[p] = "writing" /\ UNCHANGED <<log, clock>>
        /\ view' = [view EXCEPT ![w[1]] = w[2]] /\ stale' = stale \ {w[1]}
        /\ \/ Return(p)
           \/ /\ pending' = [pending EXCEPT ![p] = @ \ {w}]
              /\ UNCHANGED <<lock, pc, call, known>>
  BY DEF WriteView
<1>2. TypeOK /\ LockInv /\ CallInv /\ KnownInv /\ PendingInv /\ WellFormed(log)
  BY DEF IInv
<1>3. w[1] \in Entities /\ w[2] \in Image \cup {Absent}
  BY <1>2 DEF TypeOK
<1>4. /\ view' \in [Entities -> Image \cup {Absent}] /\ stale' \in SUBSET Entities
      /\ clock' \in Int /\ WellFormed(log')
  BY <1>1, <1>2, <1>3 DEF TypeOK
<1>5. CASE Return(p)
  BY <1>1, <1>4, <1>5, ReturnKeeps
<1>6. CASE /\ pending' = [pending EXCEPT ![p] = @ \ {w}]
           /\ UNCHANGED <<lock, pc, call, known>>
  <2>1. pending' \in [Procs -> SUBSET (Entities \X (Image \cup {Absent}))]
    BY <1>2, <1>6 DEF TypeOK
  <2>2. TypeOK'
    BY <1>1, <1>2, <1>4, <1>6, <2>1 DEF TypeOK
  <2>3. LockInv' /\ CallInv'
    BY <1>2, <1>6 DEF LockInv, CallInv
  <2>4. KnownInv'
    BY <1>1, <1>2, <1>6 DEF KnownInv, State, Folded
  <2>5. PendingInv'
    BY <1>1, <1>2, <1>6 DEF PendingInv, TypeOK
  <2> QED
    BY <1>4, <2>2, <2>3, <2>4, <2>5 DEF IInv
<1> QED
  BY <1>1, <1>5, <1>6

(* Every step of the engine keeps the invariant. *)
LEMMA NextIInv == IInv /\ [Next]_vars => IInv'
<1> SUFFICES ASSUME IInv, [Next]_vars PROVE IInv'
  OBVIOUS
<1>1. CASE UNCHANGED vars
  <2>1. log' = log /\ State(log') = State(log)
    BY <1>1 DEF vars
  <2>2. TypeOK' /\ LockInv' /\ CallInv' /\ PendingInv' /\ WellFormed(log')
    BY <1>1 DEF vars, IInv, TypeOK, LockInv, CallInv, PendingInv
  <2>3. KnownInv'
    BY <1>1, <2>1 DEF vars, IInv, KnownInv
  <2> QED
    BY <2>2, <2>3 DEF IInv
<1>2. CASE Next
  <2>1. PICK p \in Procs : Begin(p) \/ Acquire(p) \/ FoldFails(p) \/ Holder(p) \/ Abort(p)
    BY <1>2 DEF Next
  <2>2. CASE Holder(p)
    BY <2>2, OperationKeeps, RebuildKeeps, IllegalMoveKeeps, QuietReturnKeeps, WriteViewKeeps
    DEF Holder, Operation
  <2> QED
    BY <2>1, <2>2, BeginKeeps, AcquireKeeps, QuietReturnKeeps
<1> QED
  BY <1>1, <1>2

-----------------------------------------------------------------------------
(* Theorems *)

(* In every reachable state of the engine, whatever the clock does and     *)
(* however many processes run, die or fail, every variable has its type:   *)
(* the log is a sequence of events and every view file holds a full image  *)
(* or is missing.                                                          *)
THEOREM TypeCorrect == Spec => []TypeOK
<1>1. Init => IInv
  BY InitIInv
<1>2. IInv /\ [Next]_vars => IInv'
  BY NextIInv
<1>3. IInv => TypeOK
  BY DEF IInv
<1> QED
  BY <1>1, <1>2, <1>3, PTL DEF Spec

(* The log stays one that Reduce can read: each entity is created once, and *)
(* what the lock holder folded is what the log says when it appends.        *)
THEOREM LogWellFormed == Spec => [](WellFormed(log) /\ KnownInv /\ LockInv)
<1>1. Init => IInv
  BY InitIInv
<1>2. IInv /\ [Next]_vars => IInv'
  BY NextIInv
<1>3. IInv => WellFormed(log) /\ KnownInv /\ LockInv
  BY DEF IInv
<1> QED
  BY <1>1, <1>2, <1>3, PTL DEF Spec

-----------------------------------------------------------------------------
(* Gates, for any clock.  A gate is opened on a fold that knows no open    *)
(* one, and no order of its later events makes it open again.              *)

(* A gate's event: the opening, or a decision; no count, no glob.          *)
GateEvent(ev) ==
  ev.ent \in Gates /\ ev.kind # "violation" =>
    /\ ev.rev = 0 /\ ev.rc \in {0, NoCount} /\ ev.glob = None
    /\ ev.kind = "created" \/ (ev.kind = "changed" /\ ev.to \in {"approved", "rejected"})

GateLog(L) == \A i \in DOMAIN L : GateEvent(L[i])

Open(v) == v.st = "open"
SameGate(v, w) == v.st = w.st /\ v.job = w.job /\ v.reason = w.reason

GateImage(st, job, reason) ==
  [st |-> st, rev |-> 0, rc |-> 0, allowed |-> {}, job |-> job, reason |-> reason]

(* The image of an open gate is what OpenGateForJob compares with. *)
LEMMA OpenImage ==
  ASSUME NEW L, WellFormed(L), GateLog(L), NEW g \in Gates, Open(Folded(L, g))
  PROVE  Folded(L, g) = OpenedGate(Folded(L, g).job, Folded(L, g).reason)
<1>1. g \in Entities /\ Mine(L, g) # {}
  BY FoldedType, NoneIsNoStatus DEF Entities, Open, Absent, Status, GateStatus
<1>2. PICK i, r, k, c \in Mine(L, g) :
           /\ Top(L, Moved(L, g), i) /\ Top(L, Mine(L, g), r) /\ Top(L, Counted(L, g), k)
           /\ IsOpening(L, g, c)
           /\ Folded(L, g) = [st |-> L[i].to, rev |-> L[r].rev, rc |-> L[k].rc,
                              allowed |-> Added(L, g),
                              job |-> L[c].job, reason |-> L[c].reason]
  BY <1>1, FoldedOfSome
<1>3. \A x \in Mine(L, g) : /\ L[x].rev = 0 /\ L[x].rc \in {0, NoCount} /\ L[x].glob = None
  BY DEF Mine, GateLog, GateEvent
<1>4. L[r].rev = 0 /\ L[k].rc = 0
  BY <1>2, <1>3 DEF Top, Counted
<1>5. Added(L, g) = {}
  BY <1>3 DEF Added, Widened
<1>6. L[i].to = "open"
  BY <1>2 DEF Open
<1>7. Folded(L, g) = GateImage("open", L[c].job, L[c].reason)
  BY <1>2, <1>4, <1>5, <1>6 DEF GateImage
<1>8. \A j, s : OpenedGate(j, s) = GateImage("open", j, s)
  <2> TAKE j, s
  <2>1. OpenedGate(j, s) = [[[Absent EXCEPT !.st = "open"] EXCEPT !.job = j] EXCEPT !.reason = s]
    BY DEF OpenedGate
  <2>2. [Absent EXCEPT !.st = "open"] = GateImage("open", None, None)
    BY DEF Absent, GateImage
  <2>3. [GateImage("open", None, None) EXCEPT !.job = j] = GateImage("open", j, None)
    BY DEF GateImage
  <2>4. [GateImage("open", j, None) EXCEPT !.reason = s] = GateImage("open", j, s)
    BY DEF GateImage
  <2> QED
    BY <2>1, <2>2, <2>3, <2>4
<1>9. Folded(L, g).job = L[c].job /\ Folded(L, g).reason = L[c].reason
  BY <1>2
<1> QED
  BY <1>7, <1>8, <1>9

(* After an append a gate is open only if it was, or was opened by it. *)
LEMMA OpenAfterAppend ==
  ASSUME NEW L, WellFormed(L), NEW ev \in Event, Sound(L, ev), GateEvent(ev),
         NEW g \in Gates, Open(Folded(Append(L, ev), g))
  PROVE  \/ SameGate(Folded(Append(L, ev), g), Folded(L, g))
         \/ /\ ev.kind = "created" /\ ev.ent = g
            /\ Folded(Append(L, ev), g).job = ev.job
            /\ Folded(Append(L, ev), g).reason = ev.reason
<1> DEFINE M == Append(L, ev)
           n == Len(L) + 1
<1>1. L \in Seq(Event) /\ WellFormed(M) /\ g \in Entities
  BY WellFormedAppend DEF WellFormed, Entities
<1>2. CASE ev.ent # g \/ ev.kind = "violation"
  BY <1>1, <1>2, FoldedKept DEF SameGate
<1>3. CASE ev.ent = g /\ ev.kind # "violation"
  <2>1. /\ M \in Seq(Event) /\ n \notin DOMAIN L /\ M[n] = ev
        /\ \A x \in DOMAIN L : M[x] = L[x]
        /\ \A x, y \in DOMAIN L : Before(M, x, y) <=> Before(L, x, y)
    BY <1>1, AppendKeeps
  <2>2. /\ Mine(M, g) = Mine(L, g) \cup {n}
        /\ Moved(M, g) = Moved(L, g) \cup (IF ev.to # None THEN {n} ELSE {})
    BY <1>1, <1>3, SetsAfterAppend
  <2>3. PICK i, r, k, c \in Mine(M, g) :
           /\ Top(M, Moved(M, g), i) /\ Top(M, Mine(M, g), r) /\ Top(M, Counted(M, g), k)
           /\ IsOpening(M, g, c)
           /\ Folded(M, g) = [st |-> M[i].to, rev |-> M[r].rev, rc |-> M[k].rc,
                              allowed |-> Added(M, g),
                              job |-> M[c].job, reason |-> M[c].reason]
    BY <1>1, <2>2, FoldedOfSome
  <2>4. Folded(M, g).st = "open"
    BY DEF Open
  <2> HIDE DEF M, n
  <2>7. M[i].to = "open"
    BY <2>3, <2>4
  <2>5. CASE ev.kind = "created"
    <3>1. Mine(M, g) = {n}
      BY <1>3, <2>2, <2>5 DEF Sound
    <3>2. M[c] = ev
      BY <2>1, <3>1
    <3>3. Folded(M, g).job = ev.job /\ Folded(M, g).reason = ev.reason
      BY <2>3, <3>2
    <3> QED
      BY <1>3, <2>5, <3>3 DEF M
  <2>6. CASE ev.kind # "created"
    <3>1. ev.to # "open" /\ i # n /\ c # n
      BY <1>3, <2>1, <2>3, <2>6, <2>7 DEF GateEvent, IsOpening
    <3>2. i \in Moved(L, g) /\ c \in Mine(L, g) /\ Mine(L, g) \in SUBSET DOMAIN L
          /\ Moved(L, g) \in SUBSET DOMAIN L
      BY <2>2, <2>3, <3>1 DEF Top, Mine, Moved
    <3>3. Top(L, Moved(L, g), i)
      BY <2>1, <2>2, <2>3, <3>2 DEF Top
    <3>4. IsOpening(L, g, c)
      BY <2>1, <2>3, <3>2 DEF IsOpening
    <3>5. PICK i2, r2, k2, c2 \in Mine(L, g) :
             /\ Top(L, Moved(L, g), i2) /\ Top(L, Mine(L, g), r2)
             /\ Top(L, Counted(L, g), k2) /\ IsOpening(L, g, c2)
             /\ Folded(L, g) = [st |-> L[i2].to, rev |-> L[r2].rev, rc |-> L[k2].rc,
                                allowed |-> Added(L, g),
                                job |-> L[c2].job, reason |-> L[c2].reason]
      BY <1>1, <3>2, FoldedOfSome
    <3>6. i2 = i
      BY <1>1, <3>2, <3>3, <3>5, LatestIsTop
    <3>7. c2 = c
      BY <1>1, <3>2, <3>4, <3>5 DEF WellFormed, WellFormedFor
    <3>8. /\ Folded(M, g).st = M[i].to /\ Folded(M, g).job = M[c].job
          /\ Folded(M, g).reason = M[c].reason
      BY <2>3
    <3>9. /\ Folded(L, g).st = L[i].to /\ Folded(L, g).job = L[c].job
          /\ Folded(L, g).reason = L[c].reason
      BY <3>5, <3>6, <3>7
    <3>10. M[i] = L[i] /\ M[c] = L[c]
      BY <2>1, <3>2
    <3>11. SameGate(Folded(M, g), Folded(L, g))
      BY <3>8, <3>9, <3>10 DEF SameGate
    <3> QED
      BY <3>11 DEF M
  <2> QED
    BY <2>5, <2>6
<1> QED
  BY <1>2, <1>3

-----------------------------------------------------------------------------
(* Steps *)

GInv == GateLog(log) /\ OneOpenGate

(* An event on the log, and what it may do to gates. *)
LEMMA AppendKeepsGates ==
  ASSUME IInv, GInv, NEW ev \in Event, Sound(log, ev), GateEvent(ev),
         ev.kind = "created" /\ ev.ent \in Gates =>
           \A h \in Gates : State(log)[h] # OpenedGate(ev.job, ev.reason),
         NEW e2 \in Event, log' = Append(log, e2), Sound(log, e2),
         e2.kind = ev.kind, e2.ent = ev.ent, e2.job = ev.job, e2.reason = ev.reason,
         GateEvent(e2)
  PROVE  GInv'
<1>1. WellFormed(log) /\ log \in Seq(Event) /\ GateLog(log) /\ OneOpenGate
  BY DEF IInv, TypeOK, GInv
<1>2. GateLog(log')
  <2>1. /\ DOMAIN log' = DOMAIN log \cup {Len(log) + 1} /\ log'[Len(log) + 1] = e2
        /\ \A x \in DOMAIN log : log'[x] = log[x]
    BY <1>1, AppendKeeps
  <2> QED
    BY <1>1, <2>1 DEF GateLog
<1>3. ASSUME NEW g \in Gates, Open(Folded(log', g))
      PROVE  \/ SameGate(Folded(log', g), Folded(log, g))
             \/ /\ ev.kind = "created" /\ ev.ent = g
                /\ Folded(log', g).job = ev.job /\ Folded(log', g).reason = ev.reason
  BY <1>1, <1>3, OpenAfterAppend
<1>4. ASSUME NEW g \in Gates, Open(Folded(log, g)), ev.kind = "created", ev.ent \in Gates,
             Folded(log, g).job = ev.job, Folded(log, g).reason = ev.reason
      PROVE  FALSE
  <2>1. Folded(log, g) = OpenedGate(ev.job, ev.reason)
    BY <1>1, <1>4, OpenImage
  <2>2. State(log)[g] = Folded(log, g)
    BY DEF State, Entities
  <2> QED
    BY <1>4, <2>1, <2>2
<1>5. ASSUME NEW g \in Gates, NEW h \in Gates, Open(Folded(log', g)), Open(Folded(log', h)),
             Folded(log', g).job = Folded(log', h).job,
             Folded(log', g).reason = Folded(log', h).reason
      PROVE  g = h
  <2> DEFINE Kept(x) == SameGate(Folded(log', x), Folded(log, x))
             Opened(x) == /\ ev.kind = "created" /\ ev.ent = x
                          /\ Folded(log', x).job = ev.job /\ Folded(log', x).reason = ev.reason
  <2>1. ASSUME NEW x \in {g, h}, Kept(x)
        PROVE  /\ Open(Folded(log, x)) /\ Folded(log, x).job = Folded(log', x).job
               /\ Folded(log, x).reason = Folded(log', x).reason
    BY <1>5, <2>1 DEF SameGate, Open
  <2>2. ASSUME NEW x \in {g, h}, NEW y \in {g, h}, Opened(x), Kept(y)
        PROVE  FALSE
    <3>1. /\ Open(Folded(log, y)) /\ Folded(log, y).job = Folded(log', y).job
          /\ Folded(log, y).reason = Folded(log', y).reason
      BY <2>1, <2>2
    <3>2. Folded(log', x).job = Folded(log', y).job /\ Folded(log', x).reason = Folded(log', y).reason
      BY <1>5
    <3>3. Folded(log, y).job = ev.job /\ Folded(log, y).reason = ev.reason
      BY <2>2, <3>1, <3>2
    <3>4. ev.ent \in Gates /\ y \in Gates
      BY <2>2
    <3> QED
      BY <1>4, <2>2, <3>1, <3>3, <3>4
  <2>3. CASE Kept(g) /\ Kept(h)
    <3>1. Open(Folded(log, g)) /\ Open(Folded(log, h))
      BY <2>1, <2>3
    <3>2. /\ Folded(log, g).job = Folded(log, h).job
          /\ Folded(log, g).reason = Folded(log, h).reason
      BY <1>5, <2>1, <2>3
    <3> QED
      BY <1>1, <3>1, <3>2 DEF Open, OneOpenGate
  <2>4. (Kept(g) \/ Opened(g)) /\ (Kept(h) \/ Opened(h))
    BY <1>3, <1>5
  <2> QED
    BY <2>2, <2>3, <2>4
<1>6. OneOpenGate'
  BY <1>5 DEF OneOpenGate, Open
<1> QED
  BY <1>2, <1>6 DEF GInv

LEMMA StampedGate ==
  ASSUME IInv, GInv, NEW ev \in Event, Sound(log, ev), GateEvent(ev), AppendRaw(ev),
         ev.kind = "created" /\ ev.ent \in Gates =>
           \A h \in Gates : State(log)[h] # OpenedGate(ev.job, ev.reason)
  PROVE  GInv'
<1>1. PICK d \in ClockSteps : log' = Append(log, [ev EXCEPT !.ts = clock + d])
  BY DEF AppendRaw
<1>2. clock + d \in Int
  BY ClockStepsAreInts DEF IInv, TypeOK
<1>3. PICK t : t = clock + d
  OBVIOUS
<1> DEFINE e2 == [ev EXCEPT !.ts = t]
<1>4. /\ e2.kind = ev.kind /\ e2.ent = ev.ent /\ e2.job = ev.job /\ e2.reason = ev.reason
      /\ e2.rev = ev.rev /\ e2.rc = ev.rc /\ e2.glob = ev.glob /\ e2.to = ev.to
  BY DEF Event
<1>5. e2 \in Event /\ Sound(log, e2)
  BY <1>2, <1>3, StampOK
<1>6. log' = Append(log, e2)
  BY <1>1, <1>3
<1> HIDE DEF e2
<1>7. GateEvent(e2)
  BY <1>4 DEF GateEvent
<1> QED
  BY <1>4, <1>5, <1>6, <1>7, AppendKeepsGates

LEMMA NextGInv == IInv /\ GInv /\ [Next]_vars => GInv'
<1> SUFFICES ASSUME IInv, GInv, [Next]_vars PROVE GInv'
  OBVIOUS
<1>1. CASE UNCHANGED log
  BY <1>1 DEF GInv, GateLog, OneOpenGate
<1>2. ASSUME NEW p \in Procs, Operation(p)
      PROVE  GInv'
  <2>1. PICK ev \in Event : /\ Sound(log, ev) /\ ev.kind # "violation"
                            /\ Decided(p, ev) /\ Shaped(p, ev) /\ Commit(p, ev)
    BY <1>2, OperationCommits
  <2>2. pc[p] = "folded" /\ AppendRaw(ev)
    BY <1>2, <2>1, OperationCommits DEF Commit
  <2>3. known[p] = State(log)
    BY <2>2 DEF IInv, KnownInv
  <2>4. GateEvent(ev)
    BY <2>1 DEF GateEvent, Decided, Shaped
  <2>5. ev.kind = "created" /\ ev.ent \in Gates =>
           \A h \in Gates : State(log)[h] # OpenedGate(ev.job, ev.reason)
    BY <2>1, <2>3 DEF Shaped
  <2> QED
    BY <2>1, <2>2, <2>4, <2>5, StampedGate
<1>3. ASSUME NEW p \in Procs, IllegalMove(p)
      PROVE  GInv'
  <2>1. PICK ev \in Event : Sound(log, ev) /\ ev.kind = "violation" /\ AppendRaw(ev)
    BY <1>3, IllegalMoveKeeps
  <2> QED
    BY <2>1, StampedGate DEF GateEvent
<1> QED
  BY <1>1, <1>2, <1>3 DEF Next, vars, Begin, Acquire, FoldFails, Holder, Operation, Abort,
                          Refuse, RebuildViews, WriteView

(* However many processes find the same job in need of a human, and        *)
(* whatever the clock does to the order in which gate events are folded,   *)
(* OpenGateForJob leaves at most one open gate per job and reason.         *)
THEOREM GatesAreUnique == Spec => []OneOpenGate
<1>1. Init => IInv /\ GInv
  <2> SUFFICES ASSUME Init PROVE GInv
    BY InitIInv
  <2>1. log = <<>> /\ \A g \in Gates : Folded(log, g) = Absent
    BY EmptyLog DEF Init, State, Entities
  <2>2. GateLog(log)
    BY <2>1 DEF GateLog
  <2>3. OneOpenGate
    BY <2>1, NoneIsNoStatus DEF OneOpenGate, Absent, Status, GateStatus
  <2> QED
    BY <2>2, <2>3 DEF GInv
<1>2. IInv /\ GInv /\ [Next]_vars => (IInv /\ GInv)'
  BY NextIInv, NextGInv
<1>3. GInv => OneOpenGate
  BY DEF GInv
<1> QED
  BY <1>1, <1>2, <1>3, PTL DEF Spec

===============================================================================
