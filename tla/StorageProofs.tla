----------------------------- MODULE StorageProofs -----------------------------
(***************************************************************************)
(* TLAPS: the log and the views on disk, for any number of processes,      *)
(* actors and views and any number of events.  Types, and that an event    *)
(* whose append returned is not lost, wherever processes are killed, but   *)
(* with events/ itself before that is on disk; if none is killed between the write and the fsyncs, also that views are    *)
(* backed by the log, whole, and never rolled back behind a write that     *)
(* returned.                                                               *)
(***************************************************************************)
EXTENDS Storage, TLAPS

-----------------------------------------------------------------------------
(* The log *)

Pos(a) == 1..Len(file[a])

(* What is at place i of a file: an event that was written, and glued if   *)
(* and only if it stands behind a torn piece.                              *)
Placed(a, i) ==
  file[a][i] # Torn =>
    /\ file[a][i].n <= count
    /\ file[a][i] \in glued <=> (i > 1 /\ file[a][i-1] = Torn)
    /\ \A x \in lost : x.n < file[a][i].n

LogInv ==
  /\ file \in [Actors -> Seq(Event \cup {Torn})]
  /\ synced \in [Actors -> Nat]
  /\ linked \in [Actors -> {"none", "cached", "durable"}]
  /\ evdir \in {"none", "cached", "durable"}
  /\ count \in 0..MaxEvents
  /\ glued \subseteq Event /\ \A e \in glued : e.n <= count
  /\ lost \subseteq Event /\ \A e \in lost : e.n <= count
  /\ \A a \in Actors : /\ synced[a] <= Len(file[a]) /\ Len(file[a]) <= count
                       /\ file[a] # <<>> => linked[a] # "none"
                       /\ \A i \in Pos(a) : Placed(a, i)

(* A place no power loss takes away but with the whole directory, and the  *)
(* events that have one, or had one in a directory that went.              *)
Kept(a, i) == i \in Pos(a) /\ i <= synced[a] /\ linked[a] = "durable"
Placeful(e) == \E a \in Actors : \E i \in Pos(a) : Kept(a, i) /\ file[a][i] = e
Durable(e) == e \in lost \/ Placeful(e)

KeptStays == /\ lost' = lost
             /\ \A a \in Actors : \A i \in Pos(a) :
                  Kept(a, i) => Kept(a, i)' /\ file'[a][i] = file[a][i]

(* No step but a power loss takes anything away. *)
LogGrows == \A a \in Actors :
              /\ synced'[a] >= synced[a]
              /\ \A i \in Pos(a) : i \in Pos(a)' /\ file'[a][i] = file[a][i]

LEMMA DurableStays == ASSUME KeptStays, NEW e, Durable(e)  PROVE Durable(e)'
<1>1. CASE e \in lost
  BY <1>1 DEF Durable, KeptStays
<1>2. CASE Placeful(e)
  <2>1. PICK a \in Actors : \E i \in Pos(a) : Kept(a, i) /\ file[a][i] = e
    BY <1>2 DEF Placeful
  <2>2. PICK i \in Pos(a) : Kept(a, i) /\ file[a][i] = e
    BY <2>1
  <2>3. Kept(a, i)' /\ file'[a][i] = e
    BY <2>2 DEF KeptStays
  <2> QED
    BY <2>3 DEF Durable, Placeful, Kept
<1> QED
  BY <1>1, <1>2 DEF Durable

LEMMA EventTyped ==
  /\ \A e \in Event : e # Torn /\ e.n \in 1..MaxEvents /\ e.view \in Views \cup {None}
  /\ Torn \notin 0..MaxEvents
BY TornIsNoData DEF Event

LEMMA PlaceTyped ==
  ASSUME LogInv, NEW a \in Actors, NEW i \in Pos(a)
  PROVE  /\ file[a][i] \in Event \cup {Torn} /\ i \in Nat /\ i >= 1 /\ i <= Len(file[a])
         /\ Placed(a, i)
<1>1. file[a] \in Seq(Event \cup {Torn})
  BY DEF LogInv
<1> QED
  BY <1>1 DEF LogInv, Pos

(* write(2) of a record or of a piece of it. *)
LEMMA WriteStep ==
  ASSUME LogInv, NEW p \in Procs, NEW a \in Actors, NEW v \in Views \cup {None},
         NEW chunk \in {NextEvent(v), Torn}, count < MaxEvents,
         Write(p, a, NextEvent(v), chunk)
  PROVE  /\ LogInv' /\ LogGrows /\ KeptStays /\ NextEvent(v) \in Event
         /\ chunk = NextEvent(v) => \E i \in Pos(a)' : file'[a][i] = NextEvent(v)
         /\ \A b \in Actors : \A i \in Pos(b)' :
               file'[b][i] # Torn /\ i \notin Pos(b) =>
                 b = a /\ file'[b][i] = NextEvent(v) /\ chunk = NextEvent(v)
<1>1. PICK N : N = count + 1 /\ N \in 1..MaxEvents /\ N > count /\ count \in Nat
  BY MaxEventsIsNat DEF LogInv
<1>2. PICK e \in Event : e = NextEvent(v) /\ e.n = N /\ e.view = v
  BY <1>1 DEF NextEvent, Event
<1>3. PICK s \in Seq(Event \cup {Torn}) : s = file[a]
  BY DEF LogInv
<1>4. /\ file' = [file EXCEPT ![a] = Append(s, chunk)]
      /\ linked' = [linked EXCEPT ![a] = IF linked[a] = "none" THEN "cached" ELSE linked[a]]
      /\ evdir' = (IF evdir = "none" THEN "cached" ELSE evdir)
      /\ count' = N /\ UNCHANGED <<synced, lost>>
      /\ glued' = IF chunk = e /\ s # <<>> /\ s[Len(s)] = Torn THEN glued \cup {e} ELSE glued
  BY <1>1, <1>2, <1>3 DEF Write, Made
<1>5. /\ file'[a] = Append(s, chunk) /\ \A b \in Actors \ {a} : file'[b] = file[b]
      /\ linked'[a] # "none" /\ (linked[a] = "durable" => linked'[a] = "durable")
      /\ \A b \in Actors \ {a} : linked'[b] = linked[b]
  BY <1>4 DEF LogInv
<1>6. /\ Len(file'[a]) = Len(s) + 1 /\ file'[a][Len(s) + 1] = chunk
      /\ \A i \in 1..Len(s) : file'[a][i] = s[i]
      /\ Len(s) \in Nat /\ file'[a] \in Seq(Event \cup {Torn})
  BY <1>2, <1>3, <1>5
<1>7. LogGrows
  BY <1>3, <1>4, <1>5, <1>6 DEF LogGrows, LogInv, Pos
<1>8. KeptStays
  BY <1>3, <1>4, <1>5, <1>6, <1>7 DEF LogGrows, KeptStays, Kept, LogInv, Pos
<1>9. /\ file' \in [Actors -> Seq(Event \cup {Torn})]
      /\ linked' \in [Actors -> {"none", "cached", "durable"}]
      /\ evdir' \in {"none", "cached", "durable"}
  BY <1>2, <1>3, <1>4 DEF LogInv
<1>10. /\ e \notin glued /\ glued' \subseteq Event /\ \A x \in glued' : x.n <= N
       /\ lost' \subseteq Event /\ \A x \in lost' : x.n <= N /\ x.n < e.n
  BY <1>1, <1>2, <1>4, EventTyped DEF LogInv
<1>11. \A x : x # e => (x \in glued' <=> x \in glued)
  BY <1>4
<1>12. ASSUME NEW b \in Actors, NEW i \in Pos(b)'
       PROVE  Placed(b, i)'
  <2>1. CASE i \in Pos(b)
    <3>1. Placed(b, i) /\ file[b][i] \in Event \cup {Torn} /\ i \in 1..Len(file[b])
      BY <2>1, PlaceTyped DEF Pos
    <3>2. file'[b][i] = file[b][i]
      BY <1>7, <2>1 DEF LogGrows
    <3>3. i > 1 => file'[b][i-1] = file[b][i-1]
      <4>1. i > 1 => i - 1 \in Pos(b)
        BY <3>1 DEF Pos
      <4> QED
        BY <1>7, <4>1 DEF LogGrows
    <3>4. file[b][i] # Torn => file[b][i] # e /\ file[b][i].n <= N
      BY <1>1, <1>2, <3>1, EventTyped DEF Placed
    <3> QED
      BY <1>4, <1>11, <3>1, <3>2, <3>3, <3>4 DEF Placed
  <2>2. CASE i \notin Pos(b)
    <3>1. b = a /\ i = Len(s) + 1 /\ file'[b][i] = chunk
      BY <1>3, <1>5, <1>6, <2>2 DEF Pos
    <3>2. CASE chunk = Torn
      BY <3>1, <3>2 DEF Placed
    <3>3. CASE chunk = e
      <4>1. s # <<>> <=> i > 1
        BY <1>6, <3>1
      <4>2. i > 1 => file'[b][i-1] = s[Len(s)]
        BY <1>6, <3>1
      <4> QED
        BY <1>1, <1>2, <1>4, <1>10, <3>1, <3>3, <4>1, <4>2, EventTyped DEF Placed
    <3> QED
      BY <1>2, <3>2, <3>3
  <2> QED
    BY <2>1, <2>2
<1>13. LogInv'
  <2>1. \A b \in Actors : /\ synced'[b] <= Len(file'[b]) /\ Len(file'[b]) <= N
                          /\ file'[b] # <<>> => linked'[b] # "none"
    <3> SUFFICES ASSUME NEW b \in Actors
                 PROVE  /\ synced'[b] <= Len(file'[b]) /\ Len(file'[b]) <= N
                        /\ file'[b] # <<>> => linked'[b] # "none"
      OBVIOUS
    <3>1. synced[b] \in Nat /\ synced[b] <= Len(file[b]) /\ Len(file[b]) <= count
          /\ (file[b] # <<>> => linked[b] # "none") /\ Len(file[b]) \in Nat
      BY DEF LogInv
    <3>2. CASE b = a
      BY <1>1, <1>3, <1>4, <1>5, <1>6, <3>1, <3>2
    <3>3. CASE b # a
      BY <1>1, <1>4, <1>5, <3>1, <3>3
    <3> QED
      BY <3>2, <3>3
  <2> QED
    BY <1>1, <1>4, <1>9, <1>10, <1>12, <2>1 DEF LogInv
<1>14. chunk = e => Len(s) + 1 \in Pos(a)' /\ file'[a][Len(s) + 1] = e
  BY <1>6 DEF Pos
<1>15. \A b \in Actors : \A i \in Pos(b)' :
          file'[b][i] # Torn /\ i \notin Pos(b) => b = a /\ file'[b][i] = e /\ chunk = e
  BY <1>2, <1>3, <1>5, <1>6 DEF Pos
<1> QED
  BY <1>2, <1>7, <1>8, <1>13, <1>14, <1>15

LEMMA SameLog ==
  ASSUME LogInv, UNCHANGED <<log, count, glued, lost>>
  PROVE  LogInv' /\ LogGrows /\ KeptStays
<1>1. UNCHANGED <<file, synced, linked, evdir, count, glued, lost>>
  BY DEF log
<1>2. LogInv'
  BY <1>1 DEF LogInv, Pos, Placed
<1> QED
  BY <1>1, <1>2 DEF LogGrows, KeptStays, Kept, Pos, LogInv

LEMMA SyncStep ==
  ASSUME LogInv, NEW a \in Actors, synced' = [synced EXCEPT ![a] = Len(file[a])],
         UNCHANGED <<file, linked, evdir, count, glued, lost>>
  PROVE  /\ LogInv' /\ LogGrows /\ KeptStays
         /\ \A i \in Pos(a) : i <= synced'[a]
<1>1. PICK n \in Nat : n = Len(file[a])
  BY DEF LogInv
<1>2. synced'[a] = n /\ \A b \in Actors \ {a} : synced'[b] = synced[b]
  BY <1>1 DEF LogInv
<1>3. synced' \in [Actors -> Nat]
  BY <1>1 DEF LogInv
<1>4. \A b \in Actors : synced'[b] >= synced[b] /\ synced'[b] <= Len(file[b])
  BY <1>1, <1>2 DEF LogInv
<1>5. LogInv'
  BY <1>3, <1>4 DEF LogInv, Pos, Placed
<1>6. LogGrows
  BY <1>4 DEF LogGrows, Pos
<1>7. KeptStays
  <2>1. ASSUME NEW b \in Actors, NEW i \in Pos(b), Kept(b, i)  PROVE Kept(b, i)'
    <3>1. synced[b] \in Nat /\ synced'[b] \in Nat /\ i \in Nat
      BY <1>3 DEF LogInv, Pos
    <3> QED
      BY <1>4, <2>1, <3>1 DEF Kept, Pos
  <2> QED
    BY <2>1 DEF KeptStays
<1>8. \A i \in Pos(a) : i <= synced'[a]
  BY <1>1, <1>2 DEF Pos
<1> QED
  BY <1>5, <1>6, <1>7, <1>8

LEMMA LinkStep ==
  ASSUME LogInv, linked' = Linked, UNCHANGED <<file, synced, evdir, count, glued, lost>>
  PROVE  /\ LogInv' /\ LogGrows /\ KeptStays
         /\ \A a \in Actors : file[a] # <<>> => linked'[a] = "durable"
<1>1. /\ linked' \in [Actors -> {"none", "cached", "durable"}]
      /\ \A a \in Actors : linked'[a] = IF linked[a] = "cached" THEN "durable" ELSE linked[a]
  BY DEF LogInv, Linked
<1>2. LogInv'
  BY <1>1 DEF LogInv, Pos, Placed
<1>3. LogGrows
  BY DEF LogGrows, Pos, LogInv
<1>4. KeptStays
  BY <1>1 DEF KeptStays, Kept, Pos
<1>5. \A a \in Actors : file[a] # <<>> => linked'[a] = "durable"
  BY <1>1 DEF LogInv
<1> QED
  BY <1>2, <1>3, <1>4, <1>5

(* What a power loss leaves of a file is durable, and was there, but for a *)
(* torn tail.                                                              *)
LEMMA SurvivorParts ==
  ASSUME LogInv, NEW a \in Actors, NEW g \in Survivors(a)
  PROVE  /\ g \in Seq(Event \cup {Torn}) /\ Len(g) <= Len(file[a]) /\ Len(g) \in Nat
         /\ \A i \in 1..Len(g) : g[i] = file[a][i] \/ (g[i] = Torn /\ i = Len(g))
         /\ \A i \in Pos(a) : Kept(a, i) => i \in 1..Len(g) /\ g[i] = file[a][i]
         /\ g = <<>> \/ linked[a] # "none"
<1>1. /\ file[a] \in Seq(Event \cup {Torn}) /\ synced[a] \in Nat
      /\ synced[a] <= Len(file[a]) /\ Len(file[a]) \in Nat
      /\ (file[a] # <<>> => linked[a] # "none")
  BY DEF LogInv
<1>2. CASE \E k \in synced[a]..Len(file[a]) : g = SubSeq(file[a], 1, k)
  <2>1. PICK k \in synced[a]..Len(file[a]) : g = SubSeq(file[a], 1, k)
    BY <1>2
  <2>2. k \in Nat /\ k <= Len(file[a]) /\ k >= synced[a]
    BY <1>1
  <2>3. /\ g \in Seq(Event \cup {Torn}) /\ Len(g) = k
        /\ \A i \in 1..k : g[i] = file[a][i]
    BY <1>1, <2>1, <2>2
  <2>4. g = <<>> \/ file[a] # <<>>
    BY <1>1, <2>2, <2>3
  <2> QED
    BY <1>1, <2>2, <2>3, <2>4 DEF Kept, Pos
<1>3. CASE \E k \in synced[a]..(Len(file[a]) - 1) : g = Append(SubSeq(file[a], 1, k), Torn)
  <2>1. PICK k \in synced[a]..(Len(file[a]) - 1) : g = Append(SubSeq(file[a], 1, k), Torn)
    BY <1>3
  <2>2. k \in Nat /\ k < Len(file[a]) /\ k >= synced[a]
    BY <1>1
  <2>3. PICK h : h = SubSeq(file[a], 1, k)
    OBVIOUS
  <2>4. /\ h \in Seq(Event \cup {Torn}) /\ Len(h) = k
        /\ \A i \in 1..k : h[i] = file[a][i]
    BY <1>1, <2>2, <2>3
  <2>5. /\ g \in Seq(Event \cup {Torn}) /\ Len(g) = k + 1 /\ g[k + 1] = Torn
        /\ \A i \in 1..k : g[i] = h[i]
    BY <2>1, <2>2, <2>3, <2>4
  <2>6. file[a] # <<>>
    BY <1>1, <2>2
  <2> QED
    BY <1>1, <2>2, <2>4, <2>5, <2>6 DEF Kept, Pos
<1>4. CASE g = <<>> /\ linked[a] # "durable"
  <2>1. Len(g) = 0 /\ g \in Seq(Event \cup {Torn})
    BY <1>4
  <2> QED
    BY <1>1, <1>4, <2>1 DEF Kept, Pos
<1> QED
  BY <1>2, <1>3, <1>4 DEF Survivors

LEMMA LogLeftStep ==
  ASSUME LogInv, LogLeft, UNCHANGED <<count, glued>>
  PROVE  /\ LogInv' /\ KeptStays
         /\ \A a \in Actors : \A i \in Pos(a)' : Kept(a, i)'
<1>1. PICK f \in [Actors -> UNION {Survivors(a) : a \in Actors}] :
         /\ \A a \in Actors : f[a] \in Survivors(a)
         /\ file' = f
         /\ synced' = [a \in Actors |-> Len(f[a])]
         /\ linked' = [a \in Actors |-> IF f[a] = <<>> /\ linked[a] # "durable" THEN "none"
                                        ELSE "durable"]
  BY Zenon DEF LogLeft
<1>2. UNCHANGED <<count, glued, lost>> /\ evdir' \in {"none", "cached", "durable"}
  BY DEF LogLeft, LogInv
<1>3. ASSUME NEW a \in Actors
      PROVE  /\ file'[a] \in Seq(Event \cup {Torn}) /\ Len(file'[a]) <= Len(file[a])
             /\ Len(file'[a]) \in Nat /\ synced'[a] = Len(file'[a])
             /\ \A i \in 1..Len(file'[a]) :
                   file'[a][i] = file[a][i] \/ (file'[a][i] = Torn /\ i = Len(file'[a]))
             /\ \A i \in Pos(a) :
                   Kept(a, i) => i \in 1..Len(file'[a]) /\ file'[a][i] = file[a][i]
             /\ linked'[a] = IF file'[a] = <<>> /\ linked[a] # "durable" THEN "none"
                                                                         ELSE "durable"
  <2>1. PICK g \in Survivors(a) : g = f[a]
    BY <1>1
  <2>2. file'[a] = g /\ synced'[a] = Len(g)
        /\ linked'[a] = IF g = <<>> /\ linked[a] # "durable" THEN "none" ELSE "durable"
    BY <1>1, <2>1
  <2>3. /\ g \in Seq(Event \cup {Torn}) /\ Len(g) <= Len(file[a]) /\ Len(g) \in Nat
        /\ \A i \in 1..Len(g) : g[i] = file[a][i] \/ (g[i] = Torn /\ i = Len(g))
        /\ \A i \in Pos(a) : Kept(a, i) => i \in 1..Len(g) /\ g[i] = file[a][i]
    BY SurvivorParts
  <2>4. g = file'[a]
    BY <2>2
  <2> QED
    BY <2>2, <2>3, <2>4
<1>4. /\ file' \in [Actors -> Seq(Event \cup {Torn})]
      /\ synced' \in [Actors -> Nat]
      /\ linked' \in [Actors -> {"none", "cached", "durable"}]
  BY <1>1, <1>3
<1>5. ASSUME NEW a \in Actors, NEW i \in Pos(a)'  PROVE Placed(a, i)'
  <2>1. /\ i \in Pos(a) /\ i \in Nat /\ i <= Len(file'[a])
        /\ Len(file[a]) \in Nat /\ Len(file'[a]) \in Nat
    BY <1>3 DEF Pos, LogInv
  <2>2. Placed(a, i)
    BY <2>1, PlaceTyped
  <2>3. CASE file'[a][i] # Torn
    <3>1. file'[a][i] = file[a][i]
      BY <1>3, <2>1, <2>3 DEF Pos
    <3>2. i > 1 => file'[a][i-1] = file[a][i-1]
      <4>1. i > 1 => i - 1 \in 1..Len(file'[a]) /\ i - 1 # Len(file'[a])
        BY <2>1
      <4> QED
        BY <1>3, <4>1
    <3> QED
      BY <1>2, <2>2, <3>1, <3>2 DEF Placed
  <2> QED
    BY <2>3 DEF Placed
<1>6. \A a \in Actors : \A i \in Pos(a)' : Kept(a, i)'
  <2> SUFFICES ASSUME NEW a \in Actors, NEW i \in Pos(a)' PROVE Kept(a, i)'
    OBVIOUS
  <2>1. file'[a] # <<>> /\ i <= synced'[a]
    BY <1>3 DEF Pos
  <2> QED
    BY <1>3, <2>1 DEF Kept
<1>7. KeptStays
  BY <1>2, <1>3, <1>6 DEF KeptStays, Pos
<1>8. LogInv'
  <2>1. \A a \in Actors : /\ synced'[a] <= Len(file'[a]) /\ Len(file'[a]) <= count
                          /\ file'[a] # <<>> => linked'[a] # "none"
    <3> SUFFICES ASSUME NEW a \in Actors
                 PROVE  /\ synced'[a] <= Len(file'[a]) /\ Len(file'[a]) <= count
                        /\ file'[a] # <<>> => linked'[a] # "none"
      OBVIOUS
    <3>1. Len(file[a]) \in Nat /\ Len(file[a]) <= count /\ count \in Nat
      BY DEF LogInv
    <3> QED
      BY <1>3, <3>1
  <2> QED
    BY <1>2, <1>4, <1>5, <2>1 DEF LogInv
<1> QED
  BY <1>6, <1>7, <1>8

(* The events that go with events/ are remembered as lost. *)
LEMMA LogGoneStep ==
  ASSUME LogInv, LogGone, UNCHANGED <<count, glued>>
  PROVE  /\ LogInv'
         /\ \A e : Durable(e) /\ e \in Event => Durable(e)'
         /\ \A a \in Actors : Pos(a)' = {}
<1>1. PICK gone : /\ gone = {e \in Event : \E a \in Actors : \E i \in DOMAIN file[a] : file[a][i] = e}
                  /\ lost' = lost \cup gone
  BY DEF LogGone
<1>2. \A a \in Actors : file'[a] = <<>> /\ synced'[a] = 0 /\ linked'[a] = "none"
  BY DEF LogGone
<1>3. \A a \in Actors : Len(file'[a]) = 0 /\ Pos(a)' = {}
  BY <1>2 DEF Pos
<1>4. ASSUME NEW e \in gone  PROVE e \in Event /\ e.n <= count
  <2>1. PICK a \in Actors : \E i \in DOMAIN file[a] : file[a][i] = e
    BY <1>1
  <2>2. PICK i \in DOMAIN file[a] : file[a][i] = e
    BY <2>1
  <2>3. file[a] \in Seq(Event \cup {Torn})
    BY DEF LogInv
  <2>4. i \in Pos(a) /\ e \in Event /\ e # Torn
    BY <1>1, <2>2, <2>3, EventTyped DEF Pos
  <2> QED
    BY <2>2, <2>4, PlaceTyped DEF Placed
<1>5. LogInv'
  <2>1. /\ file' \in [Actors -> Seq(Event \cup {Torn})] /\ synced' \in [Actors -> Nat]
        /\ linked' \in [Actors -> {"none", "cached", "durable"}] /\ evdir' = "none"
    BY DEF LogGone
  <2>2. lost' \subseteq Event /\ \A e \in lost' : e.n <= count
    BY <1>1, <1>4 DEF LogInv
  <2> QED
    BY <1>2, <1>3, <2>1, <2>2 DEF LogInv
<1>6. ASSUME NEW e \in Event, Durable(e)  PROVE e \in lost'
  <2>1. CASE e \in lost
    BY <1>1, <2>1
  <2>2. CASE Placeful(e)
    <3>1. PICK a \in Actors : \E i \in Pos(a) : file[a][i] = e
      BY <2>2 DEF Placeful
    <3>2. PICK i \in Pos(a) : file[a][i] = e
      BY <3>1
    <3>3. file[a] \in Seq(Event \cup {Torn})
      BY DEF LogInv
    <3>4. i \in DOMAIN file[a]
      BY <3>3 DEF Pos
    <3> QED
      BY <1>1, <3>2, <3>4
  <2> QED
    BY <1>6, <2>1, <2>2 DEF Durable
<1> QED
  BY <1>3, <1>5, <1>6 DEF Durable

LEMMA PowerLossLog ==
  ASSUME LogInv, PowerLoss
  PROVE  /\ LogInv'
         /\ \A e : Durable(e) /\ e \in Event => Durable(e)'
         /\ \A a \in Actors : \A i \in Pos(a)' : Kept(a, i)'
<1>1. UNCHANGED <<count, glued>> /\ (LogLeft \/ LogGone)
  BY DEF PowerLoss
<1>2. CASE LogLeft
  BY <1>1, <1>2, LogLeftStep, DurableStays
<1>3. CASE LogGone
  BY <1>1, <1>3, LogGoneStep
<1> QED
  BY <1>1, <1>2, <1>3

(* What has a durable place, or was lost, was written. *)
LEMMA DurableCounted ==
  ASSUME LogInv, NEW e \in Event, Durable(e)
  PROVE  e.n <= count /\ e.n \in Nat
<1>1. CASE e \in lost
  BY <1>1, EventTyped DEF LogInv
<1>2. CASE Placeful(e)
  <2>1. PICK a \in Actors : \E i \in Pos(a) : file[a][i] = e
    BY <1>2 DEF Placeful
  <2>2. PICK i \in Pos(a) : file[a][i] = e
    BY <2>1
  <2>3. Placed(a, i) /\ e # Torn /\ e.n \in Nat
    BY <2>2, EventTyped DEF LogInv
  <2> QED
    BY <2>2, <2>3 DEF Placed
<1> QED
  BY <1>1, <1>2 DEF Durable

-----------------------------------------------------------------------------
(* Processes: types, the lock, and that what was returned is durable *)

JobType == [ev : Event \cup {None}, actor : Actors \cup {None},
            view : Views \cup {None}, inode : Inode]

Appending == {"written", "flushed"}
Replacing == {"create", "temp", "rename", "renamed"}

Fits(p, pt, j) ==
  /\ pt \in {"idle"} \cup Steps /\ j \in JobType
  /\ pt \in {"folded"} \cup Replacing => lock = p
  /\ pt \in Appending /\ j.view # None => lock = p
  /\ pt = "folded" => j.view \in Views
  /\ pt \in Appending =>
       /\ j.ev \in Event /\ j.ev.view = j.view /\ j.actor \in Actors
       /\ \E i \in Pos(j.actor) : /\ file[j.actor][i] = j.ev
                                  /\ pt = "flushed" => i <= synced[j.actor]
  /\ pt \in Replacing => j.ev \in Event /\ j.view \in Views /\ j.ev.view = j.view

ProcsOK ==
  /\ pc \in [Procs -> {"idle"} \cup Steps] /\ job \in [Procs -> JobType]
  /\ lock \in Procs \cup {None} /\ (lock # None => pc[lock] # "idle")
  /\ \A p \in Procs : Fits(p, pc[p], job[p])

HistOK ==
  /\ view \in [Views -> Inode] /\ kept \in [Views -> Inode]
  /\ home \in [Views -> {"none", "cached", "durable"}]
  /\ done \subseteq Event /\ settled \subseteq Event
  /\ \A e \in done : Durable(e)

SInv == LogInv /\ ProcsOK /\ HistOK

LEMMA IdleFits == Idle \in JobType /\ \A p : Fits(p, "idle", Idle)
<1>1. NoFile \in Inode
  BY MaxEventsIsNat DEF NoFile, Inode
<1>2. Idle \in JobType
  BY <1>1 DEF Idle, JobType
<1> QED
  BY <1>2 DEF Fits, Appending, Replacing

(* A process goes to pt with j; the lock changes hands at most between it  *)
(* and nobody.                                                             *)
LEMMA ProcStep ==
  ASSUME ProcsOK, LogInv, LogInv', LogGrows, NEW p \in Procs, NEW pt, NEW j,
         pc' = [pc EXCEPT ![p] = pt], job' = [job EXCEPT ![p] = j],
         Fits(p, pt, j)',
         \/ lock' = lock /\ (lock = p => pt # "idle")
         \/ lock \in {None, p} /\ lock' = p /\ pt # "idle"
         \/ lock = p /\ lock' = None
  PROVE  ProcsOK'
<1>1. pt \in {"idle"} \cup Steps /\ j \in JobType
  BY DEF Fits
<1>2. /\ pc' \in [Procs -> {"idle"} \cup Steps] /\ job' \in [Procs -> JobType]
      /\ pc'[p] = pt /\ job'[p] = j
      /\ \A q \in Procs \ {p} : pc'[q] = pc[q] /\ job'[q] = job[q]
  BY <1>1 DEF ProcsOK
<1>3. lock' \in Procs \cup {None} /\ (lock' # None => pc'[lock'] # "idle")
  BY <1>2, MarksDiffer DEF ProcsOK
<1>4. ASSUME NEW q \in Procs \ {p}  PROVE Fits(q, pc[q], job[q])'
  <2>1. PICK qt : qt = pc[q]
    OBVIOUS
  <2>2. PICK k : k = job[q]
    OBVIOUS
  <2>3. Fits(q, qt, k) /\ pc'[q] = qt /\ job'[q] = k
    BY <1>2, <2>1, <2>2 DEF ProcsOK
  <2>4. lock = q => lock' = q
    BY MarksDiffer
  <2>5. ASSUME qt \in Appending
        PROVE  \E i \in Pos(k.actor)' : /\ file'[k.actor][i] = k.ev
                                        /\ qt = "flushed" => i <= synced'[k.actor]
    <3>1. k.actor \in Actors
      BY <2>3, <2>5 DEF Fits
    <3>2. PICK i \in Pos(k.actor) : /\ file[k.actor][i] = k.ev
                                    /\ qt = "flushed" => i <= synced[k.actor]
      BY <2>3, <2>5 DEF Fits
    <3>3. i \in Pos(k.actor)' /\ file'[k.actor][i] = k.ev /\ synced'[k.actor] >= synced[k.actor]
      BY <3>1, <3>2 DEF LogGrows
    <3>4. i \in Nat /\ synced[k.actor] \in Nat /\ synced'[k.actor] \in Nat
      BY <3>1 DEF LogInv, Pos
    <3> QED
      BY <3>2, <3>3, <3>4
  <2> QED
    BY <2>3, <2>4, <2>5 DEF Fits
<1>5. Fits(p, pc[p], job[p])'
  BY <1>2 DEF Fits
<1> QED
  BY <1>2, <1>3, <1>4, <1>5 DEF ProcsOK

(* An operation ends, with its deferred Release. *)
LEMMA ReturnStep ==
  ASSUME ProcsOK, LogInv, LogInv', LogGrows, NEW p \in Procs, Return(p)
  PROVE  ProcsOK'
<1>1. Fits(p, "idle", Idle)'
  BY IdleFits DEF Fits, Appending, Replacing
<1>2. (lock' = lock /\ lock # p) \/ (lock = p /\ lock' = None)
  BY DEF Return
<1> QED
  BY <1>1, <1>2, ProcStep DEF Return, Step

LEMMA HistStays ==
  ASSUME HistOK, KeptStays, UNCHANGED <<view, kept, done, settled>>,
         home' \in [Views -> {"none", "cached", "durable"}]
  PROVE  HistOK'
<1>1. \A e \in done' : Durable(e)'
  BY DurableStays DEF HistOK
<1> QED
  BY <1>1 DEF HistOK

LEMMA FoldOK == ASSUME SInv, NEW p \in Procs, Fold(p)  PROVE SInv'
<1>1. PICK a \in Actors, v \in Views : job' = [job EXCEPT ![p] = [Idle EXCEPT !.actor = a, !.view = v]]
  BY DEF Fold
<1>2. LogInv' /\ LogGrows /\ KeptStays
  BY SameLog DEF SInv, Fold, hist
<1> DEFINE j == [Idle EXCEPT !.actor = a, !.view = v]
<1>3. j \in JobType /\ j.view = v
  BY IdleFits DEF JobType
<1> HIDE DEF j
<1>4. lock = None /\ lock' = p
  BY DEF Fold
<1>5. Fits(p, "folded", j)'
  BY <1>3, <1>4 DEF Fits, Appending, Replacing, Steps
<1>6. ProcsOK'
  BY <1>1, <1>2, <1>4, <1>5, ProcStep DEF SInv, Fold, Step, j
<1>7. HistOK'
  BY <1>2, HistStays DEF SInv, HistOK, Fold, dir, hist
<1> QED
  BY <1>2, <1>6, <1>7 DEF SInv

LEMMA AppendRawOK ==
  ASSUME SInv, NEW p \in Procs, AppendRaw(p)
  PROVE  SInv'
<1>1. PICK a \in Actors, v \in Views \cup {None} :
         /\ MayAppend(p, a, v)
         /\ Write(p, a, NextEvent(v), NextEvent(v))
         /\ job' = [job EXCEPT ![p] = [Idle EXCEPT !.ev = NextEvent(v), !.actor = a, !.view = v]]
         /\ Step(p, "written")
         /\ UNCHANGED lock
  BY Zenon DEF AppendRaw
<1>2. /\ LogInv' /\ LogGrows /\ KeptStays /\ NextEvent(v) \in Event
      /\ \E i \in Pos(a)' : file'[a][i] = NextEvent(v)
  BY <1>1, WriteStep DEF SInv, MayAppend
<1>3. PICK e \in Event : e = NextEvent(v) /\ e.view = v
  BY <1>2 DEF NextEvent
<1> DEFINE j == [Idle EXCEPT !.ev = e, !.actor = a, !.view = v]
<1>4. j \in JobType /\ j.ev = e /\ j.actor = a /\ j.view = v
  BY IdleFits DEF JobType
<1>5. job' = [job EXCEPT ![p] = j]
  BY <1>1, <1>3
<1> HIDE DEF j
<1>6. /\ v # None => lock = p
      /\ lock = p => pc[p] # "idle"
  <2>1. pc[p] = "folded" \/ v = None
    BY <1>1 DEF MayAppend
  <2>2. pc[p] = "folded" => lock = p
    BY DEF SInv, ProcsOK, Fits
  <2> QED
    BY <2>1, <2>2, MarksDiffer DEF SInv, ProcsOK
<1>7. Fits(p, "written", j)'
  BY <1>1, <1>2, <1>3, <1>4, <1>6 DEF Fits, Appending, Replacing, Steps
<1>8. ProcsOK'
  BY <1>1, <1>2, <1>5, <1>7, ProcStep DEF SInv, Step
<1>9. HistOK'
  BY <1>1, <1>2, HistStays DEF SInv, HistOK, Write, dir
<1> QED
  BY <1>2, <1>8, <1>9 DEF SInv

LEMMA ShortWriteOK ==
  ASSUME SInv, NEW p \in Procs, ShortWrite(p)
  PROVE  SInv'
<1>1. PICK a \in Actors, v \in Views \cup {None} :
         /\ MayAppend(p, a, v)
         /\ Write(p, a, NextEvent(v), Torn)
         /\ Return(p)
  BY Zenon DEF ShortWrite
<1>2. LogInv' /\ LogGrows /\ KeptStays
  BY <1>1, WriteStep DEF SInv, MayAppend
<1>3. ProcsOK'
  BY <1>1, <1>2, ReturnStep DEF SInv
<1>4. HistOK'
  BY <1>1, <1>2, HistStays DEF SInv, HistOK, Write, dir
<1> QED
  BY <1>2, <1>3, <1>4 DEF SInv

LEMMA SyncFileOK == ASSUME SInv, NEW p \in Procs, SyncFile(p)  PROVE SInv'
<1>1. PICK j : j = job[p]
  OBVIOUS
<1>2. Fits(p, "written", j) /\ j.actor \in Actors
  BY <1>1 DEF SInv, ProcsOK, SyncFile, Fits, Appending
<1>3. /\ synced' = [synced EXCEPT ![j.actor] = Len(file[j.actor])]
      /\ pc' = [pc EXCEPT ![p] = "flushed"] /\ UNCHANGED <<file, linked, evdir, lock, job, count, glued, lost>>
  BY <1>1 DEF SyncFile, Step, hist
<1>4. /\ LogInv' /\ LogGrows /\ KeptStays
      /\ \A i \in Pos(j.actor) : i <= synced'[j.actor]
  BY <1>2, <1>3, SyncStep DEF SInv
<1>5. Fits(p, "flushed", j)'
  BY <1>2, <1>3, <1>4 DEF Fits, Appending, Replacing, Steps, Pos
<1>6. job' = [job EXCEPT ![p] = j]
  BY <1>1, <1>3 DEF SInv, ProcsOK
<1>7. ProcsOK'
  BY <1>3, <1>4, <1>5, <1>6, ProcStep DEF SInv
<1>8. HistOK'
  BY <1>4, HistStays DEF SInv, HistOK, SyncFile, dir, hist
<1> QED
  BY <1>4, <1>7, <1>8 DEF SInv

LEMMA LinkFileOK ==
  ASSUME SInv, NEW p \in Procs, LinkFile(p)
  PROVE  SInv' /\ \A e : e = job[p].ev => Durable(e)'
<1>1. PICK j : j = job[p]
  OBVIOUS
<1>2. /\ Fits(p, "flushed", j) /\ j.actor \in Actors /\ j.ev \in Event
      /\ j.ev.view = j.view /\ j \in JobType
  BY <1>1 DEF SInv, ProcsOK, LinkFile, Fits, Appending
<1>3. linked' = Linked /\ UNCHANGED <<file, synced, evdir, count, glued, lost, view, kept, home, settled>>
  BY DEF LinkFile, dir
<1>4. /\ LogInv' /\ LogGrows /\ KeptStays
      /\ \A a \in Actors : file[a] # <<>> => linked'[a] = "durable"
  BY <1>3, LinkStep DEF SInv
<1>5. Durable(j.ev)'
  <2>1. PICK i \in Pos(j.actor) : file[j.actor][i] = j.ev /\ i <= synced[j.actor]
    BY <1>2 DEF Fits, Appending
  <2>2. file[j.actor] # <<>>
    BY <1>2, <2>1 DEF Pos, SInv, LogInv
  <2>3. Kept(j.actor, i)'
    BY <1>2, <1>3, <1>4, <2>1, <2>2 DEF Kept, Pos
  <2> QED
    BY <1>2, <1>3, <2>1, <2>3 DEF Durable, Placeful, Kept
<1>6. ProcsOK'
  <2>1. CASE j.view = None
    BY <1>1, <1>4, <2>1, ReturnStep DEF SInv, LinkFile
  <2>2. CASE j.view # None
    <3>1. /\ pc' = [pc EXCEPT ![p] = "create"] /\ job' = job /\ lock' = lock
          /\ lock = p /\ j.view \in Views
      BY <1>1, <1>2, <2>2 DEF LinkFile, Step, Fits, Appending, JobType
    <3>2. Fits(p, "create", j)'
      BY <1>2, <3>1 DEF Fits, Appending, Replacing, Steps
    <3>3. job' = [job EXCEPT ![p] = j]
      BY <1>1, <3>1 DEF SInv, ProcsOK
    <3> QED
      BY <1>4, <3>1, <3>2, <3>3, ProcStep DEF SInv
  <2> QED
    BY <2>1, <2>2
<1>7. HistOK'
  <2>1. done' = done \cup {j.ev}
    BY <1>1 DEF LinkFile
  <2>2. \A e \in done' : Durable(e)'
    BY <1>4, <1>5, <2>1, DurableStays DEF SInv, HistOK
  <2> QED
    BY <1>2, <1>3, <2>1, <2>2 DEF SInv, HistOK
<1> QED
  BY <1>1, <1>4, <1>5, <1>6, <1>7 DEF SInv

LEMMA RebuildOK == ASSUME SInv, NEW p \in Procs, Rebuild(p)  PROVE SInv'
<1>0. PICK v \in Views :
         \E e \in LatestOf(v) : job' = [job EXCEPT ![p] = [Idle EXCEPT !.ev = e, !.view = v]]
  BY DEF Rebuild
<1>1. PICK e \in LatestOf(v) : job' = [job EXCEPT ![p] = [Idle EXCEPT !.ev = e, !.view = v]]
  BY <1>0
<1>2. e \in Event /\ e.view = v
  <2>1. PICK a \in Actors : e \in Lines(file[a])
    BY DEF LatestOf, Folded
  <2>2. PICK i \in DOMAIN file[a] : file[a][i] = e /\ e # Torn
    BY <2>1 DEF Lines
  <2>3. file[a] \in Seq(Event \cup {Torn})
    BY DEF SInv, LogInv
  <2> QED
    BY <2>2, <2>3 DEF LatestOf
<1>3. LogInv' /\ LogGrows /\ KeptStays
  BY SameLog DEF SInv, Rebuild, hist
<1> DEFINE j == [Idle EXCEPT !.ev = e, !.view = v]
<1>4. j \in JobType /\ j.view = v /\ j.ev = e
  BY <1>2, IdleFits DEF JobType
<1> HIDE DEF j
<1>5. lock = None /\ lock' = p
  BY DEF Rebuild
<1>6. Fits(p, "create", j)'
  BY <1>2, <1>4, <1>5 DEF Fits, Appending, Replacing, Steps
<1>7. ProcsOK'
  BY <1>1, <1>3, <1>5, <1>6, ProcStep DEF SInv, Rebuild, Step, j
<1>8. HistOK'
  BY <1>3, HistStays DEF SInv, HistOK, Rebuild, dir, hist
<1> QED
  BY <1>3, <1>7, <1>8 DEF SInv

(* A step of WriteAtomic: the log stays, p goes on with j. *)
LEMMA ReplaceStep ==
  ASSUME SInv, NEW p \in Procs, NEW pt \in Replacing, NEW j \in JobType,
         pc[p] \in Replacing, pc' = [pc EXCEPT ![p] = pt], job' = [job EXCEPT ![p] = j],
         j.ev = job[p].ev, j.view = job[p].view, UNCHANGED <<log, lock, count, hist>>
  PROVE  LogInv' /\ ProcsOK' /\ KeptStays
<1>1. LogInv' /\ LogGrows /\ KeptStays
  BY SameLog DEF SInv, hist
<1>2. Fits(p, pc[p], job[p]) /\ lock = p
  BY DEF SInv, ProcsOK, Fits
<1>3. Fits(p, pt, j)'
  BY <1>2 DEF Fits, Appending, Replacing, Steps
<1>4. pt # "idle"
  BY DEF Replacing
<1> QED
  BY <1>1, <1>3, <1>4, ProcStep DEF SInv

LEMMA JobTyped ==
  ASSUME SInv, NEW p \in Procs, pc[p] \in Replacing
  PROVE  /\ job[p] \in JobType /\ job[p].ev \in Event /\ job[p].view \in Views
         /\ job[p].ev.view = job[p].view /\ job[p].ev.n \in 1..MaxEvents
         /\ lock = p
BY EventTyped DEF SInv, ProcsOK, Fits

LEMMA CreateTempOK ==
  ASSUME SInv, NEW p \in Procs, CreateTemp(p)
  PROVE  SInv'
<1>1. PICK j \in JobType : j = job[p] /\ j.ev.n \in 1..MaxEvents
  BY JobTyped DEF CreateTemp, Replacing
<1>2. PICK i \in Inode : i = [n |-> j.ev.n, synced |-> FALSE]
  <2>1. PICK N \in 0..MaxEvents : N = j.ev.n
    BY <1>1, MaxEventsIsNat
  <2>2. [n |-> N, synced |-> FALSE] \in Inode
    BY DEF Inode
  <2> QED
    BY <2>1, <2>2
<1> DEFINE k == [j EXCEPT !.inode = i]
<1>3. k \in JobType /\ k.ev = j.ev /\ k.view = j.view
  BY DEF JobType
<1>4. job' = [job EXCEPT ![p] = k]
  <2>1. job' = [job EXCEPT ![p] = [job[p] EXCEPT !.inode = [n |-> job[p].ev.n, synced |-> FALSE]]]
    BY Zenon DEF CreateTemp
  <2> QED
    BY <1>1, <1>2, <1>3, <2>1
<1> HIDE DEF k
<1>5. LogInv' /\ ProcsOK' /\ KeptStays
  BY <1>1, <1>3, <1>4, ReplaceStep DEF CreateTemp, Step, Replacing
<1>6. HistOK'
  <2>1. home' \in [Views -> {"none", "cached", "durable"}]
    BY DEF SInv, HistOK, CreateTemp, Made
  <2> QED
    BY <1>5, <2>1, HistStays DEF SInv, CreateTemp, hist
<1> QED
  BY <1>5, <1>6 DEF SInv

LEMMA SyncTempOK ==
  ASSUME SInv, NEW p \in Procs, SyncTemp(p)
  PROVE  SInv'
<1>1. PICK j \in JobType : j = job[p]
  BY JobTyped DEF SyncTemp, Replacing
<1>2. PICK i \in Inode : i = [j.inode EXCEPT !.synced = TRUE]
  BY DEF JobType, Inode
<1> DEFINE k == [j EXCEPT !.inode = i]
<1>3. k \in JobType /\ k.ev = j.ev /\ k.view = j.view
  BY DEF JobType
<1>4. job' = [job EXCEPT ![p] = k]
  <2>1. job' = [job EXCEPT ![p] = [job[p] EXCEPT !.inode = [job[p].inode EXCEPT !.synced = TRUE]]]
    BY Zenon DEF SyncTemp
  <2> QED
    BY <1>1, <1>2, <1>3, <2>1
<1> HIDE DEF k
<1>5. LogInv' /\ ProcsOK' /\ KeptStays
  BY <1>1, <1>3, <1>4, ReplaceStep DEF SyncTemp, Step, Replacing
<1>6. HistOK'
  BY <1>5, HistStays DEF SInv, HistOK, SyncTemp, dir, hist
<1> QED
  BY <1>5, <1>6 DEF SInv

LEMMA RenameOK == ASSUME SInv, NEW p \in Procs, Rename(p)  PROVE SInv'
<1>1. PICK j \in JobType : j = job[p]
  BY JobTyped DEF Rename, Replacing
<1>2. job' = [job EXCEPT ![p] = j]
  BY <1>1 DEF SInv, ProcsOK, Rename
<1>3. LogInv' /\ ProcsOK' /\ KeptStays
  BY <1>1, <1>2, ReplaceStep DEF Rename, Step, Replacing
<1>4. view' \in [Views -> Inode]
  BY <1>1 DEF SInv, HistOK, Rename, JobType
<1>5. \A e \in done : Durable(e)'
  BY <1>3, DurableStays DEF SInv, HistOK
<1>6. HistOK'
  BY <1>4, <1>5 DEF SInv, HistOK, Rename, hist
<1> QED
  BY <1>3, <1>6 DEF SInv

LEMMA SyncDirOK == ASSUME SInv, NEW p \in Procs, SyncDir(p)  PROVE SInv'
<1>1. job[p].ev \in Event /\ job[p].view \in Views
  BY JobTyped DEF SyncDir, Replacing
<1>2. LogInv' /\ LogGrows /\ KeptStays
  BY SameLog DEF SInv, SyncDir
<1>3. ProcsOK'
  BY <1>2, ReturnStep DEF SInv, SyncDir
<1>4. kept' \in [Views -> Inode] /\ settled' \subseteq Event
  BY <1>1 DEF SInv, HistOK, SyncDir
<1>5. \A e \in done : Durable(e)'
  BY <1>2, DurableStays DEF SInv, HistOK
<1>6. HistOK'
  BY <1>4, <1>5 DEF SInv, HistOK, SyncDir
<1> QED
  BY <1>2, <1>3, <1>6 DEF SInv

LEMMA DieOK == ASSUME SInv, NEW p \in Procs, Die(p)  PROVE SInv'
<1>1. LogInv' /\ LogGrows /\ KeptStays
  BY SameLog DEF SInv, Die, hist
<1>2. ProcsOK'
  BY <1>1, ReturnStep DEF SInv, Die
<1>3. HistOK'
  BY <1>1, HistStays DEF SInv, HistOK, Die, dir, hist
<1> QED
  BY <1>1, <1>2, <1>3 DEF SInv

LEMMA ViewsLeftTyped ==
  ASSUME HistOK, NEW v \in Views, NEW i \in ViewsLeft(v)
  PROVE  /\ [i EXCEPT !.synced = TRUE] \in Inode
         /\ view[v].synced /\ kept[v].synced => i \in {view[v], kept[v]}
<1>1. PICK k \in {view[v], kept[v]} : i = k \/ (~ k.synced /\ i = [k EXCEPT !.n = Torn])
  BY DEF ViewsLeft
<1>2. k \in Inode
  BY DEF HistOK
<1>3. i \in Inode
  BY <1>1, <1>2 DEF Inode
<1> QED
  BY <1>1, <1>3 DEF Inode

LEMMA LossOfViews ==
  ASSUME PowerLoss
  PROVE  \E gone \in SUBSET Views, w \in [Views -> UNION {ViewsLeft(v) : v \in Views}] :
         /\ \A v \in Views : w[v] \in ViewsLeft(v)
         /\ view' = [v \in Views |-> IF v \in gone THEN NoFile
                                     ELSE [w[v] EXCEPT !.synced = TRUE]]
         /\ home' = [v \in Views |-> IF v \in gone \/ home[v] = "none" THEN "none" ELSE "durable"]
         /\ settled' = {e \in settled : e.view \notin gone}
<1>1. PICK gone \in SUBSET {v \in Views : home[v] = "cached"} :
         /\ \E w \in [Views -> UNION {ViewsLeft(v) : v \in Views}] :
              /\ \A v \in Views : w[v] \in ViewsLeft(v)
              /\ view' = [v \in Views |-> IF v \in gone THEN NoFile
                                          ELSE [w[v] EXCEPT !.synced = TRUE]]
         /\ home' = [v \in Views |-> IF v \in gone \/ home[v] = "none" THEN "none" ELSE "durable"]
         /\ settled' = {e \in settled : e.view \notin gone}
  BY Zenon DEF PowerLoss
<1>2. gone \in SUBSET Views
  OBVIOUS
<1> QED
  BY Zenon, <1>1, <1>2

LEMMA PowerLossOK ==
  ASSUME SInv, PowerLoss
  PROVE  SInv'
<1>1. LogInv' /\ \A e : Durable(e) /\ e \in Event => Durable(e)'
  BY PowerLossLog DEF SInv
<1>2. ProcsOK'
  <2>1. \A p \in Procs : pc'[p] = "idle" /\ job'[p] = Idle
    BY DEF PowerLoss
  <2>2. \A p \in Procs : Fits(p, "idle", Idle)'
    BY IdleFits DEF Fits, Appending, Replacing
  <2>3. \A p \in Procs : Fits(p, pc[p], job[p])'
    BY <2>1, <2>2 DEF Fits
  <2>4. /\ pc' \in [Procs -> {"idle"} \cup Steps] /\ job' \in [Procs -> JobType]
        /\ lock' = None
    BY IdleFits DEF PowerLoss
  <2> QED
    BY <2>3, <2>4 DEF ProcsOK
<1>3. PICK gone \in SUBSET Views, w \in [Views -> UNION {ViewsLeft(v) : v \in Views}] :
         /\ \A v \in Views : w[v] \in ViewsLeft(v)
         /\ view' = [v \in Views |-> IF v \in gone THEN NoFile
                                     ELSE [w[v] EXCEPT !.synced = TRUE]]
         /\ home' = [v \in Views |-> IF v \in gone \/ home[v] = "none" THEN "none" ELSE "durable"]
         /\ settled' = {e \in settled : e.view \notin gone}
  BY LossOfViews
<1>4. view' \in [Views -> Inode] /\ kept' = view'
  <2>1. \A v \in Views : [w[v] EXCEPT !.synced = TRUE] \in Inode
    BY <1>3, ViewsLeftTyped DEF SInv
  <2>2. NoFile \in Inode
    BY MaxEventsIsNat DEF NoFile, Inode
  <2> QED
    BY <1>3, <2>1, <2>2 DEF PowerLoss
<1>5. done' = done /\ settled' \subseteq settled
  BY <1>3 DEF PowerLoss
<1>6. HistOK'
  BY <1>1, <1>3, <1>4, <1>5 DEF SInv, HistOK
<1> QED
  BY <1>1, <1>2, <1>6 DEF SInv

LEMMA WriteBackStep ==
  ASSUME LogInv, WriteBack
  PROVE  LogInv' /\ LogGrows /\ KeptStays
<1>1. /\ UNCHANGED <<file, synced, linked, count, glued, lost>>
      /\ evdir' \in {"none", "cached", "durable"}
  BY DEF WriteBack, hist, LogInv
<1>2. LogInv'
  BY <1>1 DEF LogInv, Pos, Placed
<1> QED
  BY <1>1, <1>2 DEF LogGrows, KeptStays, Kept, Pos, LogInv

LEMMA WriteBackOK ==
  ASSUME SInv, WriteBack
  PROVE  SInv'
<1>1. LogInv' /\ KeptStays
  BY WriteBackStep DEF SInv
<1>2. UNCHANGED <<pc, job, lock, file, synced, view, kept, done, settled>>
  BY DEF WriteBack, hist
<1>3. ProcsOK'
  BY <1>2 DEF SInv, ProcsOK, Fits, Pos
<1>4. home' \in [Views -> {"none", "cached", "durable"}]
  BY DEF WriteBack, SInv, HistOK
<1>5. HistOK'
  BY <1>1, <1>2, <1>4, HistStays DEF SInv
<1> QED
  BY <1>1, <1>3, <1>5 DEF SInv

LEMMA InitOK == Init => SInv
<1> SUFFICES ASSUME Init PROVE SInv
  OBVIOUS
<1>1. LogInv
  <2>1. /\ file \in [Actors -> Seq(Event \cup {Torn})] /\ \A a \in Actors : Len(file[a]) = 0
    BY DEF Init
  <2>2. \A a \in Actors : file[a] = <<>> /\ synced[a] = 0 /\ Pos(a) = {}
    BY <2>1 DEF Init, Pos
  <2> QED
    BY <2>1, <2>2, MaxEventsIsNat DEF Init, LogInv
<1>2. ProcsOK
  BY IdleFits DEF Init, ProcsOK
<1>3. NoFile \in Inode
  BY MaxEventsIsNat DEF NoFile, Inode
<1>4. HistOK
  BY <1>3 DEF Init, HistOK
<1> QED
  BY <1>1, <1>2, <1>4 DEF SInv

LEMMA NextOK == ASSUME SInv, [Next]_vars  PROVE SInv'
<1>1. ASSUME NEW p \in Procs, Fold(p) \/ AppendRaw(p) \/ ShortWrite(p) \/ SyncFile(p) \/ LinkFile(p)
      PROVE  SInv'
  BY <1>1, FoldOK, AppendRawOK, ShortWriteOK, SyncFileOK, LinkFileOK
<1>2. ASSUME NEW p \in Procs, Rebuild(p) \/ CreateTemp(p) \/ SyncTemp(p) \/ Rename(p) \/ SyncDir(p)
      PROVE  SInv'
  BY <1>2, RebuildOK, CreateTempOK, SyncTempOK, RenameOK, SyncDirOK
<1>3. ASSUME NEW p \in Procs, Die(p)  PROVE SInv'
  BY <1>3, DieOK
<1>4. CASE PowerLoss
  BY <1>4, PowerLossOK
<1>6. CASE WriteBack
  BY <1>6, WriteBackOK
<1>5. CASE UNCHANGED vars
  <2>1. LogInv' /\ LogGrows /\ KeptStays
    BY <1>5, SameLog DEF vars, SInv, hist
  <2>2. UNCHANGED <<pc, job, lock, file, synced>>
    BY <1>5 DEF vars, log
  <2>3. ProcsOK'
    BY <2>2 DEF SInv, ProcsOK, Fits, Pos
  <2>4. HistOK'
    BY <1>5, <2>1, HistStays DEF vars, dir, hist, SInv, HistOK
  <2> QED
    BY <2>1, <2>3, <2>4 DEF SInv
<1> QED
  BY <1>1, <1>2, <1>3, <1>4, <1>5, <1>6 DEF Next

LEMMA StorageInvariant == Spec => []SInv
BY InitOK, NextOK, PTL DEF Spec

(* Types, for any number of processes and files, wherever they are killed; *)
(* state.lock is held by a process inside an operation only.               *)
THEOREM StorageTypeCorrect == Spec => []TypeOK
<1>1. SInv => TypeOK
  <2> SUFFICES ASSUME SInv PROVE TypeOK
    OBVIOUS
  <2>1. synced \in [Actors -> 0..MaxEvents + 1]
    <3>1. \A a \in Actors : synced[a] \in 0..MaxEvents + 1
      BY MaxEventsIsNat DEF SInv, LogInv
    <3> QED
      BY <3>1 DEF SInv, LogInv
  <2> QED
    BY <2>1 DEF SInv, LogInv, ProcsOK, HistOK, TypeOK, JobType
<1> QED
  BY <1>1, StorageInvariant, PTL

(* An event that has a durable place and is not glued is a line of its own *)
(* for every fold.                                                         *)
LEMMA DurableFolded ==
  ASSUME LogInv, NEW e \in Event, Durable(e), e \notin glued \cup lost
  PROVE  e \in Folded
<1>0. PICK a \in Actors : \E i \in Pos(a) : file[a][i] = e
  BY DEF Durable, Placeful
<1>1. PICK i \in Pos(a) : file[a][i] = e
  BY <1>0
<1>2. file[a] \in Seq(Event \cup {Torn}) /\ Placed(a, i)
  BY DEF LogInv
<1>3. i \in DOMAIN file[a] /\ e # Torn
  BY <1>2, EventTyped DEF Pos
<1>4. i > 1 => file[a][i-1] # Torn
  BY <1>1, <1>2, <1>3 DEF Placed
<1>5. e \in Lines(file[a])
  BY <1>1, <1>3, <1>4 DEF Lines
<1> QED
  BY <1>5 DEF Folded

(* Wherever processes are killed, however short the writes, whenever the   *)
(* power fails: an event whose append returned is there for every later    *)
(* fold, unless it was written behind a torn piece, or went with events/,  *)
(* which had not got to the disk.                                          *)
THEOREM ReturnedEventsSurvive == Spec => []ReturnedSurvives
<1>1. SInv => ReturnedSurvives
  BY DurableFolded DEF SInv, HistOK, ReturnedSurvives
<1> QED
  BY <1>1, StorageInvariant, PTL

-----------------------------------------------------------------------------
(* Views, when no process is killed between write(2) and the fsyncs *)

Careful == Killable \cap Appending = {}

(* An event in a file is durable, or its writer is about to make it so. *)
Owed(p, a, i) ==
  /\ pc[p] \in Appending /\ job[p].ev = file[a][i] /\ job[p].actor = a
  /\ pc[p] = "flushed" => i <= synced[a]

OwedOK == \A a \in Actors : \A i \in Pos(a) :
            file[a][i] # Torn => Kept(a, i) \/ \E p \in Procs : Owed(p, a, i)

(* A view's inode is whole, and from an event that is durable. *)
Sound(v, i) ==
  /\ i.synced /\ i.n # Torn
  /\ i.n # 0 => \E e \in Event : e.n = i.n /\ e.view = v /\ Durable(e)

SettledOK == \A e \in settled :
               /\ Durable(e) /\ e.view \in Views
               /\ e.n <= view[e.view].n /\ e.n <= kept[e.view].n

(* What process p at pt is about to put in a view, or has put there. *)
Backed(pt, j) ==
  /\ pt \in Replacing => Durable(j.ev)
  /\ pt \in {"temp", "rename"} => j.inode.n = j.ev.n
  /\ pt = "rename" => j.inode.synced
  /\ pt = "renamed" => view[j.view].n = j.ev.n
  /\ pt \in Appending \cup Replacing /\ j.view # None =>
       \A e \in settled : e.view = j.view => e.n <= j.ev.n

ViewsOK ==
  /\ \A v \in Views : Sound(v, view[v]) /\ Sound(v, kept[v])
  /\ SettledOK
  /\ \A p \in Procs : Backed(pc[p], job[p])

VInv == SInv /\ OwedOK /\ ViewsOK

(* No writer leaves, no event comes. *)
LEMMA OwedStays ==
  ASSUME SInv, SInv', OwedOK, LogGrows, KeptStays,
         \A q \in Procs : pc[q] \in Appending => pc'[q] = pc[q] /\ job'[q] = job[q],
         \A a \in Actors : \A i \in Pos(a)' :
            file'[a][i] # Torn /\ i \notin Pos(a) => \E p \in Procs : Owed(p, a, i)'
  PROVE  OwedOK'
<1> SUFFICES ASSUME NEW a \in Actors, NEW i \in Pos(a)', file'[a][i] # Torn, i \in Pos(a)
             PROVE  Kept(a, i)' \/ \E p \in Procs : Owed(p, a, i)'
  BY DEF OwedOK
<1>1. file'[a][i] = file[a][i] /\ synced'[a] >= synced[a]
  BY DEF LogGrows
<1>2. CASE Kept(a, i)
  BY <1>2 DEF KeptStays
<1>3. CASE \E p \in Procs : Owed(p, a, i)
  <2>1. PICK p \in Procs : Owed(p, a, i)
    BY <1>3
  <2>2. i \in Nat /\ synced[a] \in Nat /\ synced'[a] \in Nat
    BY DEF SInv, LogInv, Pos
  <2>3. Owed(p, a, i)'
    BY <1>1, <2>1, <2>2 DEF Owed
  <2> QED
    BY <2>3
<1> QED
  BY <1>1, <1>2, <1>3 DEF OwedOK

LEMMA SoundStays ==
  ASSUME KeptStays, NEW v, NEW i, Sound(v, i)
  PROVE  Sound(v, i)'
BY DurableStays DEF Sound

(* Views and what was settled stay; p goes to pt with j. *)
LEMMA ViewStep ==
  ASSUME SInv, ViewsOK, KeptStays, NEW p \in Procs, NEW pt, NEW j,
         pc' = [pc EXCEPT ![p] = pt], job' = [job EXCEPT ![p] = j],
         Backed(pt, j)', UNCHANGED <<view, kept, settled>>
  PROVE  ViewsOK'
<1>1. /\ pc'[p] = pt /\ job'[p] = j
      /\ \A q \in Procs \ {p} : pc'[q] = pc[q] /\ job'[q] = job[q]
  BY DEF SInv, ProcsOK
<1>2. ASSUME NEW v \in Views  PROVE Sound(v, view[v])' /\ Sound(v, kept[v])'
  <2>1. PICK i : i = view[v]
    OBVIOUS
  <2>2. PICK k : k = kept[v]
    OBVIOUS
  <2>3. Sound(v, i)' /\ Sound(v, k)' /\ view'[v] = i /\ kept'[v] = k
    BY <2>1, <2>2, SoundStays DEF ViewsOK
  <2> QED
    BY <2>3 DEF Sound
<1>3. SettledOK'
  BY DurableStays DEF ViewsOK, SettledOK
<1>4. ASSUME NEW q \in Procs \ {p}  PROVE Backed(pc[q], job[q])'
  <2>1. PICK qt : qt = pc[q]
    OBVIOUS
  <2>2. PICK k : k = job[q]
    OBVIOUS
  <2>3. Backed(qt, k) /\ pc'[q] = qt /\ job'[q] = k
    BY <1>1, <2>1, <2>2 DEF ViewsOK
  <2> QED
    BY <2>3, DurableStays DEF Backed
<1>5. Backed(pc[p], job[p])'
  BY <1>1 DEF Backed
<1> QED
  BY <1>2, <1>3, <1>4, <1>5 DEF ViewsOK

(* A step outside an append, which adds no event. *)
LEMMA OwedKeeps ==
  ASSUME SInv, SInv', OwedOK, LogGrows, KeptStays, NEW p \in Procs, pc[p] \notin Appending,
         \A q \in Procs \ {p} : pc'[q] = pc[q] /\ job'[q] = job[q],
         \A a \in Actors : \A i \in Pos(a)' : file'[a][i] # Torn => i \in Pos(a)
  PROVE  OwedOK'
<1>1. \A q \in Procs : pc[q] \in Appending => pc'[q] = pc[q] /\ job'[q] = job[q]
  OBVIOUS
<1> QED
  BY <1>1, OwedStays

(* A step of p that leaves log and views as they are. *)
LEMMA PlainStep ==
  ASSUME VInv, SInv', NEW p \in Procs, pc[p] \notin Appending, NEW pt, NEW j,
         pc' = [pc EXCEPT ![p] = pt], job' = [job EXCEPT ![p] = j],
         Backed(pt, j)', UNCHANGED <<log, view, kept, count, settled, glued, lost>>
  PROVE  VInv'
<1>1. LogGrows /\ KeptStays
  BY SameLog DEF VInv, SInv
<1>2. \A q \in Procs \ {p} : pc'[q] = pc[q] /\ job'[q] = job[q]
  BY DEF VInv, SInv, ProcsOK
<1>3. \A a \in Actors : \A i \in Pos(a)' : file'[a][i] # Torn => i \in Pos(a)
  BY DEF log, Pos
<1>4. OwedOK'
  BY <1>1, <1>2, <1>3, OwedKeeps DEF VInv
<1>5. ViewsOK'
  BY <1>1, ViewStep DEF VInv, dir
<1> QED
  BY <1>4, <1>5 DEF VInv

LEMMA FoldKeeps == ASSUME VInv, SInv', NEW p \in Procs, Fold(p)  PROVE VInv'
<1>1. PICK a \in Actors, v \in Views : job' = [job EXCEPT ![p] = [Idle EXCEPT !.actor = a, !.view = v]]
  BY DEF Fold
<1>2. PICK j : j = [Idle EXCEPT !.actor = a, !.view = v]
  OBVIOUS
<1>3. Backed("folded", j)'
  BY DEF Backed, Appending, Replacing
<1>4. UNCHANGED <<log, view, kept, count, settled, glued, lost>> /\ pc[p] \notin Appending
  BY DEF Fold, dir, hist, Appending
<1>5. pc' = [pc EXCEPT ![p] = "folded"] /\ job' = [job EXCEPT ![p] = j]
  BY <1>1, <1>2 DEF Fold, Step
<1> QED
  BY <1>3, <1>4, <1>5, PlainStep

LEMMA AppendRawKeeps == ASSUME VInv, SInv', NEW p \in Procs, AppendRaw(p)  PROVE VInv'
<1>1. PICK a \in Actors, v \in Views \cup {None} :
         /\ MayAppend(p, a, v)
         /\ Write(p, a, NextEvent(v), NextEvent(v))
         /\ job' = [job EXCEPT ![p] = [Idle EXCEPT !.ev = NextEvent(v), !.actor = a, !.view = v]]
         /\ Step(p, "written")
  BY Zenon DEF AppendRaw
<1>2. /\ LogGrows /\ KeptStays /\ NextEvent(v) \in Event
      /\ \A b \in Actors : \A i \in Pos(b)' :
            file'[b][i] # Torn /\ i \notin Pos(b) => b = a /\ file'[b][i] = NextEvent(v)
  BY <1>1, WriteStep DEF VInv, SInv, MayAppend
<1>3. PICK e \in Event : e = NextEvent(v) /\ e.view = v /\ e.n = count + 1
  BY <1>2 DEF NextEvent
<1>4. PICK j : j = [Idle EXCEPT !.ev = e, !.actor = a, !.view = v]
  OBVIOUS
<1>5. j.ev = e /\ j.actor = a /\ j.view = v
  BY <1>4 DEF Idle
<1>6. /\ pc' = [pc EXCEPT ![p] = "written"] /\ job' = [job EXCEPT ![p] = j]
      /\ UNCHANGED <<view, kept, settled>>
  BY <1>1, <1>3, <1>4 DEF Step, Write, dir
<1>7. /\ pc'[p] = "written" /\ job'[p] = j /\ pc[p] \notin Appending
      /\ \A q \in Procs \ {p} : pc'[q] = pc[q] /\ job'[q] = job[q]
  BY <1>1, <1>6 DEF VInv, SInv, ProcsOK, MayAppend, Appending
<1>8. OwedOK'
  <2>1. \A b \in Actors : \A i \in Pos(b)' :
           file'[b][i] # Torn /\ i \notin Pos(b) => Owed(p, b, i)'
    BY <1>2, <1>3, <1>5, <1>7 DEF Owed, Appending
  <2>2. \A q \in Procs : pc[q] \in Appending => pc'[q] = pc[q] /\ job'[q] = job[q]
    BY <1>7
  <2> QED
    BY <1>2, <2>1, <2>2, OwedStays DEF VInv
<1>9. Backed("written", j)'
  <2>1. ASSUME NEW x \in settled  PROVE x.n <= e.n
    <3>1. x \in Event /\ Durable(x)
      BY DEF VInv, SInv, HistOK, ViewsOK, SettledOK
    <3>2. x.n <= count /\ x.n \in Nat /\ count \in Nat
      BY <3>1, DurableCounted DEF VInv, SInv, LogInv
    <3> QED
      BY <1>3, <3>2
  <2> QED
    BY <1>5, <1>6, <2>1 DEF Backed, Appending, Replacing
<1>10. ViewsOK'
  BY <1>2, <1>6, <1>9, ViewStep DEF VInv
<1> QED
  BY <1>8, <1>10 DEF VInv

LEMMA ShortWriteKeeps == ASSUME VInv, SInv', NEW p \in Procs, ShortWrite(p)  PROVE VInv'
<1>1. PICK a \in Actors, v \in Views \cup {None} :
         /\ MayAppend(p, a, v)
         /\ Write(p, a, NextEvent(v), Torn)
         /\ Return(p)
  BY Zenon DEF ShortWrite
<1>2. /\ LogGrows /\ KeptStays /\ NextEvent(v) \in Event
      /\ \A b \in Actors : \A i \in Pos(b)' :
            file'[b][i] # Torn /\ i \notin Pos(b) => Torn = NextEvent(v)
  BY <1>1, WriteStep DEF VInv, SInv, MayAppend
<1>3. \A b \in Actors : \A i \in Pos(b)' : file'[b][i] # Torn => i \in Pos(b)
  BY <1>2, EventTyped
<1>4. /\ pc' = [pc EXCEPT ![p] = "idle"] /\ job' = [job EXCEPT ![p] = Idle]
      /\ UNCHANGED <<view, kept, settled>> /\ pc[p] \notin Appending
  BY <1>1 DEF Return, Step, Write, dir, MayAppend, Appending
<1>5. \A q \in Procs \ {p} : pc'[q] = pc[q] /\ job'[q] = job[q]
  BY <1>4 DEF VInv, SInv, ProcsOK
<1>6. OwedOK'
  BY <1>2, <1>3, <1>4, <1>5, OwedKeeps DEF VInv
<1>7. Backed("idle", Idle)'
  BY DEF Backed, Appending, Replacing
<1>8. ViewsOK'
  BY <1>2, <1>4, <1>7, ViewStep DEF VInv
<1> QED
  BY <1>6, <1>8 DEF VInv

LEMMA SyncFileKeeps == ASSUME VInv, SInv', NEW p \in Procs, SyncFile(p)  PROVE VInv'
<1>1. PICK j : j = job[p]
  OBVIOUS
<1>2. Fits(p, "written", j) /\ j.actor \in Actors /\ Backed("written", j)
  BY <1>1 DEF VInv, SInv, ProcsOK, ViewsOK, SyncFile, Fits, Appending
<1>3. /\ synced' = [synced EXCEPT ![j.actor] = Len(file[j.actor])]
      /\ pc' = [pc EXCEPT ![p] = "flushed"] /\ job' = [job EXCEPT ![p] = j]
      /\ UNCHANGED <<file, linked, evdir, count, glued, lost, view, kept, settled, job>>
  BY <1>1 DEF SyncFile, Step, hist, dir, VInv, SInv, ProcsOK
<1>4. /\ LogGrows /\ KeptStays
      /\ \A i \in Pos(j.actor) : i <= synced'[j.actor]
  BY <1>2, <1>3, SyncStep DEF VInv, SInv
<1>5. Backed("flushed", j)'
  BY <1>2, <1>3 DEF Backed, Appending, Replacing
<1>6. ViewsOK'
  BY <1>3, <1>4, <1>5, ViewStep DEF VInv
<1>7. /\ pc'[p] = "flushed" /\ job'[p] = j /\ pc[p] = "written"
      /\ \A q \in Procs \ {p} : pc'[q] = pc[q] /\ job'[q] = job[q]
  BY <1>1, <1>3 DEF VInv, SInv, ProcsOK, SyncFile
<1>8. ASSUME NEW a \in Actors, NEW i \in Pos(a)', file'[a][i] # Torn
      PROVE  Kept(a, i)' \/ \E q \in Procs : Owed(q, a, i)'
  <2>1. i \in Pos(a) /\ file'[a][i] = file[a][i] /\ i \in Nat
    BY <1>3, <1>8 DEF Pos
  <2>2. CASE Kept(a, i)
    BY <1>4, <2>1, <2>2 DEF KeptStays
  <2>3. CASE \E q \in Procs : Owed(q, a, i)
    <3>1. PICK q \in Procs : Owed(q, a, i)
      BY <2>3
    <3>2. CASE q = p
      <4>1. a = j.actor /\ j.ev = file[a][i]
        BY <1>1, <3>1, <3>2 DEF Owed
      <4>2. Owed(p, a, i)'
        BY <1>4, <1>7, <2>1, <4>1 DEF Owed, Appending
      <4> QED
        BY <4>2
    <3>3. CASE q # p
      <4>1. i <= synced[a] => i <= synced'[a]
        BY <1>3, <1>4, <2>1 DEF LogGrows, VInv, SInv, LogInv
      <4>2. Owed(q, a, i)'
        BY <1>7, <2>1, <3>1, <3>3, <4>1 DEF Owed
      <4> QED
        BY <4>2
    <3> QED
      BY <3>2, <3>3
  <2> QED
    BY <1>8, <2>1, <2>2, <2>3 DEF VInv, OwedOK
<1>9. OwedOK'
  BY <1>8 DEF OwedOK
<1> QED
  BY <1>6, <1>9 DEF VInv

LEMMA LinkFileKeeps == ASSUME VInv, SInv', NEW p \in Procs, LinkFile(p)  PROVE VInv'
<1>1. PICK j : j = job[p]
  OBVIOUS
<1>2. Backed("flushed", j) /\ Durable(j.ev)' /\ pc[p] = "flushed"
  BY <1>1, LinkFileOK DEF VInv, ViewsOK, LinkFile
<1>3. /\ linked' = Linked
      /\ UNCHANGED <<file, synced, evdir, count, glued, lost, view, kept, settled>>
  BY DEF LinkFile, dir
<1>4. /\ LogGrows /\ KeptStays
      /\ \A a \in Actors : file[a] # <<>> => linked'[a] = "durable"
  BY <1>3, LinkStep DEF VInv, SInv
<1>5. ViewsOK'
  <2>1. CASE job[p].view = None
    <3>1. Backed("idle", Idle)'
      BY DEF Backed, Appending, Replacing
    <3>2. pc' = [pc EXCEPT ![p] = "idle"] /\ job' = [job EXCEPT ![p] = Idle]
      BY <2>1 DEF LinkFile, Return, Step
    <3> QED
      BY <1>3, <1>4, <3>1, <3>2, ViewStep DEF VInv
  <2>2. CASE job[p].view # None
    <3>1. Backed("create", j)'
      BY <1>2, <1>3 DEF Backed, Appending, Replacing
    <3>2. pc' = [pc EXCEPT ![p] = "create"] /\ job' = [job EXCEPT ![p] = j]
      BY <1>1, <2>2 DEF LinkFile, Step, VInv, SInv, ProcsOK
    <3> QED
      BY <1>3, <1>4, <3>1, <3>2, ViewStep DEF VInv
  <2> QED
    BY <2>1, <2>2
<1>6. \A q \in Procs \ {p} : pc'[q] = pc[q] /\ job'[q] = job[q]
  BY DEF LinkFile, Return, Step, VInv, SInv, ProcsOK
<1>7. ASSUME NEW a \in Actors, NEW i \in Pos(a)', file'[a][i] # Torn
      PROVE  Kept(a, i)' \/ \E q \in Procs : Owed(q, a, i)'
  <2>1. i \in Pos(a) /\ file'[a][i] = file[a][i]
    BY <1>3, <1>7 DEF Pos
  <2>2. CASE Kept(a, i)
    BY <1>4, <2>1, <2>2 DEF KeptStays
  <2>3. CASE \E q \in Procs : Owed(q, a, i)
    <3>1. PICK q \in Procs : Owed(q, a, i)
      BY <2>3
    <3>2. CASE q = p
      <4>1. i <= synced'[a] /\ i \in Pos(a)'
        BY <1>2, <1>3, <1>7, <3>1, <3>2 DEF Owed
      <4>2. file[a] # <<>>
        BY <2>1 DEF Pos, VInv, SInv, LogInv
      <4> QED
        BY <1>4, <4>1, <4>2 DEF Kept
    <3>3. CASE q # p
      <4>1. Owed(q, a, i)'
        BY <1>3, <1>6, <2>1, <3>1, <3>3 DEF Owed
      <4> QED
        BY <4>1
    <3> QED
      BY <3>2, <3>3
  <2> QED
    BY <1>7, <2>1, <2>2, <2>3 DEF VInv, OwedOK
<1>8. OwedOK'
  BY <1>7 DEF OwedOK
<1> QED
  BY <1>5, <1>8 DEF VInv

(* A log that can be folded has no event behind a torn piece. *)
LEMMA FoldableNotGlued ==
  ASSUME LogInv, FoldOk, NEW e \in Event, Durable(e), e \notin lost
  PROVE  e \in Folded
<1>1. PICK a \in Actors : \E i \in Pos(a) : file[a][i] = e
  BY DEF Durable, Placeful
<1>2. PICK i \in Pos(a) : file[a][i] = e
  BY <1>1
<1>3. file[a] \in Seq(Event \cup {Torn}) /\ Placed(a, i) /\ ~ Corrupt(file[a])
  BY DEF LogInv, FoldOk
<1>4. i \in DOMAIN file[a] /\ e # Torn
  BY <1>3, EventTyped DEF Pos
<1>5. ~ (i > 1 /\ file[a][i-1] = Torn)
  BY <1>2, <1>3, <1>4 DEF Corrupt
<1>6. e \notin glued
  BY <1>2, <1>3, <1>4, <1>5 DEF Placed
<1> QED
  BY <1>6, DurableFolded

LEMMA RebuildKeeps == ASSUME VInv, SInv', NEW p \in Procs, Rebuild(p)  PROVE VInv'
<1>1. PICK v \in Views :
         \E e \in LatestOf(v) : job' = [job EXCEPT ![p] = [Idle EXCEPT !.ev = e, !.view = v]]
  BY DEF Rebuild
<1>2. PICK e \in LatestOf(v) : job' = [job EXCEPT ![p] = [Idle EXCEPT !.ev = e, !.view = v]]
  BY <1>1
<1>3. e.view = v /\ \A x \in Folded : x.view = v => x.n <= e.n
  BY DEF LatestOf
<1>4. Durable(e)
  <2>1. PICK a \in Actors : e \in Lines(file[a])
    BY DEF LatestOf, Folded
  <2>2. PICK i \in DOMAIN file[a] : file[a][i] = e /\ e # Torn
    BY <2>1 DEF Lines
  <2>3. i \in Pos(a)
    BY <2>2 DEF VInv, SInv, LogInv, Pos
  <2>4. ASSUME NEW q \in Procs, Owed(q, a, i)  PROVE FALSE
    <3>1. job[q].ev = e /\ job[q].ev.view = job[q].view /\ pc[q] \in Appending
      BY <2>2, <2>4 DEF Owed, VInv, SInv, ProcsOK, Fits
    <3>2. lock = q
      BY <1>3, <3>1, MarksDiffer DEF VInv, SInv, ProcsOK, Fits
    <3> QED
      BY <3>2, MarksDiffer DEF Rebuild
  <2>5. Kept(a, i)
    BY <2>2, <2>3, <2>4 DEF VInv, OwedOK
  <2> QED
    BY <2>2, <2>3, <2>5 DEF Durable, Placeful
<1>5. ASSUME NEW x \in settled, x.view = v  PROVE x.n <= e.n
  <2>1. x \in Event /\ Durable(x)
    BY DEF VInv, SInv, HistOK, ViewsOK, SettledOK
  <2>2. CASE x \notin lost
    <3>1. x \in Folded
      BY <2>1, <2>2, FoldableNotGlued DEF VInv, SInv, Rebuild
    <3> QED
      BY <1>3, <1>5, <3>1
  <2>3. CASE x \in lost  \* what was appended since is later
    <3>1. PICK a \in Actors : e \in Lines(file[a])
      BY DEF LatestOf, Folded
    <3>2. PICK i \in DOMAIN file[a] : file[a][i] = e /\ e # Torn
      BY <3>1 DEF Lines
    <3>3. i \in Pos(a) /\ file[a] \in Seq(Event \cup {Torn})
      BY <3>2 DEF VInv, SInv, LogInv, Pos
    <3>4. Placed(a, i) /\ e \in Event
      BY <3>2, <3>3 DEF VInv, SInv, LogInv
    <3>5. x.n < e.n /\ x.n \in Nat /\ e.n \in Nat
      BY <2>1, <2>3, <3>2, <3>4, EventTyped DEF Placed
    <3> QED
      BY <3>5
  <2> QED
    BY <2>2, <2>3
<1>6. PICK j : j = [Idle EXCEPT !.ev = e, !.view = v]
  OBVIOUS
<1>7. j.ev = e /\ j.view = v
  BY <1>6 DEF Idle
<1>8. UNCHANGED <<log, view, kept, count, settled, glued, lost>> /\ pc[p] \notin Appending
  BY DEF Rebuild, dir, hist, Appending
<1>9. Durable(e)'
  BY <1>4, <1>8, SameLog, DurableStays DEF VInv, SInv
<1>10. Backed("create", j)'
  BY <1>5, <1>7, <1>8, <1>9 DEF Backed, Appending, Replacing
<1>11. pc' = [pc EXCEPT ![p] = "create"] /\ job' = [job EXCEPT ![p] = j]
  BY <1>2, <1>6 DEF Rebuild, Step
<1> QED
  BY <1>8, <1>10, <1>11, PlainStep

LEMMA CreateTempKeeps == ASSUME VInv, SInv', NEW p \in Procs, CreateTemp(p)  PROVE VInv'
<1>1. PICK j \in JobType : j = job[p]
  BY JobTyped DEF CreateTemp, Replacing, VInv
<1> DEFINE i == [n |-> j.ev.n, synced |-> FALSE]
<1>2. i.n = j.ev.n
  OBVIOUS
<1> HIDE DEF i
<1> DEFINE k == [j EXCEPT !.inode = i]
<1>3. k.ev = j.ev /\ k.view = j.view /\ k.inode = i
  BY DEF JobType
<1>4. job' = [job EXCEPT ![p] = k]
  <2>1. job' = [job EXCEPT ![p] = [job[p] EXCEPT !.inode = [n |-> job[p].ev.n, synced |-> FALSE]]]
    BY Zenon DEF CreateTemp
  <2> QED
    BY <1>1, <2>1 DEF i
<1> HIDE DEF k
<1>5. Backed("create", j)
  BY <1>1 DEF VInv, ViewsOK, CreateTemp
<1>6. UNCHANGED <<log, view, kept, count, settled, glued, lost>> /\ pc[p] \notin Appending
  BY DEF CreateTemp, hist, Appending
<1>7. Durable(k.ev)'
  BY <1>3, <1>5, <1>6, SameLog, DurableStays DEF VInv, SInv, Backed, Replacing
<1>8. Backed("temp", k)'
  BY <1>2, <1>3, <1>5, <1>6, <1>7 DEF Backed, Appending, Replacing
<1> QED
  BY <1>4, <1>6, <1>8, PlainStep DEF CreateTemp, Step

LEMMA SyncTempKeeps == ASSUME VInv, SInv', NEW p \in Procs, SyncTemp(p)  PROVE VInv'
<1>1. PICK j \in JobType : j = job[p]
  BY JobTyped DEF SyncTemp, Replacing, VInv
<1> DEFINE i == [j.inode EXCEPT !.synced = TRUE]
<1>2. i.n = j.inode.n /\ i.synced
  BY DEF JobType, Inode
<1> HIDE DEF i
<1> DEFINE k == [j EXCEPT !.inode = i]
<1>3. k.ev = j.ev /\ k.view = j.view /\ k.inode = i
  BY DEF JobType
<1>4. job' = [job EXCEPT ![p] = k]
  <2>1. job' = [job EXCEPT ![p] = [job[p] EXCEPT !.inode = [job[p].inode EXCEPT !.synced = TRUE]]]
    BY Zenon DEF SyncTemp
  <2> QED
    BY <1>1, <2>1 DEF i
<1> HIDE DEF k
<1>5. Backed("temp", j)
  BY <1>1 DEF VInv, ViewsOK, SyncTemp
<1>6. UNCHANGED <<log, view, kept, count, settled, glued, lost>> /\ pc[p] \notin Appending
  BY DEF SyncTemp, dir, hist, Appending
<1>7. Durable(k.ev)'
  BY <1>3, <1>5, <1>6, SameLog, DurableStays DEF VInv, SInv, Backed, Replacing
<1>8. Backed("rename", k)'
  BY <1>2, <1>3, <1>5, <1>6, <1>7 DEF Backed, Appending, Replacing
<1> QED
  BY <1>4, <1>6, <1>8, PlainStep DEF SyncTemp, Step

(* While p replaces a view, nobody else does, or is about to.              *)
LEMMA Alone ==
  ASSUME SInv, NEW p \in Procs, pc[p] \in Replacing, NEW q \in Procs \ {p}
  PROVE  pc[q] \notin Replacing /\ (pc[q] \in Appending => job[q].view = None)
BY DEF SInv, ProcsOK, Fits

LEMMA RenameKeeps == ASSUME VInv, SInv', NEW p \in Procs, Rename(p)  PROVE VInv'
<1>1. PICK j \in JobType : j = job[p] /\ j.ev \in Event /\ j.view \in Views /\ j.ev.view = j.view
  BY JobTyped DEF Rename, Replacing, VInv
<1>2. Backed("rename", j) /\ j.ev.n \in 1..MaxEvents /\ j.ev.n # Torn
  BY <1>1, EventTyped DEF VInv, ViewsOK, Rename
<1>3. /\ pc' = [pc EXCEPT ![p] = "renamed"] /\ UNCHANGED <<kept, settled, job, log, count, glued, lost>>
      /\ view' = [view EXCEPT ![j.view] = j.inode]
  BY <1>1 DEF Rename, Step, hist
<1>4. /\ pc'[p] = "renamed" /\ job'[p] = j /\ pc[p] = "rename"
      /\ \A q \in Procs \ {p} : pc'[q] = pc[q] /\ job'[q] = job[q]
      /\ view'[j.view] = j.inode /\ \A v \in Views \ {j.view} : view'[v] = view[v]
  BY <1>1, <1>3 DEF VInv, SInv, ProcsOK, HistOK, Rename
<1>5. LogGrows /\ KeptStays
  BY <1>3, SameLog DEF VInv, SInv
<1>6. OwedOK'
  <2>1. \A a \in Actors : \A i \in Pos(a)' : file'[a][i] # Torn => i \in Pos(a)
    BY <1>3 DEF log, Pos
  <2> QED
    BY <1>4, <1>5, <2>1, OwedKeeps DEF VInv, Appending
<1>7. Durable(j.ev)' /\ j.inode.n = j.ev.n /\ j.inode.synced
  BY <1>2, <1>5, DurableStays DEF Backed, Replacing
<1>8. ASSUME NEW v \in Views  PROVE Sound(v, view[v])' /\ Sound(v, kept[v])'
  <2>1. PICK k : k = kept[v]
    OBVIOUS
  <2>2. Sound(v, k)' /\ kept'[v] = k
    BY <1>3, <1>5, <2>1, SoundStays DEF VInv, ViewsOK
  <2>3. Sound(v, view[v])'
    <3>1. CASE v = j.view
      BY <1>1, <1>2, <1>4, <1>7, <3>1 DEF Sound
    <3>2. CASE v # j.view
      <4>1. PICK i : i = view[v]
        OBVIOUS
      <4>2. Sound(v, i)' /\ view'[v] = i
        BY <1>4, <1>5, <3>2, <4>1, SoundStays DEF VInv, ViewsOK
      <4> QED
        BY <4>2 DEF Sound
    <3> QED
      BY <3>1, <3>2
  <2> QED
    BY <2>2, <2>3 DEF Sound
<1>9. SettledOK'
  <2>1. ASSUME NEW e \in settled
        PROVE  /\ Durable(e)' /\ e.view \in Views
               /\ e.n <= view'[e.view].n /\ e.n <= kept[e.view].n
    <3>1. Durable(e)' /\ e.view \in Views /\ e.n <= view[e.view].n /\ e.n <= kept[e.view].n
      BY <1>5, DurableStays DEF VInv, ViewsOK, SettledOK
    <3>2. e.view = j.view => e.n <= j.ev.n
      BY <1>1, <1>2, MarksDiffer DEF Backed, Appending, Replacing
    <3> QED
      BY <1>4, <1>7, <3>1, <3>2
  <2> QED
    BY <1>3, <2>1 DEF SettledOK
<1>10. ASSUME NEW q \in Procs  PROVE Backed(pc[q], job[q])'
  <2>1. CASE q = p
    BY <1>2, <1>3, <1>4, <1>7, <2>1 DEF Backed, Appending, Replacing
  <2>2. CASE q # p
    <3>1. pc[q] \notin Replacing /\ (pc[q] \in Appending => job[q].view = None)
      BY <1>4, <2>2, Alone DEF VInv, Replacing
    <3> QED
      BY <1>4, <2>2, <3>1 DEF Backed, Replacing
  <2> QED
    BY <2>1, <2>2
<1> QED
  BY <1>6, <1>8, <1>9, <1>10 DEF VInv, ViewsOK

LEMMA SyncDirKeeps == ASSUME VInv, SInv', NEW p \in Procs, SyncDir(p)  PROVE VInv'
<1>1. PICK j \in JobType : j = job[p] /\ j.ev \in Event /\ j.view \in Views /\ j.ev.view = j.view
  BY JobTyped DEF SyncDir, Replacing, VInv
<1>2. Backed("renamed", j) /\ j.ev.n \in 1..MaxEvents
  BY <1>1, EventTyped DEF VInv, ViewsOK, SyncDir
<1>3. /\ pc' = [pc EXCEPT ![p] = "idle"] /\ job' = [job EXCEPT ![p] = Idle]
      /\ UNCHANGED <<view, log, count, glued, lost>> /\ settled' = settled \cup {j.ev}
      /\ kept' = [kept EXCEPT ![j.view] = view[j.view]] /\ pc[p] = "renamed"
  BY <1>1 DEF SyncDir, Return, Step
<1>4. /\ pc'[p] = "idle" /\ job'[p] = Idle
      /\ \A q \in Procs \ {p} : pc'[q] = pc[q] /\ job'[q] = job[q]
      /\ kept'[j.view] = view[j.view] /\ \A v \in Views \ {j.view} : kept'[v] = kept[v]
  BY <1>1, <1>3 DEF VInv, SInv, ProcsOK, HistOK
<1>5. LogGrows /\ KeptStays
  BY <1>3, SameLog DEF VInv, SInv
<1>6. OwedOK'
  <2>1. \A a \in Actors : \A i \in Pos(a)' : file'[a][i] # Torn => i \in Pos(a)
    BY <1>3 DEF log, Pos
  <2> QED
    BY <1>3, <1>4, <1>5, <2>1, OwedKeeps DEF VInv, Appending
<1>7. Durable(j.ev)' /\ view[j.view].n = j.ev.n
  BY <1>2, <1>5, DurableStays DEF Backed, Replacing
<1>8. ASSUME NEW v \in Views  PROVE Sound(v, view[v])' /\ Sound(v, kept[v])'
  <2>1. PICK i : i = view[v]
    OBVIOUS
  <2>2. PICK k : k = kept'[v]
    OBVIOUS
  <2>3. Sound(v, i) /\ Sound(v, k)
    BY <1>4, <2>1, <2>2 DEF VInv, ViewsOK
  <2>4. Sound(v, i)' /\ Sound(v, k)' /\ view'[v] = i
    BY <1>3, <1>5, <2>1, <2>3, SoundStays
  <2> QED
    BY <2>2, <2>4 DEF Sound
<1>9. SettledOK'
  <2>1. ASSUME NEW e \in settled
        PROVE  /\ Durable(e)' /\ e.view \in Views
               /\ e.n <= view[e.view].n /\ e.n <= kept'[e.view].n
    <3>1. Durable(e)' /\ e.view \in Views /\ e.n <= view[e.view].n /\ e.n <= kept[e.view].n
      BY <1>5, DurableStays DEF VInv, ViewsOK, SettledOK
    <3> QED
      BY <1>4, <3>1
  <2>2. j.ev.n <= view[j.view].n /\ j.ev.n <= kept'[j.view].n
    BY <1>2, <1>4, <1>7
  <2>3. ASSUME NEW e \in settled'
        PROVE  /\ Durable(e)' /\ e.view \in Views
               /\ e.n <= view'[e.view].n /\ e.n <= kept'[e.view].n
    BY <1>1, <1>3, <1>7, <2>1, <2>2
  <2> QED
    BY <2>3 DEF SettledOK
<1>10. ASSUME NEW q \in Procs  PROVE Backed(pc[q], job[q])'
  <2>1. CASE q = p
    BY <1>4, <2>1 DEF Backed, Appending, Replacing
  <2>2. CASE q # p
    <3>1. pc[q] \notin Replacing /\ (pc[q] \in Appending => job[q].view = None)
      BY <1>3, <2>2, Alone DEF VInv, Replacing
    <3> QED
      BY <1>4, <2>2, <3>1 DEF Backed, Replacing
  <2> QED
    BY <2>1, <2>2
<1> QED
  BY <1>6, <1>8, <1>9, <1>10 DEF VInv, ViewsOK

LEMMA DieKeeps == ASSUME Careful, VInv, SInv', NEW p \in Procs, Die(p)  PROVE VInv'
<1>1. pc[p] \notin Appending /\ UNCHANGED <<log, view, kept, count, settled, glued, lost>>
  BY DEF Careful, Die, dir, hist
<1>2. Backed("idle", Idle)'
  BY DEF Backed, Appending, Replacing
<1> QED
  BY <1>1, <1>2, PlainStep DEF Die, Return, Step

LEMMA PowerLossKeeps == ASSUME VInv, SInv', PowerLoss  PROVE VInv'
<1>1. /\ \A e : Durable(e) /\ e \in Event => Durable(e)'
      /\ \A a \in Actors : \A i \in Pos(a)' : Kept(a, i)'
  BY PowerLossLog DEF VInv, SInv
<1>2. OwedOK'
  BY <1>1 DEF OwedOK
<1>3. PICK gone \in SUBSET Views, w \in [Views -> UNION {ViewsLeft(v) : v \in Views}] :
         /\ \A v \in Views : w[v] \in ViewsLeft(v)
         /\ view' = [v \in Views |-> IF v \in gone THEN NoFile
                                     ELSE [w[v] EXCEPT !.synced = TRUE]]
         /\ home' = [v \in Views |-> IF v \in gone \/ home[v] = "none" THEN "none" ELSE "durable"]
         /\ settled' = {e \in settled : e.view \notin gone}
  BY LossOfViews
<1>4. ASSUME NEW v \in Views
      PROVE  /\ (view'[v] = NoFile /\ v \in gone) \/ view'[v] \in {view[v], kept[v]}
             /\ kept'[v] = view'[v]
  <2>1. PICK i \in ViewsLeft(v) : i = w[v]
    BY <1>3
  <2>2. view[v].synced /\ kept[v].synced /\ view[v] \in Inode /\ kept[v] \in Inode
    BY DEF VInv, ViewsOK, Sound, SInv, HistOK
  <2>3. i \in {view[v], kept[v]}
    BY <2>2, ViewsLeftTyped DEF VInv, SInv
  <2>4. [i EXCEPT !.synced = TRUE] = i
    BY <2>2, <2>3 DEF Inode
  <2> QED
    BY <1>3, <2>1, <2>3, <2>4 DEF PowerLoss
<1>5. ASSUME NEW v \in Views  PROVE Sound(v, view[v])' /\ Sound(v, kept[v])'
  <2>1. PICK i : i = view'[v]
    OBVIOUS
  <2>2. Sound(v, i) /\ kept'[v] = i
    <3>1. Sound(v, NoFile)
      BY EventTyped, MaxEventsIsNat DEF Sound, NoFile
    <3> QED
      BY <1>4, <2>1, <3>1 DEF VInv, ViewsOK
  <2>3. Sound(v, i)'
    BY <1>1, <2>2 DEF Sound
  <2> QED
    BY <2>1, <2>2, <2>3 DEF Sound
<1>6. SettledOK'
  <2>1. ASSUME NEW e \in settled'
        PROVE  /\ Durable(e)' /\ e.view \in Views
               /\ e.n <= view'[e.view].n /\ e.n <= kept'[e.view].n
    <3>1. e \in settled /\ e \in Event /\ e.view \notin gone
      BY <1>3, <2>1 DEF VInv, SInv, HistOK
    <3>2. Durable(e)' /\ e.view \in Views /\ e.n <= view[e.view].n /\ e.n <= kept[e.view].n
      BY <1>1, <3>1 DEF VInv, ViewsOK, SettledOK
    <3> QED
      BY <1>4, <3>1, <3>2
  <2> QED
    BY <2>1 DEF SettledOK
<1>7. ASSUME NEW p \in Procs  PROVE Backed(pc[p], job[p])'
  BY DEF PowerLoss, Backed, Appending, Replacing
<1> QED
  BY <1>2, <1>5, <1>6, <1>7 DEF VInv, ViewsOK

LEMMA InitKeeps == Init => VInv
<1> SUFFICES ASSUME Init PROVE VInv
  OBVIOUS
<1>1. SInv
  BY InitOK
<1>2. \A a \in Actors : Pos(a) = {}
  BY DEF Init, Pos
<1>3. \A v \in Views : Sound(v, view[v]) /\ Sound(v, kept[v])
  BY EventTyped, MaxEventsIsNat DEF Init, Sound, NoFile
<1>4. \A p \in Procs : Backed(pc[p], job[p])
  BY DEF Init, Backed, Appending, Replacing
<1> QED
  BY <1>1, <1>2, <1>3, <1>4 DEF Init, VInv, OwedOK, ViewsOK, SettledOK

LEMMA NextKeeps == ASSUME Careful, VInv, [Next]_vars  PROVE VInv'
<1>1. SInv'
  BY NextOK DEF VInv
<1>2. ASSUME NEW p \in Procs, Fold(p) \/ AppendRaw(p) \/ ShortWrite(p) \/ SyncFile(p) \/ LinkFile(p)
      PROVE  VInv'
  BY <1>1, <1>2, FoldKeeps, AppendRawKeeps, ShortWriteKeeps, SyncFileKeeps, LinkFileKeeps
<1>3. ASSUME NEW p \in Procs, Rebuild(p) \/ CreateTemp(p) \/ SyncTemp(p) \/ Rename(p) \/ SyncDir(p)
      PROVE  VInv'
  BY <1>1, <1>3, RebuildKeeps, CreateTempKeeps, SyncTempKeeps, RenameKeeps, SyncDirKeeps
<1>4. ASSUME NEW p \in Procs, Die(p)  PROVE VInv'
  BY <1>1, <1>4, DieKeeps
<1>5. CASE PowerLoss
  BY <1>1, <1>5, PowerLossKeeps
<1>6. CASE WriteBack \/ UNCHANGED vars
  <2>1. UNCHANGED <<pc, job, file, synced, linked, view, kept, settled, lost>>
    BY <1>6 DEF WriteBack, vars, log, dir, hist
  <2>2. OwedOK'
    BY <2>1 DEF VInv, OwedOK, Owed, Kept, Pos
  <2>3. ViewsOK'
    BY <2>1 DEF VInv, ViewsOK, Sound, SettledOK, Backed, Durable, Placeful, Kept, Pos
  <2> QED
    BY <1>1, <2>2, <2>3 DEF VInv
<1> QED
  BY <1>2, <1>3, <1>4, <1>5, <1>6 DEF Next

LEMMA ViewsInvariant == ASSUME Careful PROVE Spec => []VInv
<1>1. VInv /\ [Next]_vars => VInv'
  BY NextKeeps
<1> QED
  BY <1>1, InitKeeps, PTL DEF Spec

(* Unless a process is killed between the write and the fsyncs: what a     *)
(* view file says is an event of the log, also after a power loss, or one  *)
(* that went with events/.                                                 *)
THEOREM LogAheadOfViews == ASSUME Careful PROVE Spec => []ViewsBackedByLog
<1>1. VInv => ViewsBackedByLog
  <2> SUFFICES ASSUME VInv, NEW v \in Views, view[v].n \in 1..MaxEvents
               PROVE  [n |-> view[v].n, view |-> v] \in Folded \cup glued \cup lost
    BY DEF ViewsBackedByLog
  <2>1. view[v].n # 0
    OBVIOUS
  <2>2. PICK e \in Event : e.n = view[v].n /\ e.view = v /\ Durable(e)
    BY <2>1 DEF VInv, ViewsOK, Sound
  <2>3. e = [n |-> view[v].n, view |-> v]
    BY <2>2 DEF Event
  <2> QED
    BY <2>2, <2>3, DurableFolded DEF VInv, SInv
<1> QED
  BY <1>1, ViewsInvariant, PTL

(* Under the same condition: nobody ever finds part of a view, and a view  *)
(* whose write returned is not rolled back behind it where its directory   *)
(* stays.                                                                  *)
THEOREM ViewsAreWholeAndKept == ASSUME Careful PROVE Spec => []ViewsWholeAndKept
<1>1. VInv => ViewsWholeAndKept
  BY DEF VInv, ViewsOK, SettledOK, Sound, ViewsWholeAndKept
<1> QED
  BY <1>1, ViewsInvariant, PTL
=============================================================================
