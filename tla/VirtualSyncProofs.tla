------------------------ MODULE VirtualSyncProofs ------------------------
(***************************************************************************)
(* Virtual semaphores and delays for any number of processes, semaphores   *)
(* and nodes: who waits will be woken exactly once (OneWakeUp), a virtual  *)
(* semaphore on which no two have counted at once says how many wait for   *)
(* it (ValueCounts), a V goes astray only over a gap, and nobody returns   *)
(* early from a DELAY.                                                     *)
(***************************************************************************)
EXTENDS VirtualSync, QueueLemmas

(* A SYSCALL 11 or 12 is about one semaphore, until it returns.            *)
Serving == Counting \cup {"vInsert", "vRemove", "post"}
Waiting(p) == at[p] \in {"wait", "asleep"}

PlaceInv ==
  /\ \A p \in User :
       /\ at[p] \in Serving => on[p] # NONE
       /\ at[p] \in {"user", "list", "delay", "dead"} => on[p] = NONE
       /\ at[p] = "P store" => seen[p] > -Cardinality(User)
       /\ at[p] = "V store" => seen[p] < MaxVal
       /\ to[p] # NONE <=> at[p] = "post"
  /\ daemon.to # NONE <=> daemon.at = "post"
  /\ ~started => avsl = <<>> /\ adl = <<>> /\ daemon.at = "none"
  /\ started \in BOOLEAN /\ served \in BOOLEAN

(* Whoever is to be woken is still in the SYSCALL for which it is, and who *)
(* is to be woken from a DELAY has waited its time, or has it in the list. *)
WhyInv ==
  /\ \A i \in DOMAIN avsl : avsl[i].sem # NONE => on[avsl[i].proc] = avsl[i].sem
  /\ \A i \in DOMAIN adl : on[adl[i].proc] = NONE /\ left[adl[i].proc] = adl[i].wake
  /\ \A p \in User : to[p] # NONE => on[to[p]] # NONE
  /\ daemon.to # NONE => on[daemon.to] = NONE /\ left[daemon.to] <= 0
  /\ \A p \in User : Tp_sem[p] > 0 /\ on[p] = NONE => left[p] <= 0

(* OneWakeUp, also of a machine that has stopped.                          *)
Pending(p) == Nodes(p) + Entries(p) + Posters(p) + (IF Tp_sem[p] > 0 THEN 1 ELSE 0)
Asked(p)   == IF Waiting(p) /\ p \notin deaf THEN 1 ELSE 0

WakeInv ==
  \A p \in User :
    /\ Pending(p) = Asked(p)
    /\ Tp_sem[p] < 0 <=> at[p] = "asleep"
    /\ p \in deaf => Waiting(p)
    /\ started /\ p \in deaf => on[p] # NONE

(* A count that is about to be stored is still the value, at most one      *)
(* process is between its count and its test, and until the test the value *)
(* is one ahead of those who wait.                                         *)
Excess(v) == IF v < 0 THEN -v ELSE 0
Testing(s, where) == {p \in User : on[p] = s /\ at[p] = where}
Waits(s) ==
  On(s, {"vInsert"}) + Cardinality(Waiters(s)) + Deaf(s) - On(s, {"vRemove"})

Counted(s) ==
  /\ \A p \in Testing(s, "P store") \cup Testing(s, "V store") : seen[p] = sem[s]
  /\ \A p, q \in Testing(s, "P test") \cup Testing(s, "V test") : p = q
  /\ \A p \in Testing(s, "P test") : Waits(s) = Excess(sem[s] + 1)
  /\ \A p \in Testing(s, "V test") : Waits(s) = Excess(sem[s] - 1)
  /\ Testing(s, "P test") \cup Testing(s, "V test") = {} => Waits(s) = Excess(sem[s])

ValueInv == \A s \in Sem \ raced : Counted(s)

IInv == TypeOK /\ PlaceInv /\ WhyInv /\ WakeInv /\ ValueInv

---------------------------------------------------------------------------
VNode == [sem : Sem \cup {NONE}, proc : User]
DNode == [wake : -MaxLate..MaxDelay, proc : User]

LEMMA ElementTypes ==
  ASSUME TypeOK
  PROVE  /\ \A i \in DOMAIN avsl : /\ avsl[i].proc \in User /\ avsl[i].sem \in Sem \cup {NONE}
                                    /\ i \in 1..Len(avsl)
         /\ \A i \in DOMAIN adl : /\ adl[i].proc \in User /\ adl[i].wake \in -MaxLate..MaxDelay
                                   /\ i \in 1..Len(adl)
         /\ \A q \in User : to[q] # NONE => to[q] \in User
         /\ daemon.to # NONE => daemon.to \in User
         /\ Tp_sem \in [User -> Int] /\ NONE \notin User \cup Sem
         /\ daemon.since \in 0..MaxLate
<1>0. avsl \in Seq(VNode) /\ adl \in Seq(DNode)
  BY DEF TypeOK, VNode, DNode
<1>1. \A i \in DOMAIN avsl : avsl[i] \in VNode /\ i \in 1..Len(avsl)
  BY <1>0
<1>2. \A i \in DOMAIN adl : adl[i] \in DNode /\ i \in 1..Len(adl)
  BY <1>0
<1>3. daemon.to \in User \cup {NONE} /\ daemon.since \in 0..MaxLate
  BY DEF TypeOK
<1>4. to \in [User -> User \cup {NONE}] /\ Tp_sem \in [User -> Int]
  BY DEF TypeOK
<1> QED
  BY <1>1, <1>2, <1>3, <1>4, SyncAssumption DEF VNode, DNode

(* Counts.                                                                 *)
NodeOf(p)   == {e \in VNode : e.proc = p /\ e.sem # NONE}
WaiterOf(s) == {e \in VNode : e.sem = s}
EntryOf(p)  == {e \in DNode : e.proc = p}
PostersOf(p) == {q \in User : to[q] = p}

LEMMA NodesAre ==
  ASSUME avsl \in Seq(VNode)
  PROVE  /\ \A p : Nodes(p) = CountIn(avsl, NodeOf(p))
         /\ \A s : Cardinality(Waiters(s)) = CountIn(avsl, WaiterOf(s))
<1>1. \A i \in DOMAIN avsl : avsl[i] \in VNode
  OBVIOUS
<1>2. ASSUME NEW p PROVE Nodes(p) = CountIn(avsl, NodeOf(p))
  <2>1. {i \in DOMAIN avsl : avsl[i] \in NodeOf(p)} = {i \in DOMAIN avsl : avsl[i].proc = p /\ avsl[i].sem # NONE}
    BY <1>1 DEF NodeOf
  <2> QED
    BY <2>1 DEF CountIn, Nodes
<1>3. ASSUME NEW s PROVE Cardinality(Waiters(s)) = CountIn(avsl, WaiterOf(s))
  <2>1. {i \in DOMAIN avsl : avsl[i] \in WaiterOf(s)} = {i \in DOMAIN avsl : avsl[i].sem = s}
    BY <1>1 DEF WaiterOf
  <2> QED
    BY <2>1 DEF CountIn, Waiters
<1> QED
  BY <1>2, <1>3

LEMMA NodesWillBe ==
  ASSUME avsl' \in Seq(VNode)
  PROVE  /\ \A p : Nodes(p)' = CountIn(avsl', NodeOf(p))
         /\ \A s : Cardinality(Waiters(s))' = CountIn(avsl', WaiterOf(s))
<1>1. \A i \in DOMAIN avsl' : avsl'[i] \in VNode
  OBVIOUS
<1>2. ASSUME NEW p PROVE Nodes(p)' = CountIn(avsl', NodeOf(p))
  <2>1. {i \in DOMAIN avsl' : avsl'[i] \in NodeOf(p)} = {i \in DOMAIN avsl' : avsl'[i].proc = p /\ avsl'[i].sem # NONE}
    BY <1>1 DEF NodeOf
  <2> QED
    BY <2>1 DEF CountIn, Nodes
<1>3. ASSUME NEW s PROVE Cardinality(Waiters(s))' = CountIn(avsl', WaiterOf(s))
  <2>1. {i \in DOMAIN avsl' : avsl'[i] \in WaiterOf(s)} = {i \in DOMAIN avsl' : avsl'[i].sem = s}
    BY <1>1 DEF WaiterOf
  <2> QED
    BY <2>1 DEF CountIn, Waiters
<1> QED
  BY <1>2, <1>3

LEMMA EntriesAre ==
  ASSUME adl \in Seq(DNode)
  PROVE  \A p : Entries(p) = CountIn(adl, EntryOf(p))
<1>1. \A i \in DOMAIN adl : adl[i] \in DNode
  OBVIOUS
<1>2. ASSUME NEW p PROVE Entries(p) = CountIn(adl, EntryOf(p))
  <2>1. {i \in DOMAIN adl : adl[i] \in EntryOf(p)} = {i \in DOMAIN adl : adl[i].proc = p}
    BY <1>1 DEF EntryOf
  <2> QED
    BY <2>1 DEF CountIn, Entries
<1> QED
  BY <1>2

LEMMA EntriesWillBe ==
  ASSUME adl' \in Seq(DNode)
  PROVE  \A p : Entries(p)' = CountIn(adl', EntryOf(p))
<1>1. \A i \in DOMAIN adl' : adl'[i] \in DNode
  OBVIOUS
<1>2. ASSUME NEW p PROVE Entries(p)' = CountIn(adl', EntryOf(p))
  <2>1. {i \in DOMAIN adl' : adl'[i] \in EntryOf(p)} = {i \in DOMAIN adl' : adl'[i].proc = p}
    BY <1>1 DEF EntryOf
  <2> QED
    BY <2>1 DEF CountIn, Entries
<1> QED
  BY <1>2

(* What the counts of wake-ups are, and when they are not zero.            *)
LEMMA CountFacts ==
  ASSUME TypeOK
  PROVE  /\ \A p \in User : /\ Nodes(p) \in Nat /\ Entries(p) \in Nat
                             /\ Cardinality(PostersOf(p)) \in Nat
                             /\ IsFiniteSet(PostersOf(p))
         /\ \A i \in DOMAIN avsl : avsl[i].sem # NONE => Nodes(avsl[i].proc) >= 1
         /\ \A i \in DOMAIN adl : Entries(adl[i].proc) >= 1
         /\ \A q \in User : to[q] # NONE => Cardinality(PostersOf(to[q])) >= 1
         /\ \A p \in User : Entries(p) <= 1 =>
              \A i, j \in DOMAIN adl : adl[i].proc = p /\ adl[j].proc = p => i = j
         /\ \A p, q \in User : to[p] = to[q] /\ to[p] # NONE
                               /\ Cardinality(PostersOf(to[p])) <= 1 => p = q
<1>1. avsl \in Seq(VNode) /\ adl \in Seq(DNode) /\ to \in [User -> User \cup {NONE}]
  BY DEF TypeOK, VNode, DNode
<1>2. /\ \A i \in DOMAIN avsl : avsl[i] \in VNode
      /\ \A i \in DOMAIN adl : adl[i] \in DNode
  BY <1>1
<1>3. ASSUME NEW p PROVE Nodes(p) = CountIn(avsl, NodeOf(p)) /\ Entries(p) = CountIn(adl, EntryOf(p))
  BY <1>1, NodesAre, EntriesAre
<1>11. ASSUME NEW A
       PROVE  /\ CountIn(avsl, A) \in Nat
              /\ CountIn(avsl, A) = 0 <=> \A i \in DOMAIN avsl : avsl[i] \notin A
  BY <1>1, CountInType
<1>12. ASSUME NEW A
       PROVE  /\ CountIn(adl, A) \in Nat
              /\ CountIn(adl, A) = 0 <=> \A i \in DOMAIN adl : adl[i] \notin A
              /\ CountIn(adl, A) <= 1 <=>
                   \A i, j \in DOMAIN adl : adl[i] \in A /\ adl[j] \in A => i = j
  BY <1>1, CountInType
<1>4. ASSUME NEW p PROVE Nodes(p) \in Nat /\ Entries(p) \in Nat
  BY <1>3, <1>11, <1>12
<1>5. ASSUME NEW i \in DOMAIN avsl, avsl[i].sem # NONE PROVE Nodes(avsl[i].proc) >= 1
  <2> DEFINE p == avsl[i].proc
  <2>1. avsl[i] \in NodeOf(p)
    BY <1>2, <1>5 DEF NodeOf
  <2>2. Nodes(p) # 0
    BY <1>3, <1>11, <2>1
  <2> QED
    BY <1>4, <2>2
<1>6. ASSUME NEW i \in DOMAIN adl PROVE Entries(adl[i].proc) >= 1
  <2> DEFINE p == adl[i].proc
  <2>1. adl[i] \in EntryOf(p)
    BY <1>2 DEF EntryOf
  <2>2. Entries(p) # 0
    BY <1>3, <1>12, <2>1
  <2> QED
    BY <1>4, <2>2
<1>7. ASSUME NEW p PROVE IsFiniteSet(PostersOf(p)) /\ Cardinality(PostersOf(p)) \in Nat
  BY SyncAssumption, FS_Subset, FS_CardinalityType DEF PostersOf
<1>8. ASSUME NEW q \in User PROVE Cardinality(PostersOf(to[q])) >= 1
  <2>1. PostersOf(to[q]) # {}
    BY DEF PostersOf
  <2>2. Cardinality(PostersOf(to[q])) # 0
    BY <1>7, <2>1, FS_EmptySet
  <2> QED
    BY <1>7, <2>2
<1>9. ASSUME NEW p \in User, Entries(p) <= 1,
             NEW i \in DOMAIN adl, NEW j \in DOMAIN adl, adl[i].proc = p, adl[j].proc = p
      PROVE  i = j
  <2>1. adl[i] \in EntryOf(p) /\ adl[j] \in EntryOf(p)
    BY <1>2, <1>9 DEF EntryOf
  <2> QED
    BY <1>3, <1>9, <1>12, <2>1
<1>10. ASSUME NEW p \in User, NEW q \in User, to[p] = to[q], Cardinality(PostersOf(to[p])) <= 1
       PROVE  p = q
  <2>1. p \in PostersOf(to[p]) /\ q \in PostersOf(to[p])
    BY <1>10 DEF PostersOf
  <2>2. Cardinality(PostersOf(to[p])) = 1
    BY <1>7, <1>8, <1>10
  <2>3. \E x : PostersOf(to[p]) = {x}
    BY <1>7, <2>2, FS_Singleton
  <2> QED
    BY <2>1, <2>3
<1> QED
  BY <1>4, <1>5, <1>6, <1>7, <1>8, <1>9, <1>10

(* Whoever has one wake-up has no other, and waits.                        *)
LEMMA Exclusive ==
  ASSUME TypeOK, WakeInv
  PROVE  /\ \A i \in DOMAIN avsl : avsl[i].sem # NONE =>
               /\ Waiting(avsl[i].proc) /\ avsl[i].proc \notin deaf /\ Tp_sem[avsl[i].proc] <= 0
               /\ daemon.to # avsl[i].proc /\ \A q \in User : to[q] # avsl[i].proc
         /\ \A i \in DOMAIN adl :
               /\ Waiting(adl[i].proc) /\ adl[i].proc \notin deaf /\ Tp_sem[adl[i].proc] <= 0
               /\ daemon.to # adl[i].proc /\ \A q \in User : to[q] # adl[i].proc
               /\ \A j \in DOMAIN adl : adl[i].proc = adl[j].proc => i = j
         /\ \A q \in User : to[q] # NONE =>
               /\ Waiting(to[q]) /\ to[q] \notin deaf /\ Tp_sem[to[q]] <= 0
               /\ daemon.to # to[q] /\ \A r \in User : to[r] = to[q] => r = q
         /\ daemon.to # NONE =>
               /\ Waiting(daemon.to) /\ daemon.to \notin deaf /\ Tp_sem[daemon.to] <= 0
         /\ \A p \in User : Tp_sem[p] > 0 => at[p] = "wait" /\ p \notin deaf
<1>1. /\ \A i \in DOMAIN avsl : avsl[i].proc \in User
      /\ \A i \in DOMAIN adl : adl[i].proc \in User
      /\ \A q \in User : to[q] # NONE => to[q] \in User
      /\ daemon.to # NONE => daemon.to \in User
      /\ Tp_sem \in [User -> Int] /\ NONE \notin User
  BY ElementTypes
<1> DEFINE N(p) == Nodes(p)
           E(p) == Entries(p)
           P(p) == Cardinality(PostersOf(p))
           D(p) == IF daemon.to = p THEN 1 ELSE 0
           T(p) == IF Tp_sem[p] > 0 THEN 1 ELSE 0
<1>2. ASSUME NEW p \in User
      PROVE  /\ N(p) \in Nat /\ E(p) \in Nat /\ P(p) \in Nat
             /\ N(p) + E(p) + (P(p) + D(p)) + T(p) = Asked(p)
  BY CountFacts DEF WakeInv, Pending, Posters, PostersOf
<1>3. ASSUME NEW p \in User, N(p) + E(p) + P(p) + D(p) + T(p) >= 1
      PROVE  /\ Waiting(p) /\ p \notin deaf
             /\ N(p) >= 1 => P(p) = 0 /\ D(p) = 0 /\ T(p) = 0
             /\ E(p) >= 1 => P(p) = 0 /\ D(p) = 0 /\ T(p) = 0
             /\ P(p) >= 1 => D(p) = 0 /\ T(p) = 0
             /\ D(p) >= 1 => T(p) = 0
             /\ E(p) <= 1 /\ P(p) <= 1
  BY <1>2, <1>3 DEF Asked
<1>4. ASSUME NEW p \in User, P(p) = 0, NEW q \in User PROVE to[q] # p
  BY <1>1, <1>4, CountFacts
<1>5. ASSUME NEW i \in DOMAIN avsl, avsl[i].sem # NONE
      PROVE  /\ Waiting(avsl[i].proc) /\ avsl[i].proc \notin deaf /\ Tp_sem[avsl[i].proc] <= 0
             /\ daemon.to # avsl[i].proc /\ \A q \in User : to[q] # avsl[i].proc
  <2> DEFINE p == avsl[i].proc
  <2>1. p \in User /\ N(p) >= 1
    BY <1>1, <1>5, CountFacts
  <2>2. Waiting(p) /\ p \notin deaf /\ P(p) = 0 /\ D(p) = 0 /\ T(p) = 0
    BY <1>2, <1>3, <2>1
  <2> QED
    BY <1>1, <1>4, <2>1, <2>2
<1>6. ASSUME NEW i \in DOMAIN adl
      PROVE  /\ Waiting(adl[i].proc) /\ adl[i].proc \notin deaf /\ Tp_sem[adl[i].proc] <= 0
             /\ daemon.to # adl[i].proc /\ \A q \in User : to[q] # adl[i].proc
             /\ \A j \in DOMAIN adl : adl[i].proc = adl[j].proc => i = j
  <2> DEFINE p == adl[i].proc
  <2>1. p \in User /\ E(p) >= 1
    BY <1>1, CountFacts
  <2>2. Waiting(p) /\ p \notin deaf /\ P(p) = 0 /\ D(p) = 0 /\ T(p) = 0 /\ E(p) <= 1
    BY <1>2, <1>3, <2>1
  <2>3. \A j \in DOMAIN adl : adl[i].proc = adl[j].proc => i = j
    BY <2>1, <2>2, CountFacts
  <2> QED
    BY <1>1, <1>4, <2>1, <2>2, <2>3
<1>7. ASSUME NEW q \in User, to[q] # NONE
      PROVE  /\ Waiting(to[q]) /\ to[q] \notin deaf /\ Tp_sem[to[q]] <= 0
             /\ daemon.to # to[q] /\ \A r \in User : to[r] = to[q] => r = q
  <2>1. to[q] \in User /\ P(to[q]) >= 1
    BY <1>1, <1>7, CountFacts
  <2>2. Waiting(to[q]) /\ to[q] \notin deaf /\ D(to[q]) = 0 /\ T(to[q]) = 0 /\ P(to[q]) <= 1
    BY <1>2, <1>3, <2>1
  <2>3. \A r \in User : to[r] = to[q] => r = q
    BY <1>7, <2>2, CountFacts
  <2> QED
    BY <1>1, <2>1, <2>2, <2>3
<1>8. ASSUME daemon.to # NONE
      PROVE  Waiting(daemon.to) /\ daemon.to \notin deaf /\ Tp_sem[daemon.to] <= 0
  BY <1>1, <1>2, <1>3, <1>8
<1>9. ASSUME NEW p \in User, Tp_sem[p] > 0 PROVE at[p] = "wait" /\ p \notin deaf
  <2>1. Waiting(p) /\ p \notin deaf
    BY <1>2, <1>3, <1>9
  <2>2. ~ (Tp_sem[p] < 0)
    BY <1>1, <1>9
  <2> QED
    BY <2>1, <2>2 DEF WakeInv, Waiting
<1> QED
  BY <1>5, <1>6, <1>7, <1>8, <1>9

(* What the operations on the lists do to the counts.                      *)
LEMMA NodeAdded ==
  ASSUME TypeOK, NEW e \in VNode, avsl' = Append(avsl, e)
  PROVE  /\ avsl' \in Seq(VNode) /\ Len(avsl') = Len(avsl) + 1
         /\ \A i \in DOMAIN avsl' : avsl'[i] = e \/ \E j \in DOMAIN avsl : avsl'[i] = avsl[j]
         /\ \A p \in User : Nodes(p)' = Nodes(p) + (IF e.proc = p /\ e.sem # NONE THEN 1 ELSE 0)
         /\ \A s \in Sem : Cardinality(Waiters(s))' =
                            Cardinality(Waiters(s)) + (IF e.sem = s THEN 1 ELSE 0)
<1>1. avsl \in Seq(VNode)
  BY DEF TypeOK, VNode
<1>2. /\ avsl' \in Seq(VNode) /\ Len(avsl') = Len(avsl) + 1
      /\ \A i \in DOMAIN avsl' : avsl'[i] = e \/ \E j \in DOMAIN avsl : avsl'[i] = avsl[j]
  BY <1>1
<1>3. ASSUME NEW A PROVE CountIn(avsl', A) = CountIn(avsl, A) + (IF e \in A THEN 1 ELSE 0)
  BY <1>1, AppendCount
<1>4. ASSUME NEW p \in User
      PROVE  Nodes(p)' = Nodes(p) + (IF e.proc = p /\ e.sem # NONE THEN 1 ELSE 0)
  <2>4. Nodes(p) = CountIn(avsl, NodeOf(p))
    BY <1>1, NodesAre
  <2>3. Nodes(p)' = CountIn(avsl', NodeOf(p))
    BY <1>2, NodesWillBe
  <2>2. e \in NodeOf(p) <=> e.proc = p /\ e.sem # NONE
    BY DEF NodeOf
  <2> QED
    BY <1>3, <2>2, <2>3, <2>4
<1>5. ASSUME NEW s \in Sem
      PROVE  Cardinality(Waiters(s))' = Cardinality(Waiters(s)) + (IF e.sem = s THEN 1 ELSE 0)
  <2>1. Cardinality(Waiters(s)) = CountIn(avsl, WaiterOf(s))
    BY <1>1, NodesAre
  <2>3. Cardinality(Waiters(s))' = CountIn(avsl', WaiterOf(s))
    BY <1>2, NodesWillBe
  <2>2. e \in WaiterOf(s) <=> e.sem = s
    BY DEF WaiterOf
  <2> QED
    BY <1>3, <2>1, <2>2, <2>3
<1> QED
  BY <1>2, <1>4, <1>5

LEMMA NodeRemoved ==
  ASSUME TypeOK, NEW i \in 1..Len(avsl), avsl' = RemoveAt(avsl, i)
  PROVE  /\ avsl' \in Seq(VNode) /\ Len(avsl') = Len(avsl) - 1
         /\ \A k \in DOMAIN avsl' : \E j \in DOMAIN avsl : avsl'[k] = avsl[j]
         /\ \A p \in User : /\ Nodes(p)' \in Nat
                            /\ Nodes(p) = Nodes(p)' +
                                 (IF avsl[i].proc = p /\ avsl[i].sem # NONE THEN 1 ELSE 0)
         /\ \A s \in Sem : Cardinality(Waiters(s)) =
                            Cardinality(Waiters(s))' + (IF avsl[i].sem = s THEN 1 ELSE 0)
<1>1. avsl \in Seq(VNode) /\ avsl[i] \in VNode /\ DOMAIN avsl = 1..Len(avsl) /\ Len(avsl) \in Nat
  <2>1. avsl \in Seq(VNode)
    BY DEF TypeOK, VNode
  <2> QED
    BY <2>1
<1>2. /\ avsl' \in Seq(VNode) /\ Len(avsl') = Len(avsl) - 1
      /\ \A k \in 1..(i - 1) : avsl'[k] = avsl[k]
      /\ \A k \in i..(Len(avsl) - 1) : avsl'[k] = avsl[k + 1]
  BY <1>1, RemoveAtShifts
<1>3. ASSUME NEW k \in DOMAIN avsl' PROVE \E j \in DOMAIN avsl : avsl'[k] = avsl[j]
  <2>1. k \in 1..(Len(avsl) - 1) /\ k \in DOMAIN avsl /\ k + 1 \in DOMAIN avsl
    BY <1>1, <1>2
  <2>2. k \in 1..(i - 1) \/ k \in i..(Len(avsl) - 1)
    BY <1>1, <2>1
  <2> QED
    BY <1>2, <2>1, <2>2
<1>4. ASSUME NEW A PROVE CountIn(avsl, A) = CountIn(avsl', A) + (IF avsl[i] \in A THEN 1 ELSE 0)
  BY <1>1, RemoveAtCount
<1>5. ASSUME NEW p \in User
      PROVE  /\ Nodes(p)' \in Nat
             /\ Nodes(p) = Nodes(p)' + (IF avsl[i].proc = p /\ avsl[i].sem # NONE THEN 1 ELSE 0)
  <2>4. Nodes(p) = CountIn(avsl, NodeOf(p))
    BY <1>1, NodesAre
  <2>5. Nodes(p)' = CountIn(avsl', NodeOf(p))
    BY <1>2, NodesWillBe
  <2>2. avsl[i] \in NodeOf(p) <=> avsl[i].proc = p /\ avsl[i].sem # NONE
    BY <1>1 DEF NodeOf
  <2>3. CountIn(avsl', NodeOf(p)) \in Nat
    BY <1>2, CountInType
  <2> QED
    BY <1>4, <2>2, <2>3, <2>4, <2>5
<1>6. ASSUME NEW s \in Sem
      PROVE  Cardinality(Waiters(s)) =
             Cardinality(Waiters(s))' + (IF avsl[i].sem = s THEN 1 ELSE 0)
  <2>1. Cardinality(Waiters(s)) = CountIn(avsl, WaiterOf(s))
    BY <1>1, NodesAre
  <2>3. Cardinality(Waiters(s))' = CountIn(avsl', WaiterOf(s))
    BY <1>2, NodesWillBe
  <2>2. avsl[i] \in WaiterOf(s) <=> avsl[i].sem = s
    BY <1>1 DEF WaiterOf
  <2> QED
    BY <1>4, <2>1, <2>2, <2>3
<1> QED
  BY <1>2, <1>3, <1>5, <1>6

LEMMA EntryAdded ==
  ASSUME TypeOK, NEW e \in DNode, adl' = Place(adl, e)
  PROVE  /\ adl' \in Seq(DNode) /\ Len(adl') = Len(adl) + 1
         /\ \A i \in DOMAIN adl' : adl'[i] = e \/ \E j \in DOMAIN adl : adl'[i] = adl[j]
         /\ \A p \in User : Entries(p)' = Entries(p) + (IF e.proc = p THEN 1 ELSE 0)
<1>1. adl \in Seq(DNode) /\ Len(adl) \in Nat
  BY DEF TypeOK, DNode
<1> DEFINE later == {i \in 2..Len(adl) : adl[i].wake >= e.wake}
           k == IF later = {} THEN Len(adl) + 1 ELSE Min(later)
<1>2. k \in 1..(Len(adl) + 1)
  <2>1. later # {} => Min(later) \in later
    <3>1. later \in SUBSET Nat
      BY <1>1
    <3> QED
      BY <3>1, LeastPosition
  <2> QED
    BY <1>1, <2>1
<1>3. adl' = InsertAt(adl, k, e)
  BY DEF Place
<1> HIDE DEF later, k
<1>4. /\ adl' \in Seq(DNode) /\ Len(adl') = Len(adl) + 1
      /\ adl'[k] = e
      /\ \A i \in 1..(k - 1) : adl'[i] = adl[i]
      /\ \A i \in k..Len(adl) : adl'[i + 1] = adl[i]
  BY <1>1, <1>2, <1>3, InsertAtShifts
<1>5. ASSUME NEW i \in DOMAIN adl' PROVE adl'[i] = e \/ \E j \in DOMAIN adl : adl'[i] = adl[j]
  <2>1. i \in 1..(Len(adl) + 1) /\ DOMAIN adl = 1..Len(adl)
    BY <1>1, <1>4
  <2>2. CASE i < k
    BY <1>2, <1>4, <2>1, <2>2
  <2>3. CASE i > k
    <3>1. i - 1 \in k..Len(adl) /\ (i - 1) + 1 = i /\ i - 1 \in DOMAIN adl
      BY <1>1, <1>2, <2>1, <2>3
    <3>2. adl'[i] = adl[i - 1]
      BY <1>4, <3>1
    <3> QED
      BY <3>1, <3>2
  <2>4. i < k \/ i > k \/ i = k
    BY <1>2, <2>1
  <2> QED
    BY <1>4, <2>2, <2>3, <2>4
<1>6. ASSUME NEW A PROVE CountIn(adl', A) = CountIn(adl, A) + (IF e \in A THEN 1 ELSE 0)
  BY <1>1, <1>2, <1>3, InsertAtCount
<1>7. ASSUME NEW p \in User PROVE Entries(p)' = Entries(p) + (IF e.proc = p THEN 1 ELSE 0)
  <2>1. Entries(p) = CountIn(adl, EntryOf(p)) /\ Entries(p)' = CountIn(adl', EntryOf(p))
    BY <1>1, <1>4, EntriesAre, EntriesWillBe
  <2>2. e \in EntryOf(p) <=> e.proc = p
    BY DEF EntryOf
  <2> QED
    BY <1>6, <2>1, <2>2
<1> QED
  BY <1>4, <1>5, <1>7

LEMMA EntryRemoved ==
  ASSUME TypeOK, adl # <<>>, adl' = Tail(adl)
  PROVE  /\ adl' \in Seq(DNode) /\ Len(adl') = Len(adl) - 1
         /\ \A i \in DOMAIN adl' : \E j \in DOMAIN adl : adl'[i] = adl[j]
         /\ \A p \in User : /\ Entries(p)' \in Nat
                            /\ Entries(p) = Entries(p)' + (IF Head(adl).proc = p THEN 1 ELSE 0)
         /\ 1 \in DOMAIN adl /\ Head(adl) = adl[1]
<1>1. /\ adl \in Seq(DNode) /\ adl' \in Seq(DNode) /\ Len(adl') = Len(adl) - 1
      /\ \A i \in DOMAIN adl' : adl'[i] = adl[i + 1] /\ i + 1 \in DOMAIN adl
      /\ 1 \in DOMAIN adl /\ Head(adl) = adl[1] /\ adl[1] \in DNode
  <2>1. adl \in Seq(DNode)
    BY DEF TypeOK, DNode
  <2> QED
    BY <2>1
<1>2. ASSUME NEW A PROVE CountIn(adl, A) = CountIn(adl', A) + (IF Head(adl) \in A THEN 1 ELSE 0)
  BY <1>1, TailCount
<1>3. ASSUME NEW p \in User
      PROVE  Entries(p)' \in Nat /\ Entries(p) = Entries(p)' + (IF Head(adl).proc = p THEN 1 ELSE 0)
  <2>1. Entries(p) = CountIn(adl, EntryOf(p)) /\ Entries(p)' = CountIn(adl', EntryOf(p))
    BY <1>1, EntriesAre, EntriesWillBe
  <2>2. Head(adl) \in EntryOf(p) <=> Head(adl).proc = p
    BY <1>1 DEF EntryOf
  <2>3. CountIn(adl', EntryOf(p)) \in Nat
    BY <1>1, CountInType
  <2> QED
    BY <1>2, <2>1, <2>2, <2>3
<1> QED
  BY <1>1, <1>3

LEMMA PosterChanged ==
  ASSUME TypeOK, NEW p \in User, NEW v, to' = [to EXCEPT ![p] = v]
  PROVE  \A x \in User : Cardinality(PostersOf(x))' + (IF to[p] = x THEN 1 ELSE 0) =
                         Cardinality(PostersOf(x)) + (IF v = x THEN 1 ELSE 0)
<1> SUFFICES ASSUME NEW x \in User
             PROVE  Cardinality(PostersOf(x))' + (IF to[p] = x THEN 1 ELSE 0) =
                    Cardinality(PostersOf(x)) + (IF v = x THEN 1 ELSE 0)
  OBVIOUS
<1> DEFINE A == {q \in User : to[q] = x}
           B == {q \in User : to'[q] = x}
<1>1. \A q \in User : to'[q] = IF q = p THEN v ELSE to[q]
  BY DEF TypeOK
<1>2. A \ {p} = B \ {p} /\ (p \in A <=> to[p] = x) /\ (p \in B <=> v = x)
  BY <1>1
<1>3. IsFiniteSet(A)
  BY SyncAssumption, FS_Subset
<1> HIDE DEF A, B
<1>4. Cardinality(A) + (IF p \in B THEN 1 ELSE 0) = Cardinality(B) + (IF p \in A THEN 1 ELSE 0)
  BY <1>2, <1>3, OneChange
<1>5. Cardinality(PostersOf(x)) = Cardinality(A) /\ Cardinality(PostersOf(x))' = Cardinality(B)
  BY DEF PostersOf, A, B
<1> QED
  BY <1>2, <1>4, <1>5

---------------------------------------------------------------------------
(* Types.                                                                  *)
Places == Counting \cup {"user", "vInsert", "vRemove", "wait", "asleep",
                          "post", "list", "delay", "dead"}
DaemonType == [at : {"none", "asleep", "woken", "scan", "post"},
               to : User \cup {NONE}, since : 0..MaxLate]

(* Lists that nobody initialises have no node and stay empty.              *)
LEMMA EmptyLists ==
  ASSUME PlaceInv, ~started
  PROVE  Len(avsl) = 0 /\ Len(adl) = 0
  BY DEF PlaceInv

LEMMA FirstWaiter ==
  ASSUME TypeOK, NEW s, Waiters(s) # {}
  PROVE  /\ Min(Waiters(s)) \in 1..Len(avsl) /\ Min(Waiters(s)) \in DOMAIN avsl
         /\ avsl[Min(Waiters(s))].sem = s
<1>1. \A i \in DOMAIN avsl : i \in 1..Len(avsl)
  BY ElementTypes
<1>2. Waiters(s) \in SUBSET Nat /\ Waiters(s) # {}
  BY <1>1 DEF Waiters
<1>3. Min(Waiters(s)) \in Waiters(s)
  BY <1>2, LeastPosition
<1> QED
  BY <1>1, <1>3 DEF Waiters

LEMMA HeadEntry ==
  ASSUME TypeOK, adl # <<>>
  PROVE  /\ 1 \in DOMAIN adl /\ Head(adl) = adl[1]
         /\ Head(adl).proc \in User /\ Head(adl).wake \in -MaxLate..MaxDelay
<1>1. adl \in Seq(DNode)
  BY DEF TypeOK, DNode
<1>2. 1 \in DOMAIN adl /\ Head(adl) = adl[1]
  BY <1>1
<1> QED
  BY <1>2, ElementTypes

LEMMA TickEntries ==
  ASSUME TypeOK, adl' = [i \in DOMAIN adl |-> [adl[i] EXCEPT !.wake = Sooner(@)]]
  PROVE  /\ adl' \in Seq(DNode) /\ Len(adl') = Len(adl)
         /\ DOMAIN adl' = DOMAIN adl
         /\ \A i \in DOMAIN adl : /\ adl'[i].proc = adl[i].proc
                                   /\ adl'[i].wake = Sooner(adl[i].wake)
<1>1. adl \in Seq(DNode) /\ MaxLate \in Nat /\ MaxDelay \in Nat
  BY SyncAssumption DEF TypeOK, DNode
<1>2. DOMAIN adl = 1..Len(adl) /\ Len(adl) \in Nat /\ \A i \in DOMAIN adl : adl[i] \in DNode
  BY <1>1
<1>3. \A t \in -MaxLate..MaxDelay : Sooner(t) \in -MaxLate..MaxDelay
  BY <1>1 DEF Sooner
<1>4. ASSUME NEW i \in DOMAIN adl
      PROVE  /\ adl'[i] \in DNode /\ adl'[i].proc = adl[i].proc
             /\ adl'[i].wake = Sooner(adl[i].wake)
  BY <1>2, <1>3 DEF DNode
<1>5. adl' \in [1..Len(adl) -> DNode]
  BY <1>2, <1>4
<1>6. adl' \in Seq(DNode) /\ Len(adl') = Len(adl) /\ DOMAIN adl' = DOMAIN adl
  BY <1>2, <1>5
<1> QED
  BY <1>4, <1>6

LEMMA OneMoreOrLess ==
  ASSUME NEW n \in Nat, NEW m \in Nat, NEW v \in -n..m
  PROVE  /\ v > -n => v + (-1) \in -n..m
         /\ v < m => v + 1 \in -n..m
         /\ 0 \in -n..m
  OBVIOUS

LEMMA TypeStep ==
  ASSUME TypeOK, PlaceInv, WakeInv, [Next]_vars
  PROVE  TypeOK'
<1> USE DEF At, DaemonAt, Go
<1>0. /\ IsFiniteSet(User) /\ Cardinality(User) \in Nat /\ NONE \notin User \cup Sem
      /\ VirtNodes \in Nat /\ MaxDelay \in Nat /\ MaxVal \in Nat \ {0} /\ MaxLate \in Nat
  BY SyncAssumption, FS_CardinalityType
<1>1. CASE UNCHANGED vars
  BY <1>1 DEF TypeOK, vars, procs, lists, setup
<1>2. ASSUME NEW p \in User, NEW s \in Sem, PLoad(p, s) PROVE TypeOK'
  BY <1>2 DEF PLoad, Load, TypeOK, Counting, lists, setup
<1>3. ASSUME NEW p \in User, NEW s \in Sem, VLoad(p, s) PROVE TypeOK'
  BY <1>3 DEF VLoad, Load, TypeOK, Counting, lists, setup
<1>4. ASSUME NEW p \in User, PStore(p) PROVE TypeOK'
  <2>1. /\ at[p] = "P store" /\ seen[p] \in -Cardinality(User)..MaxVal
        /\ on[p] \in Sem \cup {NONE}
    BY <1>4 DEF PStore, TypeOK
  <2>2. on[p] # NONE /\ seen[p] > -Cardinality(User)
    BY <2>1 DEF PlaceInv, Serving, Counting
  <2>3. seen[p] + (-1) \in -Cardinality(User)..MaxVal /\ 0 \in -Cardinality(User)..MaxVal
    BY <1>0, <2>1, <2>2, OneMoreOrLess
  <2> QED
    BY <1>4, <2>1, <2>2, <2>3 DEF PStore, Store, TypeOK, Counting, lists, setup
<1>5. ASSUME NEW p \in User, VStore(p) PROVE TypeOK'
  <2>1. /\ at[p] = "V store" /\ seen[p] \in -Cardinality(User)..MaxVal
        /\ on[p] \in Sem \cup {NONE}
    BY <1>5 DEF VStore, TypeOK
  <2>2. on[p] # NONE /\ seen[p] < MaxVal
    BY <2>1 DEF PlaceInv, Serving, Counting
  <2>3. seen[p] + 1 \in -Cardinality(User)..MaxVal /\ 0 \in -Cardinality(User)..MaxVal
    BY <1>0, <2>1, <2>2, OneMoreOrLess
  <2> QED
    BY <1>5, <2>1, <2>2, <2>3 DEF VStore, Store, TypeOK, Counting, lists, setup
<1>6. ASSUME NEW p \in User, PTest(p) PROVE TypeOK'
  BY <1>6 DEF PTest, Test, TypeOK, Counting, lists, setup
<1>7. ASSUME NEW p \in User, VTest(p) PROVE TypeOK'
  BY <1>7 DEF VTest, Test, TypeOK, Counting, lists, setup
<1>8. ASSUME NEW p \in User, VInsert(p) PROVE TypeOK'
  <2>1. [sem |-> on[p], proc |-> p] \in VNode
    BY DEF TypeOK, VNode
  <2>2. avsl \in Seq(VNode) /\ Len(avsl) <= VirtNodes /\ Len(avsl) \in Nat
    BY DEF TypeOK, VNode
  <2>3. avsl' \in Seq(VNode) /\ Len(avsl') <= VirtNodes
    <3>1. CASE VirtFull
      BY <1>8, <2>2, <3>1 DEF VInsert, Unless
    <3>2. CASE ~VirtFull
      <4>1. avsl' = Append(avsl, [sem |-> on[p], proc |-> p])
        BY <1>8, <3>2 DEF VInsert, Unless
      <4>2. avsl' \in Seq(VNode) /\ Len(avsl') = Len(avsl) + 1
        BY <2>1, <4>1, NodeAdded
      <4>3. Len(avsl) # VirtNodes
        BY <3>2, EmptyLists DEF VirtFull
      <4> QED
        BY <1>0, <2>2, <4>2, <4>3
    <3> QED
      BY <3>1, <3>2
  <2>4. at' \in [User -> Places] /\ deaf' \subseteq User
    BY <1>8 DEF VInsert, TypeOK, Places, Counting
  <2> QED
    BY <1>8, <2>3, <2>4 DEF VInsert, TypeOK, VNode, Places, setup
<1>9. ASSUME NEW p \in User, PSem(p) PROVE TypeOK'
  <2>1. Tp_sem[p] - 1 \in -1..1
    <3>1. at[p] = "wait" /\ Tp_sem[p] \in -1..1
      BY <1>9 DEF PSem, TypeOK
    <3>2. ~ (Tp_sem[p] < 0)
      BY <3>1 DEF WakeInv
    <3> QED
      BY <3>1, <3>2
  <2> QED
    BY <1>9, <2>1 DEF PSem, TypeOK, lists, setup
<1>10. ASSUME NEW p \in User, VRemove(p) PROVE TypeOK'
  <2> DEFINE i == Min(Waiters(on[p]))
  <2>1. i \in 1..Len(avsl) /\ avsl[i].proc \in User /\ avsl' = RemoveAt(avsl, i)
    BY <1>10, FirstWaiter, ElementTypes DEF VRemove
  <2> HIDE DEF i
  <2>2. avsl' \in Seq(VNode) /\ Len(avsl') = Len(avsl) - 1
    BY <2>1, NodeRemoved
  <2>3. Len(avsl) \in Nat /\ Len(avsl) <= VirtNodes
    BY DEF TypeOK
  <2>4. avsl' \in Seq(VNode) /\ Len(avsl') <= VirtNodes
    BY <1>0, <2>2, <2>3
  <2>5. to' = [to EXCEPT ![p] = avsl[i].proc]
    BY <1>10 DEF VRemove, i
  <2>6. to' \in [User -> User \cup {NONE}]
    BY <2>1, <2>5 DEF TypeOK
  <2>7. at' \in [User -> Places]
    BY <1>10 DEF VRemove, TypeOK, Places, Counting
  <2> QED
    BY <1>10, <2>4, <2>6, <2>7 DEF VRemove, TypeOK, VNode, Places, setup
<1>11. ASSUME NEW p \in User, VRemoveBad(p) PROVE TypeOK'
  BY <1>11 DEF VRemoveBad, TypeOK, procs, lists, setup
<1>12. ASSUME NEW p \in User, Post(p) PROVE TypeOK'
  <2>1. to[p] \in User /\ Tp_sem[to[p]] + 1 \in -1..1
    <3>1. to[p] # NONE
      BY <1>12 DEF Post, PlaceInv
    <3>2. to[p] \in User /\ Tp_sem[to[p]] <= 0
      BY <3>1, Exclusive, ElementTypes
    <3>3. Tp_sem[to[p]] \in -1..1
      BY <3>2 DEF TypeOK
    <3> QED
      BY <3>2, <3>3
  <2>2. Tp_sem' \in [User -> -1..1]
    BY <1>12, <2>1 DEF Post, Verhogen, TypeOK
  <2>3. at' \in [User -> Places] /\ on' \in [User -> Sem \cup {NONE}]
    BY <1>12 DEF Post, TypeOK, Places, Counting
  <2>4. to' \in [User -> User \cup {NONE}]
    BY <1>12 DEF Post, TypeOK
  <2> QED
    BY <1>12, <2>2, <2>3, <2>4 DEF Post, TypeOK, Places, lists, setup
<1>13. ASSUME NEW p \in User, DelayCall(p) PROVE TypeOK'
  BY <1>13 DEF DelayCall, TypeOK, Counting, lists, setup
<1>14. ASSUME NEW p \in User, NEW d \in Delay, DelayNode(p, d) PROVE TypeOK'
  <2>1. [sem |-> NONE, proc |-> p] \in VNode
    BY DEF VNode
  <2>2. avsl \in Seq(VNode) /\ Len(avsl) <= VirtNodes /\ Len(avsl) \in Nat
    BY DEF TypeOK, VNode
  <2>3. avsl' \in Seq(VNode) /\ Len(avsl') <= VirtNodes
    <3>1. CASE VirtFull
      BY <1>14, <2>2, <3>1 DEF DelayNode, Unless
    <3>2. CASE ~VirtFull
      <4>1. avsl' = Append(avsl, [sem |-> NONE, proc |-> p])
        BY <1>14, <3>2 DEF DelayNode, Unless
      <4>2. avsl' \in Seq(VNode) /\ Len(avsl') = Len(avsl) + 1
        BY <2>1, <4>1, NodeAdded
      <4>3. Len(avsl) # VirtNodes
        BY <3>2, EmptyLists DEF VirtFull
      <4> QED
        BY <1>0, <2>2, <4>2, <4>3
    <3> QED
      BY <3>1, <3>2
  <2>4. d \in -MaxLate..MaxDelay
    BY <1>0 DEF Delay
  <2>5. at' \in [User -> Places] /\ left' \in [User -> -MaxLate..MaxDelay]
    BY <1>14, <2>4 DEF DelayNode, TypeOK, Places, Counting
  <2> QED
    BY <1>14, <2>3, <2>5 DEF DelayNode, TypeOK, VNode, Places, setup
<1>15. ASSUME NEW p \in User, InsertDelay(p) PROVE TypeOK'
  <2>1. [wake |-> left[p], proc |-> p] \in DNode
    BY DEF TypeOK, DNode
  <2>2. adl \in Seq(DNode) /\ Len(adl) <= DelayNodes /\ Len(adl) \in Nat /\ DelayNodes \in Nat
    BY <1>0 DEF TypeOK, DNode, DelayNodes
  <2>3. adl' \in Seq(DNode) /\ Len(adl') <= DelayNodes
    <3>1. CASE DelayFull
      BY <1>15, <2>2, <3>1 DEF InsertDelay
    <3>2. CASE ~DelayFull
      <4>1. adl' = Place(adl, [wake |-> left[p], proc |-> p])
        BY <1>15, <3>2 DEF InsertDelay
      <4>2. adl' \in Seq(DNode) /\ Len(adl') = Len(adl) + 1
        BY <2>1, <4>1, EntryAdded
      <4>3. Len(adl) # DelayNodes
        BY <3>2, EmptyLists DEF DelayFull
      <4> QED
        BY <2>2, <4>2, <4>3
    <3> QED
      BY <3>1, <3>2
  <2>4. at' \in [User -> Places] /\ deaf' \subseteq User
    BY <1>15 DEF InsertDelay, TypeOK, Places, Counting
  <2> QED
    BY <1>15, <2>3, <2>4 DEF InsertDelay, TypeOK, DNode, Places, setup
<1>16. ASSUME NEW p \in User, End(p) PROVE TypeOK'
  BY <1>16 DEF End, TypeOK, Counting, lists, setup
<1>17. CASE DaemonReads
  <2>1. daemon' \in DaemonType
    <3>1. daemon \in DaemonType /\ 0 \in 0..MaxLate
      BY <1>0 DEF TypeOK, DaemonType
    <3> QED
      BY <1>17, <3>1 DEF DaemonReads, DaemonType
  <2> QED
    BY <1>17, <2>1 DEF DaemonReads, TypeOK, DaemonType, procs, lists, setup
<1>18. CASE DaemonScans
  <2>1. adl \in Seq(DNode) /\ Len(adl) <= DelayNodes /\ Len(adl) \in Nat /\ DelayNodes \in Nat
    BY <1>0 DEF TypeOK, DNode, DelayNodes
  <2>2. CASE Due
    <3>1. adl # <<>> /\ adl' = Tail(adl)
      BY <1>18, <2>2 DEF DaemonScans, Due
    <3>2. adl' \in Seq(DNode) /\ Len(adl') <= DelayNodes /\ Head(adl).proc \in User
      BY <2>1, <3>1, EntryRemoved, ElementTypes
    <3>3. daemon' \in DaemonType
      BY <1>18, <2>2, <3>2 DEF DaemonScans, TypeOK, DaemonType
    <3> QED
      BY <1>18, <3>2, <3>3 DEF DaemonScans, TypeOK, DNode, DaemonType, procs, setup
  <2>3. CASE ~Due
    <3>2. daemon \in DaemonType /\ 0 \in 0..MaxLate
      BY <1>0 DEF TypeOK, DaemonType
    <3>1. daemon' \in DaemonType /\ adl' = adl
      BY <1>18, <2>3, <3>2 DEF DaemonScans, DaemonType
    <3> QED
      BY <1>18, <3>1 DEF DaemonScans, TypeOK, DaemonType, procs, setup
  <2> QED
    BY <2>2, <2>3
<1>19. CASE DaemonPosts
  <2>1. daemon.to \in User /\ Tp_sem[daemon.to] + 1 \in -1..1
    <3>1. daemon.to # NONE
      BY <1>19 DEF DaemonPosts, PlaceInv
    <3>2. daemon.to \in User /\ Tp_sem[daemon.to] <= 0
      BY <3>1, Exclusive, ElementTypes
    <3>3. Tp_sem[daemon.to] \in -1..1
      BY <3>2 DEF TypeOK
    <3> QED
      BY <3>2, <3>3
  <2>2. Tp_sem' \in [User -> -1..1]
    BY <1>19, <2>1 DEF DaemonPosts, Verhogen, TypeOK
  <2>3. at' \in [User -> Places]
    BY <1>19 DEF DaemonPosts, TypeOK, Places, Counting
  <2>4. daemon' \in DaemonType
    BY <1>19 DEF DaemonPosts, TypeOK, DaemonType
  <2> QED
    BY <1>19, <2>2, <2>3, <2>4 DEF DaemonPosts, TypeOK, Places, DaemonType, lists, setup
<1>20. CASE Tick
  <2>1. \A t \in -MaxLate..MaxDelay : Sooner(t) \in -MaxLate..MaxDelay
    BY <1>0 DEF Sooner
  <2>2. left' \in [User -> -MaxLate..MaxDelay]
    BY <1>0, <1>20, <2>1 DEF Tick, TypeOK
  <2>3. adl' \in Seq(DNode) /\ Len(adl') = Len(adl)
    BY <1>20, TickEntries DEF Tick
  <2>4. daemon' \in DaemonType
    <3>1. daemon \in DaemonType /\ daemon.since < MaxLate
      BY <1>20 DEF Tick, TypeOK, DaemonType
    <3>2. CASE daemon.at = "asleep"
      BY <1>20, <3>1, <3>2 DEF Tick, DaemonType
    <3>3. CASE daemon.at \in {"scan", "post"}
      <4>1. daemon.since + 1 \in 0..MaxLate
        BY <1>0, <3>1 DEF DaemonType
      <4>2. daemon' = [daemon EXCEPT !.since = @ + 1]
        BY <1>20, <3>3 DEF Tick
      <4> QED
        BY <3>1, <4>1, <4>2 DEF DaemonType
    <3>4. CASE daemon.at \notin {"asleep", "scan", "post"}
      BY <1>20, <3>1, <3>4 DEF Tick
    <3> QED
      BY <3>2, <3>3, <3>4
  <2> QED
    BY <1>20, <2>2, <2>3, <2>4 DEF Tick, TypeOK, DNode, DaemonType, setup
<1>21. CASE Tear
  BY <1>21 DEF Tear, TypeOK, procs, lists, setup
<1>22. CASE Rest
  BY <1>1, <1>22 DEF Rest
<1> QED
  BY <1>1, <1>2, <1>3, <1>4, <1>5, <1>6, <1>7, <1>8, <1>9, <1>10, <1>11, <1>12, <1>13,
     <1>14, <1>15, <1>16, <1>17, <1>18, <1>19, <1>20, <1>21, <1>22
     DEF Next, Kernel, Daemon

---------------------------------------------------------------------------
(* Where a process can be.                                                 *)
LEMMA PlaceStep ==
  ASSUME TypeOK, PlaceInv, WhyInv, [Next]_vars
  PROVE  PlaceInv'
<1> USE DEF At, DaemonAt, Go
<1>0. NONE \notin User \cup Sem /\ MaxVal \in Nat /\ Cardinality(User) \in Nat
  BY SyncAssumption, FS_CardinalityType
<1> DEFINE PT == /\ at \in [User -> Places] /\ on \in [User -> Sem \cup {NONE}]
                 /\ to \in [User -> User \cup {NONE}] /\ daemon \in DaemonType
                 /\ seen \in [User -> -Cardinality(User)..MaxVal]
<1>t. PT
  BY DEF TypeOK, Places, DaemonType
<1> HIDE DEF PT
<1> USE DEF Places, DaemonType
<1>f. ASSUME NEW p \in User, UNCHANGED <<to, avsl, adl, daemon, started, served>>,
             \A q \in User \ {p} : at'[q] = at[q] /\ on'[q] = on[q] /\ seen'[q] = seen[q],
             at[p] # "post", at'[p] \notin {"post", "P store", "V store"},
             at'[p] \in Serving => on'[p] # NONE,
             at'[p] \in {"user", "list", "delay", "dead"} => on'[p] = NONE
      PROVE  PlaceInv'
  BY <1>f DEF PlaceInv
<1>1. CASE UNCHANGED vars
  BY <1>1 DEF PlaceInv, vars, procs, lists, setup
<1>2. ASSUME NEW p \in User, NEW s \in Sem, PLoad(p, s) PROVE PlaceInv'
  BY <1>0, <1>t, <1>2 DEF PLoad, Load, PT, PlaceInv, Serving, Counting, lists, setup
<1>3. ASSUME NEW p \in User, NEW s \in Sem, VLoad(p, s) PROVE PlaceInv'
  BY <1>0, <1>t, <1>3 DEF VLoad, Load, PT, PlaceInv, Serving, Counting, lists, setup
<1>4. ASSUME NEW p \in User, PStore(p) PROVE PlaceInv'
  <2>1. at[p] = "P store" /\ on[p] # NONE
    BY <1>4 DEF PStore, PlaceInv, Serving, Counting
  <2>2. /\ UNCHANGED <<on, to, avsl, adl, daemon, started, served>> /\ at'[p] = "P test"
        /\ \A q \in User \ {p} : at'[q] = at[q] /\ seen'[q] = seen[q]
    BY <1>t, <1>4 DEF PStore, Store, PT, lists, setup
  <2> QED
    BY <2>1, <2>2, <1>f DEF Serving, Counting
<1>5. ASSUME NEW p \in User, VStore(p) PROVE PlaceInv'
  <2>1. at[p] = "V store" /\ on[p] # NONE
    BY <1>5 DEF VStore, PlaceInv, Serving, Counting
  <2>2. /\ UNCHANGED <<on, to, avsl, adl, daemon, started, served>> /\ at'[p] = "V test"
        /\ \A q \in User \ {p} : at'[q] = at[q] /\ seen'[q] = seen[q]
    BY <1>t, <1>5 DEF VStore, Store, PT, lists, setup
  <2> QED
    BY <2>1, <2>2, <1>f DEF Serving, Counting
<1>6. ASSUME NEW p \in User, PTest(p) PROVE PlaceInv'
  <2>1. at[p] = "P test" /\ on[p] # NONE
    BY <1>6 DEF PTest, PlaceInv, Serving, Counting
  <2>2. /\ UNCHANGED <<seen, to, avsl, adl, daemon, started, served>>
        /\ \A q \in User \ {p} : at'[q] = at[q] /\ on'[q] = on[q]
        /\ \/ at'[p] = "vInsert" /\ on'[p] = on[p]
           \/ at'[p] = "user" /\ on'[p] = NONE
    BY <1>t, <1>6 DEF PTest, Test, PT, lists, setup
  <2> QED
    BY <2>1, <2>2, <1>f DEF Serving, Counting
<1>7. ASSUME NEW p \in User, VTest(p) PROVE PlaceInv'
  <2>1. at[p] = "V test" /\ on[p] # NONE
    BY <1>7 DEF VTest, PlaceInv, Serving, Counting
  <2>2. /\ UNCHANGED <<seen, to, avsl, adl, daemon, started, served>>
        /\ \A q \in User \ {p} : at'[q] = at[q] /\ on'[q] = on[q]
        /\ \/ at'[p] = "vRemove" /\ on'[p] = on[p]
           \/ at'[p] = "user" /\ on'[p] = NONE
    BY <1>t, <1>7 DEF VTest, Test, PT, lists, setup
  <2> QED
    BY <2>1, <2>2, <1>f DEF Serving, Counting
<1>8. ASSUME NEW p \in User, VInsert(p) PROVE PlaceInv'
  <2>1. ~started => avsl' = avsl
    BY <1>8, EmptyLists DEF VInsert, Unless, VirtFull
  <2> QED
    BY <1>0, <1>t, <1>8, <2>1 DEF VInsert, PT, PlaceInv, Serving, Counting, setup
<1>9. ASSUME NEW p \in User, PSem(p) PROVE PlaceInv'
  <2>1. at[p] = "wait" /\ UNCHANGED <<to, seen, avsl, adl, daemon, started, served>>
    BY <1>9 DEF PSem, lists, setup
  <2>2. /\ \A q \in User \ {p} : at'[q] = at[q] /\ on'[q] = on[q]
        /\ \/ at'[p] = "asleep"
           \/ at'[p] = "user" /\ on'[p] = NONE
    BY <1>t, <1>9 DEF PSem, PT
  <2> QED
    BY <2>1, <2>2, <1>f DEF Serving, Counting
<1>10. ASSUME NEW p \in User, VRemove(p) PROVE PlaceInv'
  <2>1. Waiters(on[p]) # {} /\ avsl[Min(Waiters(on[p]))].proc \in User /\ started
    <3>1. Waiters(on[p]) # {}
      BY <1>10 DEF VRemove
    <3>2. Min(Waiters(on[p])) \in DOMAIN avsl
      BY <3>1, FirstWaiter
    <3>3. avsl # <<>>
      BY <3>2
    <3>4. started
      BY <3>3 DEF PlaceInv
    <3> QED
      BY <3>1, <3>2, <3>4, ElementTypes
  <2> QED
    BY <1>0, <1>t, <1>10, <2>1 DEF VRemove, PT, PlaceInv, Serving, Counting, setup
<1>11. ASSUME NEW p \in User, VRemoveBad(p) PROVE PlaceInv'
  BY <1>11 DEF VRemoveBad, PlaceInv, procs, lists, setup
<1>12. ASSUME NEW p \in User, Post(p) PROVE PlaceInv'
  BY <1>0, <1>t, <1>12 DEF Post, Woken, PT, PlaceInv, Serving, Counting, lists, setup
<1>13. ASSUME NEW p \in User, DelayCall(p) PROVE PlaceInv'
  BY <1>0, <1>t, <1>13 DEF DelayCall, PT, PlaceInv, Serving, Counting, lists, setup
<1>14. ASSUME NEW p \in User, NEW d \in Delay, DelayNode(p, d) PROVE PlaceInv'
  <2>1. ~started => avsl' = avsl
    BY <1>14, EmptyLists DEF DelayNode, Unless, VirtFull
  <2> QED
    BY <1>0, <1>t, <1>14, <2>1 DEF DelayNode, PT, PlaceInv, Serving, Counting, setup
<1>15. ASSUME NEW p \in User, InsertDelay(p) PROVE PlaceInv'
  <2>1. ~started => adl' = adl
    BY <1>15, EmptyLists DEF InsertDelay, DelayFull
  <2> QED
    BY <1>0, <1>t, <1>15, <2>1 DEF InsertDelay, PT, PlaceInv, Serving, Counting, setup
<1>16. ASSUME NEW p \in User, End(p) PROVE PlaceInv'
  BY <1>0, <1>t, <1>16 DEF End, PT, PlaceInv, Serving, Counting, lists, setup
<1>17. CASE DaemonReads
  BY <1>t, <1>17 DEF DaemonReads, PT, PlaceInv, procs, lists, setup
<1>18. CASE DaemonScans
  <2>1. Due => Head(adl).proc \in User
    BY HeadEntry DEF Due
  <2> QED
    BY <1>0, <1>t, <1>18, <2>1 DEF DaemonScans, PT, PlaceInv, procs, setup
<1>19. CASE DaemonPosts
  <2>1. daemon.to # NONE /\ on[daemon.to] = NONE
    BY <1>19 DEF DaemonPosts, PlaceInv, WhyInv
  <2> QED
    BY <1>0, <1>t, <1>19, <2>1 DEF DaemonPosts, Woken, PT, PlaceInv, Serving, Counting, lists, setup
<1>20. CASE Tick
  <2>1. adl = <<>> => adl' = <<>>
    <3>1. adl' \in Seq(DNode) /\ Len(adl') = Len(adl)
      BY <1>20, TickEntries DEF Tick
    <3> QED
      BY <3>1
  <2> QED
    BY <1>0, <1>t, <1>20, <2>1 DEF Tick, PT, PlaceInv, Serving, Counting, setup
<1>21. CASE Tear
  BY <1>21 DEF Tear, PlaceInv, procs, lists, setup
<1>22. CASE Rest
  BY <1>1, <1>22 DEF Rest
<1> QED
  BY <1>1, <1>2, <1>3, <1>4, <1>5, <1>6, <1>7, <1>8, <1>9, <1>10, <1>11, <1>12, <1>13,
     <1>14, <1>15, <1>16, <1>17, <1>18, <1>19, <1>20, <1>21, <1>22
     DEF Next, Kernel, Daemon

---------------------------------------------------------------------------
(* Who is to be woken, and from what.                                      *)
Unawaited(p) ==
  /\ \A i \in DOMAIN avsl : avsl[i].sem # NONE => avsl[i].proc # p
  /\ \A i \in DOMAIN adl : adl[i].proc # p
  /\ \A q \in User : to[q] # p
  /\ daemon.to # p

(* No one wakes a process that does not wait, nor one whose count waits.   *)
LEMMA NobodyWakes ==
  ASSUME TypeOK, WakeInv, NEW p \in User
  PROVE  /\ ~Waiting(p) \/ p \in deaf => Unawaited(p) /\ ~ (Tp_sem[p] > 0)
         /\ Tp_sem[p] > 0 => Unawaited(p)
<1>1. NONE # p /\ Tp_sem[p] \in Int
  BY ElementTypes
<1>2. ASSUME ~Waiting(p) \/ p \in deaf \/ ~ (Tp_sem[p] <= 0) PROVE Unawaited(p)
  <2>1. ASSUME NEW i \in DOMAIN avsl, avsl[i].sem # NONE PROVE avsl[i].proc # p
    BY <1>2, <2>1, Exclusive
  <2>2. ASSUME NEW i \in DOMAIN adl PROVE adl[i].proc # p
    BY <1>2, Exclusive
  <2>3. ASSUME NEW q \in User PROVE to[q] # p
    BY <1>1, <1>2, Exclusive
  <2>4. daemon.to # p
    BY <1>1, <1>2, Exclusive
  <2> QED
    BY <2>1, <2>2, <2>3, <2>4 DEF Unawaited
<1>3. ~Waiting(p) \/ p \in deaf => ~ (Tp_sem[p] > 0)
  BY Exclusive DEF Waiting
<1>4. Tp_sem[p] > 0 => ~ (Tp_sem[p] <= 0)
  BY <1>1
<1> QED
  BY <1>2, <1>3, <1>4

LEMMA WhyFrame ==
  ASSUME TypeOK, WhyInv, NEW p \in User, Unawaited(p), ~ (Tp_sem'[p] > 0),
         UNCHANGED <<adl, to>>, daemon'.to = daemon.to,
         \A i \in DOMAIN avsl' : \/ avsl'[i].sem = NONE
                                 \/ avsl'[i].sem = on'[avsl'[i].proc]
                                 \/ \E j \in DOMAIN avsl : avsl'[i] = avsl[j],
         \A q \in User \ {p} : on'[q] = on[q] /\ left'[q] = left[q] /\ Tp_sem'[q] = Tp_sem[q]
  PROVE  WhyInv'
<1>0. /\ \A i \in DOMAIN avsl : avsl[i].proc \in User
      /\ \A i \in DOMAIN adl : adl[i].proc \in User
      /\ \A q \in User : to[q] # NONE => to[q] \in User
      /\ daemon.to # NONE => daemon.to \in User
  BY ElementTypes
<1>1. ASSUME NEW i \in DOMAIN avsl', avsl'[i].sem # NONE
      PROVE  on'[avsl'[i].proc] = avsl'[i].sem
  <2>1. CASE avsl'[i].sem = on'[avsl'[i].proc]
    BY <2>1
  <2>2. CASE \E j \in DOMAIN avsl : avsl'[i] = avsl[j]
    BY <1>0, <1>1, <2>2 DEF WhyInv, Unawaited
  <2> QED
    BY <1>1, <2>1, <2>2
<1>2. \A i \in DOMAIN adl : on'[adl[i].proc] = NONE /\ left'[adl[i].proc] = adl[i].wake
  BY <1>0 DEF WhyInv, Unawaited
<1>3. \A q \in User : to[q] # NONE => on'[to[q]] # NONE
  BY <1>0 DEF WhyInv, Unawaited
<1>4. daemon.to # NONE => on'[daemon.to] = NONE /\ left'[daemon.to] <= 0
  BY <1>0 DEF WhyInv, Unawaited
<1>5. ASSUME NEW q \in User, Tp_sem'[q] > 0, on'[q] = NONE PROVE left'[q] <= 0
  <2>1. CASE q = p
    BY <1>5, <2>1
  <2>2. CASE q # p
    BY <1>5, <2>2 DEF WhyInv
  <2> QED
    BY <2>1, <2>2
<1> QED
  BY <1>1, <1>2, <1>3, <1>4, <1>5 DEF WhyInv

LEMMA WhyStep ==
  ASSUME TypeOK, PlaceInv, WhyInv, WakeInv, [Next]_vars
  PROVE  WhyInv'
<1> USE DEF At, DaemonAt, Go
<1>0. NONE \notin User \cup Sem
  BY SyncAssumption
<1> DEFINE PT == /\ at \in [User -> Places] /\ on \in [User -> Sem \cup {NONE}]
                 /\ to \in [User -> User \cup {NONE}] /\ daemon \in DaemonType
                 /\ Tp_sem \in [User -> -1..1] /\ left \in [User -> -MaxLate..MaxDelay]
<1>t. PT
  BY DEF TypeOK, Places, DaemonType
<1> HIDE DEF PT
<1>e. /\ \A i \in DOMAIN avsl : avsl[i].proc \in User
      /\ \A i \in DOMAIN adl : adl[i].proc \in User
      /\ \A q \in User : to[q] # NONE => to[q] \in User
      /\ daemon.to # NONE => daemon.to \in User
  BY ElementTypes
<1>n. ASSUME NEW p \in User, at[p] \notin {"wait", "asleep"}
      PROVE  Unawaited(p) /\ ~ (Tp_sem[p] > 0)
  BY <1>n, NobodyWakes DEF Waiting
<1>1. CASE UNCHANGED vars
  BY <1>1 DEF WhyInv, vars, procs, lists
<1>2. ASSUME NEW p \in User, NEW s \in Sem, PLoad(p, s) PROVE WhyInv'
  <2>1. at[p] = "user" /\ UNCHANGED <<Tp_sem, to, left, avsl, adl, daemon>>
        /\ \A q \in User \ {p} : on'[q] = on[q]
    BY <1>t, <1>2 DEF PLoad, Load, PT, lists
  <2> QED
    BY <1>n, <2>1, WhyFrame
<1>3. ASSUME NEW p \in User, NEW s \in Sem, VLoad(p, s) PROVE WhyInv'
  <2>1. at[p] = "user" /\ UNCHANGED <<Tp_sem, to, left, avsl, adl, daemon>>
        /\ \A q \in User \ {p} : on'[q] = on[q]
    BY <1>t, <1>3 DEF VLoad, Load, PT, lists
  <2> QED
    BY <1>n, <2>1, WhyFrame
<1>4. ASSUME NEW p \in User, PStore(p) PROVE WhyInv'
  BY <1>4 DEF PStore, Store, WhyInv, lists
<1>5. ASSUME NEW p \in User, VStore(p) PROVE WhyInv'
  BY <1>5 DEF VStore, Store, WhyInv, lists
<1>6. ASSUME NEW p \in User, PTest(p) PROVE WhyInv'
  <2>1. at[p] = "P test" /\ UNCHANGED <<Tp_sem, to, left, avsl, adl, daemon>>
        /\ \A q \in User \ {p} : on'[q] = on[q]
    BY <1>t, <1>6 DEF PTest, Test, PT, lists
  <2> QED
    BY <1>n, <2>1, WhyFrame
<1>7. ASSUME NEW p \in User, VTest(p) PROVE WhyInv'
  <2>1. at[p] = "V test" /\ UNCHANGED <<Tp_sem, to, left, avsl, adl, daemon>>
        /\ \A q \in User \ {p} : on'[q] = on[q]
    BY <1>t, <1>7 DEF VTest, Test, PT, lists
  <2> QED
    BY <1>n, <2>1, WhyFrame
<1>8. ASSUME NEW p \in User, VInsert(p) PROVE WhyInv'
  <2> DEFINE e == [sem |-> on[p], proc |-> p]
  <2>1. at[p] = "vInsert" /\ UNCHANGED <<Tp_sem, on, to, left, adl, daemon>>
        /\ (avsl' = avsl \/ avsl' = Append(avsl, e))
    BY <1>8 DEF VInsert, Unless
  <2>2. e \in VNode
    BY <1>t DEF PT, VNode
  <2>3. \A i \in DOMAIN avsl' : avsl'[i] = e \/ \E j \in DOMAIN avsl : avsl'[i] = avsl[j]
    BY <2>1, <2>2, NodeAdded
  <2>4. e.sem = on'[e.proc]
    BY <2>1
  <2> HIDE DEF e
  <2> QED
    BY <1>n, <2>1, <2>3, <2>4, WhyFrame
<1>9. ASSUME NEW p \in User, PSem(p) PROVE WhyInv'
  <2>1. /\ UNCHANGED <<to, left, avsl, adl, daemon>> /\ at[p] = "wait"
        /\ Tp_sem'[p] = Tp_sem[p] - 1 /\ \A q \in User \ {p} : Tp_sem'[q] = Tp_sem[q]
        /\ \A q \in User \ {p} : on'[q] = on[q]
        /\ Tp_sem'[p] < 0 => on' = on
    BY <1>t, <1>9 DEF PSem, PT, lists
  <2>2. Tp_sem[p] \in -1..1 /\ ~ (Tp_sem'[p] > 0)
    BY <1>t, <2>1 DEF PT
  <2>3. CASE Tp_sem[p] > 0
    BY <2>1, <2>2, <2>3, NobodyWakes, WhyFrame
  <2>4. CASE ~ (Tp_sem[p] > 0)
    <3>1. on' = on
      BY <2>1, <2>2, <2>4
    <3> QED
      BY <2>1, <2>2, <3>1 DEF WhyInv
  <2> QED
    BY <2>3, <2>4
<1>10. ASSUME NEW p \in User, VRemove(p) PROVE WhyInv'
  <2> DEFINE i == Min(Waiters(on[p]))
  <2>1. /\ at[p] = "vRemove" /\ Waiters(on[p]) # {} /\ avsl' = RemoveAt(avsl, i)
        /\ to' = [to EXCEPT ![p] = avsl[i].proc]
        /\ UNCHANGED <<Tp_sem, on, left, adl, daemon>>
    BY <1>10 DEF VRemove
  <2>2. i \in 1..Len(avsl) /\ i \in DOMAIN avsl /\ avsl[i].sem = on[p]
    BY <2>1, FirstWaiter
  <2> HIDE DEF i
  <2>3. \A k \in DOMAIN avsl' : \E j \in DOMAIN avsl : avsl'[k] = avsl[j]
    BY <2>1, <2>2, NodeRemoved
  <2>4. on[p] # NONE
    BY <2>1 DEF PlaceInv, Serving
  <2>5. on[avsl[i].proc] # NONE
    BY <2>2, <2>4 DEF WhyInv
  <2>6. \A q \in User : to'[q] # NONE => on[to'[q]] # NONE
    BY <1>t, <2>1, <2>5 DEF WhyInv, PT
  <2> QED
    BY <2>1, <2>3, <2>6 DEF WhyInv
<1>11. ASSUME NEW p \in User, VRemoveBad(p) PROVE WhyInv'
  BY <1>11 DEF VRemoveBad, WhyInv, procs, lists
<1>12. ASSUME NEW p \in User, Post(p) PROVE WhyInv'
  <2> DEFINE t == to[p]
  <2>1. /\ at[p] = "post" /\ UNCHANGED <<left, avsl, adl, daemon>>
        /\ \A q \in User : to'[q] = IF q = p THEN NONE ELSE to[q]
        /\ \A q \in User : on'[q] = IF q \in Woken(t) \cup {p} THEN NONE ELSE on[q]
        /\ \A q \in User : Tp_sem'[q] = IF q = t THEN Tp_sem[q] + 1 ELSE Tp_sem[q]
    BY <1>t, <1>12 DEF Post, Verhogen, PT, lists
  <2>2. t \in User /\ t # NONE /\ on[t] # NONE
    BY <1>e, <2>1 DEF PlaceInv, WhyInv
  <2> HIDE DEF t
  <2>3. Unawaited(p) /\ ~ (Tp_sem[p] > 0) /\ p # t
    <3>1. Waiting(t)
      BY <2>2, Exclusive DEF t
    <3> QED
      BY <1>n, <2>1, <3>1 DEF Waiting
  <2>4. /\ \A i \in DOMAIN avsl : avsl[i].sem # NONE => avsl[i].proc # t
        /\ \A i \in DOMAIN adl : adl[i].proc # t
        /\ daemon.to # t
        /\ \A q \in User : to[q] = t => q = p
    BY <2>2, Exclusive DEF t
  <2>5. \A q \in User : q # t /\ q # p => on'[q] = on[q]
    BY <2>1 DEF Woken
  <2>6. \A i \in DOMAIN avsl : avsl[i].sem # NONE => on'[avsl[i].proc] = avsl[i].sem
    BY <1>e, <2>3, <2>4, <2>5 DEF WhyInv, Unawaited
  <2>7. \A i \in DOMAIN adl : on'[adl[i].proc] = NONE /\ left[adl[i].proc] = adl[i].wake
    BY <1>e, <2>3, <2>4, <2>5 DEF WhyInv, Unawaited
  <2>8. ASSUME NEW q \in User, to'[q] # NONE PROVE on'[to'[q]] # NONE
    <3>1. q # p /\ to'[q] = to[q] /\ to[q] \in User /\ to[q] # t /\ to[q] # p
      BY <1>e, <2>1, <2>3, <2>4, <2>8 DEF Unawaited
    <3> QED
      BY <2>5, <2>8, <3>1 DEF WhyInv
  <2>9. daemon.to # NONE => on'[daemon.to] = NONE /\ left[daemon.to] <= 0
    BY <1>e, <2>3, <2>4, <2>5 DEF WhyInv, Unawaited
  <2>10. ASSUME NEW q \in User, Tp_sem'[q] > 0, on'[q] = NONE PROVE left[q] <= 0
    <3>1. CASE q = p
      BY <2>1, <2>3, <2>10, <3>1
    <3>2. CASE q = t
      <4>1. Tp_sem[t] + 1 > 0 /\ Tp_sem[t] \in -1..1
        BY <1>t, <2>1, <2>10, <3>2 DEF PT
      <4>2. ~ (Tp_sem[t] < 0)
        BY <4>1
      <4>3. at[t] # "asleep"
        BY <2>2, <4>2 DEF WakeInv
      <4>4. on'[t] = on[t]
        BY <2>1, <2>2, <2>3, <4>3 DEF Woken
      <4> QED
        BY <2>2, <2>10, <3>2, <4>4
    <3>3. CASE q # p /\ q # t
      BY <2>1, <2>5, <2>10, <3>3 DEF WhyInv
    <3> QED
      BY <3>1, <3>2, <3>3
  <2> QED
    BY <2>1, <2>6, <2>7, <2>8, <2>9, <2>10 DEF WhyInv
<1>13. ASSUME NEW p \in User, DelayCall(p) PROVE WhyInv'
  BY <1>13 DEF DelayCall, WhyInv, lists
<1>14. ASSUME NEW p \in User, NEW d \in Delay, DelayNode(p, d) PROVE WhyInv'
  <2> DEFINE e == [sem |-> NONE, proc |-> p]
  <2>1. at[p] = "list" /\ UNCHANGED <<Tp_sem, on, to, adl, daemon>>
        /\ (avsl' = avsl \/ avsl' = Append(avsl, e))
        /\ \A q \in User \ {p} : left'[q] = left[q]
    BY <1>t, <1>14 DEF DelayNode, Unless, PT
  <2>2. e \in VNode
    BY DEF VNode
  <2>3. \A i \in DOMAIN avsl' : avsl'[i] = e \/ \E j \in DOMAIN avsl : avsl'[i] = avsl[j]
    BY <2>1, <2>2, NodeAdded
  <2>4. e.sem = NONE
    OBVIOUS
  <2> HIDE DEF e
  <2> QED
    BY <1>n, <2>1, <2>3, <2>4, WhyFrame
<1>15. ASSUME NEW p \in User, InsertDelay(p) PROVE WhyInv'
  <2> DEFINE e == [wake |-> left[p], proc |-> p]
  <2>1. /\ at[p] = "delay" /\ UNCHANGED <<Tp_sem, on, to, left, avsl, daemon>>
        /\ adl' = adl \/ adl' = Place(adl, e)
    BY <1>15 DEF InsertDelay
  <2>2. e \in DNode
    BY <1>t DEF PT, DNode
  <2>3. \A i \in DOMAIN adl' : adl'[i] = e \/ \E j \in DOMAIN adl : adl'[i] = adl[j]
    BY <2>1, <2>2, EntryAdded
  <2>4. on[p] = NONE
    BY <2>1 DEF PlaceInv
  <2>5. on[e.proc] = NONE /\ left[e.proc] = e.wake
    BY <2>4
  <2> HIDE DEF e
  <2> QED
    BY <2>1, <2>3, <2>5 DEF WhyInv
<1>16. ASSUME NEW p \in User, End(p) PROVE WhyInv'
  BY <1>16 DEF End, WhyInv, lists
<1>17. CASE DaemonReads
  <2>1. daemon'.to = daemon.to /\ UNCHANGED <<Tp_sem, on, to, left, avsl, adl>>
    BY <1>t, <1>17 DEF DaemonReads, PT, DaemonType, procs, lists
  <2> QED
    BY <2>1 DEF WhyInv
<1>18. CASE DaemonScans
  <2>1. UNCHANGED <<Tp_sem, on, to, left, avsl>>
    BY <1>18 DEF DaemonScans, procs
  <2>2. CASE Due
    <3>1. adl # <<>> /\ adl' = Tail(adl) /\ daemon'.to = Head(adl).proc
          /\ Head(adl).wake <= -daemon.since
      BY <1>t, <1>18, <2>2 DEF DaemonScans, Due, PT, DaemonType
    <3>2. /\ \A i \in DOMAIN adl' : \E j \in DOMAIN adl : adl'[i] = adl[j]
          /\ 1 \in DOMAIN adl /\ Head(adl) = adl[1]
      BY <3>1, EntryRemoved
    <3>3. on[Head(adl).proc] = NONE /\ left[Head(adl).proc] = Head(adl).wake
      BY <3>2 DEF WhyInv
    <3>4. Head(adl).wake <= 0
      <4>1. Head(adl).wake \in Int /\ daemon.since \in Nat
        BY <3>1, HeadEntry, ElementTypes, SyncAssumption
      <4> QED
        BY <3>1, <4>1
    <3> QED
      BY <2>1, <3>1, <3>2, <3>3, <3>4 DEF WhyInv
  <2>3. CASE ~Due
    <3>1. daemon'.to = daemon.to /\ adl' = adl
      BY <1>t, <1>18, <2>3 DEF DaemonScans, PT, DaemonType
    <3> QED
      BY <2>1, <3>1 DEF WhyInv
  <2> QED
    BY <2>2, <2>3
<1>19. CASE DaemonPosts
  <2> DEFINE t == daemon.to
  <2>1. /\ UNCHANGED <<on, to, left, avsl, adl>> /\ daemon'.to = NONE
        /\ \A q \in User : Tp_sem'[q] = IF q = t THEN Tp_sem[q] + 1 ELSE Tp_sem[q]
    BY <1>t, <1>19 DEF DaemonPosts, Verhogen, PT, DaemonType, lists
  <2>2. left[t] <= 0
    BY <1>19 DEF DaemonPosts, PlaceInv, WhyInv
  <2> HIDE DEF t
  <2> QED
    BY <2>1, <2>2 DEF WhyInv
<1>20. CASE Tick
  <2>1. /\ UNCHANGED <<Tp_sem, on, to, avsl>> /\ daemon'.to = daemon.to
        /\ \A q \in User : left'[q] = IF Delayed(q) /\ q \notin deaf THEN Sooner(left[q]) ELSE 0
    BY <1>t, <1>20 DEF Tick, PT, DaemonType
  <2>2. /\ DOMAIN adl' = DOMAIN adl
        /\ \A i \in DOMAIN adl : adl'[i].proc = adl[i].proc /\ adl'[i].wake = Sooner(adl[i].wake)
    BY <1>20, TickEntries DEF Tick
  <2>3. ASSUME NEW i \in DOMAIN adl'
        PROVE  on'[adl'[i].proc] = NONE /\ left'[adl'[i].proc] = adl'[i].wake
    <3> DEFINE q == adl[i].proc
    <3>1. q \in User /\ adl'[i].proc = q /\ adl'[i].wake = Sooner(adl[i].wake)
          /\ on[q] = NONE /\ left[q] = adl[i].wake
      BY <1>e, <2>2 DEF WhyInv
    <3>2. Delayed(q) /\ q \notin deaf
      BY <2>2, <3>1, Exclusive DEF Delayed, Waiting
    <3> QED
      BY <2>1, <3>1, <3>2
  <2>4. \A q \in User : left[q] <= 0 => left'[q] <= 0
    <3> SUFFICES ASSUME NEW q \in User, left[q] <= 0 PROVE left'[q] <= 0
      OBVIOUS
    <3>1. left[q] \in Int
      BY <1>t, SyncAssumption DEF PT
    <3>2. Sooner(left[q]) <= 0
      BY <3>1 DEF Sooner
    <3> QED
      BY <2>1, <3>2
  <2>5. daemon.to # NONE => on[daemon.to] = NONE /\ left'[daemon.to] <= 0
    BY <1>e, <2>4 DEF WhyInv
  <2> QED
    BY <2>1, <2>3, <2>4, <2>5 DEF WhyInv
<1>21. CASE Tear
  BY <1>21 DEF Tear, WhyInv, procs, lists
<1>22. CASE Rest
  BY <1>1, <1>22 DEF Rest
<1> QED
  BY <1>1, <1>2, <1>3, <1>4, <1>5, <1>6, <1>7, <1>8, <1>9, <1>10, <1>11, <1>12, <1>13,
     <1>14, <1>15, <1>16, <1>17, <1>18, <1>19, <1>20, <1>21, <1>22
     DEF Next, Kernel, Daemon

---------------------------------------------------------------------------
(* How many wake-ups each process has.                                     *)
Tally(q) ==
  Nodes(q) + Entries(q) + (Cardinality(PostersOf(q)) + (IF daemon.to = q THEN 1 ELSE 0))

LEMMA PendingTally ==
  ASSUME NEW q
  PROVE  /\ TypeOK /\ q \in User => Tally(q) \in Nat
         /\ Pending(q) = Tally(q) + (IF Tp_sem[q] > 0 THEN 1 ELSE 0)
         /\ Pending(q)' = Tally(q)' + (IF Tp_sem'[q] > 0 THEN 1 ELSE 0)
<1>1. Pending(q) = Tally(q) + (IF Tp_sem[q] > 0 THEN 1 ELSE 0)
  BY Zenon DEF Pending, Tally, Posters, PostersOf
<1>2. Pending(q)' = Tally(q)' + (IF Tp_sem'[q] > 0 THEN 1 ELSE 0)
  BY Zenon DEF Pending, Tally, Posters, PostersOf
<1>3. ASSUME TypeOK, q \in User PROVE Tally(q) \in Nat
  BY <1>3, CountFacts DEF Tally
<1> QED
  BY <1>1, <1>2, <1>3

(* The delay list has a node for everybody and never runs out.             *)
LEMMA DelayNodesSuffice ==
  ASSUME TypeOK, WakeInv
  PROVE  Len(adl) < DelayNodes
<1>1. IsFiniteSet(User) /\ Cardinality(User) \in Nat /\ Len(adl) \in Nat
  BY SyncAssumption, FS_CardinalityType DEF TypeOK
<1> DEFINE f == [i \in 1..Len(adl) |-> adl[i].proc]
<1>2. DOMAIN adl = 1..Len(adl)
  <2>1. adl \in Seq(DNode)
    BY DEF TypeOK, DNode
  <2> QED
    BY <2>1
<1>3. f \in [1..Len(adl) -> User]
  BY <1>2, ElementTypes
<1>4. ASSUME NEW i \in 1..Len(adl), NEW j \in 1..Len(adl), f[i] = f[j] PROVE i = j
  BY <1>2, <1>4, Exclusive
<1> HIDE DEF f
<1>5. f \in Injection(1..Len(adl), User)
  BY <1>3, <1>4 DEF Injection, IsInjective
<1>6. Cardinality(1..Len(adl)) <= Cardinality(User)
  BY <1>1, <1>5, FS_Injection
<1>7. Cardinality(1..Len(adl)) = Len(adl)
  <2> DEFINE n == Len(adl)
  <2>1. n \in Int /\ n \in Nat
    BY <1>1
  <2> HIDE DEF n
  <2>2. Cardinality(1..n) = IF 1 > n THEN 0 ELSE n - 1 + 1
    BY <2>1, FS_Interval
  <2>3. Cardinality(1..n) = n
    BY <2>1, <2>2
  <2> QED
    BY <2>3 DEF n
<1> QED
  BY <1>1, <1>6, <1>7 DEF DelayNodes

LEMMA PrimedPosters == \A q : Cardinality(PostersOf(q))' \in Nat
<1> SUFFICES ASSUME NEW q PROVE Cardinality({p \in User : to'[p] = q}) \in Nat
  BY DEF PostersOf
<1>1. IsFiniteSet({p \in User : to'[p] = q})
  BY SyncAssumption, FS_Subset
<1> QED
  BY <1>1, FS_CardinalityType

LEMMA SameNodes == ASSUME avsl' = avsl PROVE \A q : Nodes(q)' = Nodes(q)
  BY DEF Nodes
LEMMA SameEntries == ASSUME adl' = adl PROVE \A q : Entries(q)' = Entries(q)
  BY DEF Entries
LEMMA SamePosters ==
  ASSUME to' = to PROVE \A q : Cardinality(PostersOf(q))' = Cardinality(PostersOf(q))
  BY DEF PostersOf

(* Steps of a process that does not wait, nor begins to, and wakes nobody. *)
LEMMA WakeFrame ==
  ASSUME TypeOK, TypeOK', WakeInv, NEW p \in User, ~Waiting(p), ~Waiting(p)',
         UNCHANGED <<Tp_sem, deaf, started>>,
         \A q \in User : Tally(q)' = Tally(q),
         \A q \in User \ {p} : at'[q] = at[q] /\ on'[q] = on[q]
  PROVE  WakeInv'
<1>1. p \notin deaf
  BY DEF WakeInv
<1> SUFFICES ASSUME NEW q \in User
             PROVE  /\ Pending(q)' = Asked(q)'
                    /\ Tp_sem'[q] < 0 <=> at'[q] = "asleep"
                    /\ q \in deaf' => Waiting(q)'
                    /\ started' /\ q \in deaf' => on'[q] # NONE
  BY DEF WakeInv
<1>2. Pending(q)' = Pending(q)
  BY PendingTally
<1>3. CASE q = p
  <2>1. Asked(q)' = Asked(q)
    BY <1>3 DEF Asked
  <2>2. at[q] # "asleep" /\ at'[q] # "asleep"
    BY <1>3 DEF Waiting
  <2> QED
    BY <1>1, <1>2, <1>3, <2>1, <2>2 DEF WakeInv
<1>4. CASE q # p
  <2>1. Asked(q)' = Asked(q) /\ Waiting(q)' = Waiting(q)
    BY <1>4 DEF Asked, Waiting
  <2> QED
    BY <1>2, <1>4, <2>1 DEF WakeInv
<1> QED
  BY <1>3, <1>4

(* A V on the private semaphore of one whom it is for.                     *)
LEMMA WakeUp ==
  ASSUME TypeOK, WakeInv, NEW t \in User, Waiting(t), t \notin deaf, Tp_sem[t] <= 0,
         UNCHANGED deaf, Tp_sem'[t] = Tp_sem[t] + 1, Tally(t)' = Tally(t) - 1,
         at'[t] = IF at[t] = "asleep" THEN "user" ELSE at[t]
  PROVE  /\ Pending(t)' = Asked(t)'
         /\ Tp_sem'[t] < 0 <=> at'[t] = "asleep"
         /\ t \notin deaf'
<1>1. Tp_sem[t] \in -1..1 /\ Tally(t) \in Nat
  BY PendingTally DEF TypeOK
<1>2. Pending(t) = 1 /\ (Tp_sem[t] < 0 <=> at[t] = "asleep")
  BY DEF WakeInv, Asked
<1>3. Tally(t) = 1 /\ Tally(t)' = 0
  BY <1>1, <1>2, PendingTally
<1>4. CASE at[t] = "asleep"
  <2>1. Tp_sem'[t] = 0 /\ at'[t] = "user"
    BY <1>1, <1>2, <1>4
  <2>2. Pending(t)' = 0
    BY <1>3, <2>1, PendingTally
  <2>3. Asked(t)' = 0
    BY <2>1 DEF Asked, Waiting
  <2> QED
    BY <2>1, <2>2, <2>3
<1>5. CASE at[t] # "asleep"
  <2>1. Tp_sem'[t] = 1 /\ at'[t] = at[t] /\ at[t] = "wait"
    BY <1>1, <1>2, <1>5 DEF Waiting
  <2>2. Pending(t)' = 1
    BY <1>3, <2>1, PendingTally
  <2>3. Asked(t)' = 1
    BY <2>1 DEF Asked, Waiting
  <2> QED
    BY <2>1, <2>2, <2>3
<1> QED
  BY <1>4, <1>5

LEMMA WakeStep ==
  ASSUME TypeOK, TypeOK', PlaceInv, WhyInv, WakeInv, [Next]_vars
  PROVE  WakeInv'
<1> USE DEF At, DaemonAt, Go
<1>0. NONE \notin User \cup Sem
  BY SyncAssumption
<1> DEFINE PT == /\ at \in [User -> Places] /\ on \in [User -> Sem \cup {NONE}]
                 /\ to \in [User -> User \cup {NONE}] /\ daemon \in DaemonType
                 /\ Tp_sem \in [User -> -1..1] /\ deaf \subseteq User
<1>t. PT
  BY DEF TypeOK, Places, DaemonType
<1> HIDE DEF PT
<1>e. /\ \A i \in DOMAIN avsl : avsl[i].proc \in User
      /\ \A q \in User : to[q] # NONE => to[q] \in User
      /\ daemon.to # NONE => daemon.to \in User
  BY ElementTypes
<1>q. ASSUME UNCHANGED <<Tp_sem, at, on, to, adl, avsl, deaf, started>>, daemon'.to = daemon.to
      PROVE  WakeInv'
  <2>1. \A q \in User : Nodes(q)' = Nodes(q) /\ Entries(q)' = Entries(q)
                        /\ Cardinality(PostersOf(q))' = Cardinality(PostersOf(q))
    BY <1>q, SameNodes, SameEntries, SamePosters
  <2>2. \A q \in User : Tally(q)' = Tally(q)
    BY <1>q, <2>1 DEF Tally
  <2>3. \A q \in User : Pending(q)' = Pending(q)
    BY <1>q, <2>2, PendingTally
  <2>4. \A q \in User : Asked(q)' = Asked(q) /\ Waiting(q)' = Waiting(q)
    BY <1>q DEF Asked, Waiting
  <2> QED
    BY <1>q, <2>3, <2>4 DEF WakeInv
<1>f. ASSUME NEW p \in User, ~Waiting(p), ~Waiting(p)',
             UNCHANGED <<Tp_sem, to, adl, avsl, deaf, started, daemon>>,
             \A q \in User \ {p} : at'[q] = at[q] /\ on'[q] = on[q]
      PROVE  WakeInv'
  <2>1. \A q \in User : Nodes(q)' = Nodes(q) /\ Entries(q)' = Entries(q)
                        /\ Cardinality(PostersOf(q))' = Cardinality(PostersOf(q))
    BY <1>f, SameNodes, SameEntries, SamePosters
  <2>2. \A q \in User : Tally(q)' = Tally(q)
    BY <1>f, <2>1 DEF Tally
  <2> QED
    BY <1>f, <2>2, WakeFrame
<1>w. ASSUME NEW p \in User, ~Waiting(p), p \notin deaf,
             UNCHANGED <<Tp_sem, on, started>>,
             \A q \in User : at'[q] = IF q = p THEN "wait" ELSE at[q],
             deaf' = deaf \/ deaf' = deaf \cup {p},
             \A q \in User : Tally(q)' = Tally(q) + (IF q = p /\ p \notin deaf' THEN 1 ELSE 0),
             started /\ p \in deaf' => on[p] # NONE
      PROVE  WakeInv'
  <2>1. ASSUME NEW q \in User, q # p
        PROVE  /\ Pending(q)' = Asked(q)'
               /\ Tp_sem'[q] < 0 <=> at'[q] = "asleep"
               /\ q \in deaf' => Waiting(q)'
               /\ started' /\ q \in deaf' => on'[q] # NONE
    <3>1. Tally(q)' = Tally(q)
      BY <1>w, <2>1, PendingTally
    <3>2. Pending(q)' = Pending(q)
      BY <1>w, <3>1, PendingTally
    <3>3. Asked(q)' = Asked(q) /\ Waiting(q)' = Waiting(q) /\ (q \in deaf' <=> q \in deaf)
      BY <1>w, <2>1 DEF Asked, Waiting
    <3> QED
      BY <1>w, <2>1, <3>2, <3>3 DEF WakeInv
  <2>2. Pending(p) = 0 /\ ~ (Tp_sem[p] < 0)
    <3>1. Asked(p) = 0 /\ at[p] # "asleep"
      BY <1>w DEF Asked, Waiting
    <3> QED
      BY <3>1 DEF WakeInv
  <2>3. Pending(p)' = IF p \notin deaf' THEN 1 ELSE 0
    BY <1>w, <2>2, PendingTally
  <2>4. Waiting(p)' /\ at'[p] # "asleep"
    BY <1>w DEF Waiting
  <2>5. Asked(p)' = IF p \notin deaf' THEN 1 ELSE 0
    BY <2>4 DEF Asked
  <2> QED
    BY <1>w, <2>1, <2>2, <2>3, <2>4, <2>5 DEF WakeInv
<1>1. CASE UNCHANGED vars
  BY <1>1, <1>q DEF vars, procs, lists, setup
<1>2. ASSUME NEW p \in User, NEW s \in Sem, PLoad(p, s) PROVE WakeInv'
  BY <1>t, <1>2, <1>f DEF PLoad, Load, PT, Waiting, lists, setup
<1>3. ASSUME NEW p \in User, NEW s \in Sem, VLoad(p, s) PROVE WakeInv'
  BY <1>t, <1>3, <1>f DEF VLoad, Load, PT, Waiting, lists, setup
<1>4. ASSUME NEW p \in User, PStore(p) PROVE WakeInv'
  BY <1>t, <1>4, <1>f DEF PStore, Store, PT, Waiting, lists, setup
<1>5. ASSUME NEW p \in User, VStore(p) PROVE WakeInv'
  BY <1>t, <1>5, <1>f DEF VStore, Store, PT, Waiting, lists, setup
<1>6. ASSUME NEW p \in User, PTest(p) PROVE WakeInv'
  BY <1>t, <1>6, <1>f DEF PTest, Test, PT, Waiting, lists, setup
<1>7. ASSUME NEW p \in User, VTest(p) PROVE WakeInv'
  BY <1>t, <1>7, <1>f DEF VTest, Test, PT, Waiting, lists, setup
<1>8. ASSUME NEW p \in User, VInsert(p) PROVE WakeInv'
  <2> DEFINE e == [sem |-> on[p], proc |-> p]
  <2>1. /\ at[p] = "vInsert" /\ UNCHANGED <<Tp_sem, on, to, adl, daemon, started>>
        /\ \A q \in User : at'[q] = IF q = p THEN "wait" ELSE at[q]
        /\ \/ avsl' = avsl /\ deaf' = deaf \cup {p}
           \/ avsl' = Append(avsl, e) /\ deaf' = deaf
    BY <1>t, <1>8 DEF VInsert, Unless, PT, setup
  <2>2. e \in VNode /\ e.proc = p /\ e.sem = on[p] /\ on[p] # NONE
    BY <1>t, <2>1 DEF PT, VNode, PlaceInv, Serving
  <2> HIDE DEF e
  <2>3. ~Waiting(p) /\ p \notin deaf
    BY <2>1 DEF Waiting, WakeInv
  <2>4. \A q \in User : Tally(q)' = Tally(q) + (IF q = p /\ p \notin deaf' THEN 1 ELSE 0)
    <3>1. \A q \in User : Nodes(q)' = Nodes(q) + (IF q = p /\ p \notin deaf' THEN 1 ELSE 0)
      <4>1. CASE avsl' = avsl /\ deaf' = deaf \cup {p}
        BY <4>1, SameNodes, CountFacts
      <4>2. CASE avsl' = Append(avsl, e) /\ deaf' = deaf
        BY <2>2, <2>3, <4>2, NodeAdded
      <4> QED
        BY <2>1, <4>1, <4>2
    <3>2. \A q \in User : /\ Nodes(q) \in Nat /\ Entries(q) \in Nat
                          /\ Cardinality(PostersOf(q)) \in Nat
                          /\ Entries(q)' = Entries(q)
                          /\ Cardinality(PostersOf(q))' = Cardinality(PostersOf(q))
      BY <2>1, SameEntries, SamePosters, CountFacts
    <3> QED
      BY <2>1, <3>1, <3>2 DEF Tally
  <2>5. on'[p] # NONE
    BY <2>1, <2>2
  <2> QED
    BY <2>1, <2>3, <2>4, <2>5, <1>w
<1>9. ASSUME NEW p \in User, PSem(p) PROVE WakeInv'
  <2>1. /\ at[p] = "wait" /\ UNCHANGED <<to, avsl, adl, daemon, deaf, started>>
        /\ Tp_sem[p] \in -1..1
        /\ Tp_sem'[p] = Tp_sem[p] - 1
        /\ \A q \in User \ {p} : Tp_sem'[q] = Tp_sem[q] /\ at'[q] = at[q] /\ on'[q] = on[q]
        /\ IF Tp_sem'[p] < 0 THEN at'[p] = "asleep" /\ on' = on ELSE at'[p] = "user"
    BY <1>t, <1>9 DEF PSem, PT, lists, setup
  <2>2. /\ ~ (Tp_sem[p] < 0) /\ (Tp_sem[p] > 0 => p \notin deaf)
        /\ (p \in deaf /\ started => on[p] # NONE)
        /\ Pending(p) = Asked(p)
    BY <2>1, Exclusive DEF WakeInv
  <2>3. \A q \in User : Tally(q)' = Tally(q)
    BY <2>1, SameNodes, SameEntries, SamePosters DEF Tally
  <2>4. ASSUME NEW q \in User, q # p
        PROVE  /\ Pending(q)' = Asked(q)'
               /\ Tp_sem'[q] < 0 <=> at'[q] = "asleep"
               /\ q \in deaf' => Waiting(q)'
               /\ started' /\ q \in deaf' => on'[q] # NONE
    <3>1. Pending(q)' = Pending(q)
      BY <2>1, <2>3, <2>4, PendingTally
    <3>2. Asked(q)' = Asked(q) /\ Waiting(q)' = Waiting(q)
      BY <2>1, <2>4 DEF Asked, Waiting
    <3> QED
      BY <2>1, <2>4, <3>1, <3>2 DEF WakeInv
  <2>5. CASE Tp_sem[p] > 0
    <3>1. Tp_sem[p] = 1 /\ Tp_sem'[p] = 0 /\ at'[p] = "user" /\ p \notin deaf'
      BY <2>1, <2>2, <2>5
    <3>2. Pending(p)' = Pending(p) - 1 /\ Asked(p) = 1 /\ Asked(p)' = 0
      BY <2>1, <2>2, <2>3, <3>1, PendingTally DEF Asked, Waiting
    <3>3. Pending(p)' = Asked(p)'
      BY <2>2, <3>2
    <3>4. ~ (Tp_sem'[p] < 0)
      BY <3>1
    <3> QED
      BY <2>4, <3>1, <3>3, <3>4 DEF WakeInv
  <2>6. CASE ~ (Tp_sem[p] > 0)
    <3>1. Tp_sem[p] = 0 /\ Tp_sem'[p] = -1 /\ Tp_sem'[p] < 0 /\ at'[p] = "asleep" /\ on' = on
      BY <2>1, <2>2, <2>6
    <3>2. Pending(p)' = Pending(p)
      BY <2>3, <3>1, PendingTally
    <3>3. Asked(p)' = Asked(p) /\ Waiting(p)'
      BY <2>1, <3>1 DEF Asked, Waiting
    <3> QED
      BY <2>1, <2>2, <2>4, <3>1, <3>2, <3>3 DEF WakeInv
  <2> QED
    BY <2>5, <2>6
<1>10. ASSUME NEW p \in User, VRemove(p) PROVE WakeInv'
  <2> DEFINE i == Min(Waiters(on[p]))
             t == avsl[i].proc
  <2>1. /\ at[p] = "vRemove" /\ Waiters(on[p]) # {} /\ avsl' = RemoveAt(avsl, i)
        /\ to' = [to EXCEPT ![p] = t] /\ at' = [at EXCEPT ![p] = "post"]
        /\ UNCHANGED <<Tp_sem, on, adl, daemon, deaf, started>>
    BY <1>10 DEF VRemove, setup
  <2>2. i \in 1..Len(avsl) /\ i \in DOMAIN avsl /\ avsl[i].sem = on[p]
    BY <2>1, FirstWaiter
  <2>3. on[p] # NONE /\ to[p] = NONE /\ t \in User
    BY <1>e, <2>1, <2>2 DEF PlaceInv, Serving
  <2> HIDE DEF i
  <2>4. \A q \in User : Nodes(q)' \in Nat /\ Nodes(q) = Nodes(q)' + (IF t = q THEN 1 ELSE 0)
    BY <2>1, <2>2, <2>3, NodeRemoved
  <2> HIDE DEF t
  <2>5. \A q \in User : Cardinality(PostersOf(q))' = Cardinality(PostersOf(q)) + (IF t = q THEN 1 ELSE 0)
    <3>1. \A q \in User : Cardinality(PostersOf(q))' + (IF to[p] = q THEN 1 ELSE 0) =
                          Cardinality(PostersOf(q)) + (IF t = q THEN 1 ELSE 0)
      BY <2>1, PosterChanged
    <3>2. ASSUME NEW q \in User
          PROVE  Cardinality(PostersOf(q))' = Cardinality(PostersOf(q)) + (IF t = q THEN 1 ELSE 0)
      <4>1. to[p] # q /\ Cardinality(PostersOf(q)) \in Nat
        BY <1>0, <2>3, CountFacts
      <4>2. Cardinality(PostersOf(q))' + 0 = Cardinality(PostersOf(q)) + (IF t = q THEN 1 ELSE 0)
        BY <3>1, <4>1
      <4>3. Cardinality(PostersOf(q))' \in Nat
        BY PrimedPosters
      <4> QED
        BY <4>1, <4>2, <4>3
    <3> QED
      BY <3>2
  <2>6. \A q \in User : Entries(q)' = Entries(q)
    BY <2>1, SameEntries
  <2>7. ASSUME NEW q \in User PROVE Tally(q)' = Tally(q)
    <3>1. Nodes(q)' \in Nat /\ Nodes(q) \in Nat /\ Entries(q) \in Nat
          /\ Cardinality(PostersOf(q)) \in Nat
      BY <2>4, CountFacts
    <3> QED
      BY <2>1, <2>4, <2>5, <2>6, <3>1 DEF Tally
  <2> QED
    BY <1>t, <2>1, <2>7, WakeFrame DEF PT, Waiting
<1>11. ASSUME NEW p \in User, VRemoveBad(p) PROVE WakeInv'
  BY <1>11, <1>q DEF VRemoveBad, procs, lists, setup
<1>12. ASSUME NEW p \in User, Post(p) PROVE WakeInv'
  <2>0. at[p] = "post"
    BY <1>12 DEF Post
  <2>2. PICK t \in User : t = to[p] /\ t # NONE
    BY <1>e, <2>0 DEF PlaceInv
  <2>1. /\ UNCHANGED <<avsl, adl, daemon, deaf, started>> /\ to' = [to EXCEPT ![p] = NONE]
        /\ \A q \in User : Tp_sem'[q] = IF q = t THEN Tp_sem[q] + 1 ELSE Tp_sem[q]
        /\ \A q \in User : at'[q] = IF q \in Woken(t) \cup {p} THEN "user" ELSE at[q]
        /\ \A q \in User : on'[q] = IF q \in Woken(t) \cup {p} THEN NONE ELSE on[q]
    <3>1. UNCHANGED <<avsl, adl, daemon, deaf, started>> /\ to' = [to EXCEPT ![p] = NONE]
          /\ Tp_sem' = [Tp_sem EXCEPT ![t] = @ + 1]
      BY <1>12, <2>2 DEF Post, Verhogen, lists, setup
    <3>2. /\ at' = [q \in User |-> IF q \in Woken(t) \cup {p} THEN "user" ELSE at[q]]
          /\ on' = [q \in User |-> IF q \in Woken(t) \cup {p} THEN NONE ELSE on[q]]
      BY <1>12, <2>2, Zenon DEF Post
    <3> QED
      BY <1>t, <3>1, <3>2 DEF PT
  <2>3. Waiting(t) /\ t \notin deaf /\ Tp_sem[t] <= 0
    BY <2>2, Exclusive
  <2>4. \A q \in User : Cardinality(PostersOf(q))' + (IF t = q THEN 1 ELSE 0) = Cardinality(PostersOf(q))
    <3>1. \A q \in User : Cardinality(PostersOf(q))' + (IF to[p] = q THEN 1 ELSE 0) =
                          Cardinality(PostersOf(q)) + (IF NONE = q THEN 1 ELSE 0)
      BY <2>1, PosterChanged
    <3>2. \A q \in User : NONE # q /\ Cardinality(PostersOf(q)) \in Nat
      BY <1>0, CountFacts
    <3> SUFFICES ASSUME NEW q \in User
                 PROVE  Cardinality(PostersOf(q))' + (IF t = q THEN 1 ELSE 0) =
                        Cardinality(PostersOf(q))
      OBVIOUS
    <3>3. Cardinality(PostersOf(q))' + (IF to[p] = q THEN 1 ELSE 0) = Cardinality(PostersOf(q)) + 0
      BY <3>1, <3>2
    <3> QED
      BY <2>2, <3>2, <3>3
  <2>5. ASSUME NEW q \in User
        PROVE  /\ Tally(q)' + (IF t = q THEN 1 ELSE 0) = Tally(q)
               /\ Tally(q)' \in Int /\ Tally(q) \in Nat
    <3>1. /\ Nodes(q) \in Nat /\ Entries(q) \in Nat /\ Cardinality(PostersOf(q)) \in Nat
          /\ Nodes(q)' = Nodes(q) /\ Entries(q)' = Entries(q)
          /\ Cardinality(PostersOf(q))' \in Nat
      BY <2>1, SameNodes, SameEntries, CountFacts, PrimedPosters
    <3> QED
      BY <2>1, <2>4, <3>1 DEF Tally
  <2>6. p # t /\ p \notin deaf /\ ~ (Tp_sem[p] < 0)
    BY <2>0, <2>3 DEF Waiting, WakeInv
  <2>7. /\ Pending(t)' = Asked(t)'
        /\ Tp_sem'[t] < 0 <=> at'[t] = "asleep"
        /\ t \notin deaf'
    <3>1. at'[t] = IF at[t] = "asleep" THEN "user" ELSE at[t]
      BY <2>1, <2>2, <2>6 DEF Woken
    <3>2. Tp_sem'[t] = Tp_sem[t] + 1 /\ Tally(t)' = Tally(t) - 1
      BY <2>1, <2>2, <2>5
    <3> QED
      BY <2>1, <2>2, <2>3, <3>1, <3>2, WakeUp
  <2>8. ASSUME NEW q \in User, q # t
        PROVE  /\ Pending(q)' = Asked(q)'
               /\ Tp_sem'[q] < 0 <=> at'[q] = "asleep"
               /\ q \in deaf' => Waiting(q)'
               /\ started' /\ q \in deaf' => on'[q] # NONE
    <3>1. Tally(q)' = Tally(q) /\ Tp_sem'[q] = Tp_sem[q]
      BY <2>1, <2>5, <2>8
    <3>2. Pending(q)' = Pending(q)
      BY <3>1, PendingTally
    <3>3. CASE q = p
      <4>1. at'[q] = "user"
        BY <2>1, <3>3
      <4>2. Asked(q)' = 0 /\ Asked(q) = 0
        BY <2>0, <3>3, <4>1 DEF Asked, Waiting
      <4> QED
        BY <2>1, <2>6, <3>1, <3>2, <3>3, <4>1, <4>2 DEF WakeInv
    <3>4. CASE q # p
      <4>1. at'[q] = at[q] /\ on'[q] = on[q]
        BY <2>1, <2>8, <3>4 DEF Woken
      <4>2. Asked(q)' = Asked(q) /\ Waiting(q)' = Waiting(q)
        BY <2>1, <4>1 DEF Asked, Waiting
      <4> QED
        BY <2>1, <3>1, <3>2, <4>1, <4>2 DEF WakeInv
    <3> QED
      BY <3>3, <3>4
  <2> QED
    BY <2>7, <2>8 DEF WakeInv
<1>13. ASSUME NEW p \in User, DelayCall(p) PROVE WakeInv'
  BY <1>t, <1>13, <1>f DEF DelayCall, PT, Waiting, lists, setup
<1>14. ASSUME NEW p \in User, NEW d \in Delay, DelayNode(p, d) PROVE WakeInv'
  <2> DEFINE e == [sem |-> NONE, proc |-> p]
  <2>1. at[p] = "list" /\ UNCHANGED <<Tp_sem, on, to, adl, daemon, deaf, started>>
        /\ (avsl' = avsl \/ avsl' = Append(avsl, e))
        /\ at' = [at EXCEPT ![p] = "delay"]
    BY <1>14 DEF DelayNode, Unless, setup
  <2>2. \A q \in User : Nodes(q)' = Nodes(q)
    <3>1. CASE avsl' = avsl
      BY <3>1, SameNodes
    <3>2. CASE avsl' = Append(avsl, e)
      <4>1. e \in VNode /\ e.sem = NONE
        BY DEF VNode
      <4> HIDE DEF e
      <4>2. \A q \in User : Nodes(q)' = Nodes(q) + 0
        BY <3>2, <4>1, NodeAdded
      <4> QED
        BY <4>2, CountFacts
    <3> QED
      BY <2>1, <3>1, <3>2
  <2>3. \A q \in User : Tally(q)' = Tally(q)
    BY <2>1, <2>2, SameEntries, SamePosters DEF Tally
  <2> QED
    BY <1>t, <2>1, <2>3, WakeFrame DEF PT, Waiting
<1>15. ASSUME NEW p \in User, InsertDelay(p) PROVE WakeInv'
  <2> DEFINE e == [wake |-> left[p], proc |-> p]
  <2>1. /\ at[p] = "delay" /\ UNCHANGED <<Tp_sem, on, to, avsl, daemon, started>>
        /\ \A q \in User : at'[q] = IF q = p THEN "wait" ELSE at[q]
        /\ \/ DelayFull /\ adl' = adl /\ deaf' = deaf \cup {p}
           \/ adl' = Place(adl, e) /\ deaf' = deaf
    BY <1>t, <1>15 DEF InsertDelay, PT, setup
  <2>2. e \in DNode /\ e.proc = p
    BY DEF DNode, TypeOK
  <2> HIDE DEF e
  <2>3. ~Waiting(p) /\ p \notin deaf
    BY <2>1 DEF Waiting, WakeInv
  <2>4. \A q \in User : Tally(q)' = Tally(q) + (IF q = p /\ p \notin deaf' THEN 1 ELSE 0)
    <3>1. \A q \in User : Entries(q)' = Entries(q) + (IF q = p /\ p \notin deaf' THEN 1 ELSE 0)
      <4>1. CASE adl' = adl /\ deaf' = deaf \cup {p}
        BY <4>1, SameEntries, CountFacts
      <4>2. CASE adl' = Place(adl, e) /\ deaf' = deaf
        BY <2>2, <2>3, <4>2, EntryAdded
      <4> QED
        BY <2>1, <4>1, <4>2
    <3>2. \A q \in User : /\ Nodes(q) \in Nat /\ Entries(q) \in Nat
                          /\ Cardinality(PostersOf(q)) \in Nat
                          /\ Nodes(q)' = Nodes(q)
                          /\ Cardinality(PostersOf(q))' = Cardinality(PostersOf(q))
      BY <2>1, SameNodes, SamePosters, CountFacts
    <3> QED
      BY <2>1, <3>1, <3>2 DEF Tally
  <2>5. started => ~DelayFull
    <3>1. Len(adl) < DelayNodes /\ Len(adl) \in Nat
      BY DelayNodesSuffice DEF TypeOK
    <3> QED
      BY <3>1 DEF DelayFull
  <2> QED
    BY <2>1, <2>3, <2>4, <2>5, <1>w
<1>16. ASSUME NEW p \in User, End(p) PROVE WakeInv'
  BY <1>t, <1>16, <1>f DEF End, PT, Waiting, lists, setup
<1>17. CASE DaemonReads
  <2>1. daemon'.to = daemon.to
    BY <1>t, <1>17 DEF DaemonReads, PT, DaemonType
  <2> QED
    BY <1>17, <1>q, <2>1 DEF DaemonReads, procs, lists, setup
<1>18. CASE DaemonScans
  <2>1. UNCHANGED <<Tp_sem, at, on, to, avsl, deaf, started>> /\ daemon.to = NONE
    BY <1>18 DEF DaemonScans, PlaceInv, procs, setup
  <2>2. CASE Due
    <3>1. adl # <<>> /\ adl' = Tail(adl) /\ daemon'.to = Head(adl).proc
      BY <1>t, <1>18, <2>2 DEF DaemonScans, Due, PT, DaemonType
    <3>2. \A q \in User : /\ Entries(q)' \in Nat
                          /\ Entries(q) = Entries(q)' + (IF Head(adl).proc = q THEN 1 ELSE 0)
      BY <3>1, EntryRemoved
    <3>3. ASSUME NEW q \in User PROVE Tally(q)' = Tally(q)
      <4>1. /\ Nodes(q) \in Nat /\ Entries(q)' \in Nat /\ Cardinality(PostersOf(q)) \in Nat
            /\ Nodes(q)' = Nodes(q) /\ Cardinality(PostersOf(q))' = Cardinality(PostersOf(q))
            /\ Entries(q) = Entries(q)' + (IF Head(adl).proc = q THEN 1 ELSE 0)
            /\ daemon.to # q
        BY <1>0, <2>1, <3>2, SameNodes, SamePosters, CountFacts
      <4> QED
        BY <3>1, <4>1 DEF Tally
    <3>4. \A q \in User : Pending(q)' = Pending(q)
      BY <2>1, <3>3, PendingTally
    <3>5. \A q \in User : Asked(q)' = Asked(q) /\ Waiting(q)' = Waiting(q)
      BY <2>1 DEF Asked, Waiting
    <3> QED
      BY <2>1, <3>4, <3>5 DEF WakeInv
  <2>3. CASE ~Due
    <3>1. daemon'.to = daemon.to /\ adl' = adl
      BY <1>t, <1>18, <2>3 DEF DaemonScans, PT, DaemonType
    <3> QED
      BY <2>1, <3>1, <1>q
  <2> QED
    BY <2>2, <2>3
<1>19. CASE DaemonPosts
  <2>2. PICK t \in User : t = daemon.to /\ t # NONE
    BY <1>e, <1>19 DEF DaemonPosts, PlaceInv
  <2>1. /\ UNCHANGED <<on, to, avsl, adl, deaf, started>> /\ daemon'.to = NONE
        /\ \A q \in User : Tp_sem'[q] = IF q = t THEN Tp_sem[q] + 1 ELSE Tp_sem[q]
        /\ \A q \in User : at'[q] = IF q \in Woken(t) THEN "user" ELSE at[q]
    BY <1>t, <1>19, <2>2 DEF DaemonPosts, Verhogen, PT, DaemonType, lists, setup
  <2>3. Waiting(t) /\ t \notin deaf /\ Tp_sem[t] <= 0
    BY <2>2, Exclusive
  <2>4. ASSUME NEW q \in User
        PROVE  /\ Tally(q)' + (IF t = q THEN 1 ELSE 0) = Tally(q)
               /\ Tally(q)' \in Int /\ Tally(q) \in Nat
    <3>1. /\ Nodes(q) \in Nat /\ Entries(q) \in Nat /\ Cardinality(PostersOf(q)) \in Nat
          /\ Nodes(q)' = Nodes(q) /\ Entries(q)' = Entries(q)
          /\ Cardinality(PostersOf(q))' = Cardinality(PostersOf(q))
          /\ daemon'.to # q
      BY <1>0, <2>1, SameNodes, SameEntries, SamePosters, CountFacts
    <3> QED
      BY <2>2, <3>1 DEF Tally
  <2>5. /\ Pending(t)' = Asked(t)'
        /\ Tp_sem'[t] < 0 <=> at'[t] = "asleep"
        /\ t \notin deaf'
    <3>1. at'[t] = IF at[t] = "asleep" THEN "user" ELSE at[t]
      BY <2>1, <2>2 DEF Woken
    <3>2. Tp_sem'[t] = Tp_sem[t] + 1 /\ Tally(t)' = Tally(t) - 1
      BY <2>1, <2>2, <2>4
    <3> QED
      BY <2>1, <2>2, <2>3, <3>1, <3>2, WakeUp
  <2>6. ASSUME NEW q \in User, q # t
        PROVE  /\ Pending(q)' = Asked(q)'
               /\ Tp_sem'[q] < 0 <=> at'[q] = "asleep"
               /\ q \in deaf' => Waiting(q)'
               /\ started' /\ q \in deaf' => on'[q] # NONE
    <3>1. Tally(q)' = Tally(q) /\ Tp_sem'[q] = Tp_sem[q] /\ at'[q] = at[q]
      BY <2>1, <2>4, <2>6 DEF Woken
    <3>2. Pending(q)' = Pending(q)
      BY <3>1, PendingTally
    <3>3. Asked(q)' = Asked(q) /\ Waiting(q)' = Waiting(q)
      BY <2>1, <3>1 DEF Asked, Waiting
    <3> QED
      BY <2>1, <3>1, <3>2, <3>3 DEF WakeInv
  <2> QED
    BY <2>5, <2>6 DEF WakeInv
<1>20. CASE Tick
  <2>1. UNCHANGED <<Tp_sem, at, on, to, avsl, deaf, started>> /\ daemon'.to = daemon.to
    BY <1>t, <1>20 DEF Tick, PT, DaemonType, setup
  <2>2. /\ DOMAIN adl' = DOMAIN adl
        /\ \A i \in DOMAIN adl : adl'[i].proc = adl[i].proc
    BY <1>20, TickEntries DEF Tick
  <2>3. ASSUME NEW q PROVE Entries(q)' = Entries(q)
    <3>1. {i \in DOMAIN adl' : adl'[i].proc = q} = {i \in DOMAIN adl : adl[i].proc = q}
      BY <2>2
    <3> QED
      BY <3>1 DEF Entries
  <2>4. \A q \in User : Tally(q)' = Tally(q)
    BY <2>1, <2>3, SameNodes, SamePosters DEF Tally
  <2>5. \A q \in User : Pending(q)' = Pending(q)
    BY <2>1, <2>4, PendingTally
  <2>6. \A q \in User : Asked(q)' = Asked(q) /\ Waiting(q)' = Waiting(q)
    BY <2>1 DEF Asked, Waiting
  <2> QED
    BY <2>1, <2>5, <2>6 DEF WakeInv
<1>21. CASE Tear
  BY <1>21, <1>q DEF Tear, procs, lists, setup
<1>22. CASE Rest
  BY <1>1, <1>22 DEF Rest
<1> QED
  BY <1>1, <1>2, <1>3, <1>4, <1>5, <1>6, <1>7, <1>8, <1>9, <1>10, <1>11, <1>12, <1>13,
     <1>14, <1>15, <1>16, <1>17, <1>18, <1>19, <1>20, <1>21, <1>22
     DEF Next, Kernel, Daemon

---------------------------------------------------------------------------
(* What the values say.                                                    *)
LEMMA WaitsType ==
  ASSUME TypeOK, NEW s
  PROVE  /\ \A w : On(s, w) \in Nat
         /\ Deaf(s) \in Nat /\ Cardinality(Waiters(s)) \in Nat /\ Waits(s) \in Int
<1>1. ASSUME NEW w PROVE On(s, w) \in Nat
  BY SyncAssumption, FS_Subset, FS_CardinalityType DEF On
<1>2. Deaf(s) \in Nat
  <2>1. deaf \subseteq User
    BY DEF TypeOK
  <2>2. IsFiniteSet({p \in deaf : on[p] = s})
    BY <2>1, SyncAssumption, FS_Subset
  <2> QED
    BY <2>2, FS_CardinalityType DEF Deaf
<1>3. Cardinality(Waiters(s)) \in Nat
  <2>1. avsl \in Seq(VNode)
    BY DEF TypeOK, VNode
  <2>2. Cardinality(Waiters(s)) = CountIn(avsl, WaiterOf(s))
    BY <2>1, NodesAre
  <2>3. CountIn(avsl, WaiterOf(s)) \in Nat
    BY <2>1, CountInType
  <2> QED
    BY <2>2, <2>3
<1>4. On(s, {"vInsert"}) \in Nat /\ On(s, {"vRemove"}) \in Nat
  BY <1>1
<1>5. Waits(s) \in Int
  BY <1>2, <1>3, <1>4 DEF Waits
<1> QED
  BY <1>1, <1>2, <1>3, <1>5

LEMMA OnChange ==
  ASSUME NEW p \in User, NEW s, NEW w,
         \A q \in User \ {p} : at'[q] = at[q] /\ on'[q] = on[q]
  PROVE  /\ On(s, w) \in Nat /\ On(s, w)' \in Nat
         /\ On(s, w) + (IF on'[p] = s /\ at'[p] \in w THEN 1 ELSE 0) =
              On(s, w)' + (IF on[p] = s /\ at[p] \in w THEN 1 ELSE 0)
<1> DEFINE A == {q \in User : on[q] = s /\ at[q] \in w}
           B == {q \in User : on'[q] = s /\ at'[q] \in w}
<1>1. IsFiniteSet(A) /\ IsFiniteSet(B)
  BY SyncAssumption, FS_Subset
<1>2. Cardinality(A) \in Nat /\ Cardinality(B) \in Nat
  BY <1>1, FS_CardinalityType
<1>3. A \ {p} = B \ {p} /\ (p \in A <=> on[p] = s /\ at[p] \in w)
      /\ (p \in B <=> on'[p] = s /\ at'[p] \in w)
  OBVIOUS
<1> HIDE DEF A, B
<1>4. Cardinality(A) + (IF p \in B THEN 1 ELSE 0) = Cardinality(B) + (IF p \in A THEN 1 ELSE 0)
  BY <1>1, <1>3, OneChange
<1>5. On(s, w) = Cardinality(A) /\ On(s, w)' = Cardinality(B)
  BY DEF On, A, B
<1> QED
  BY <1>2, <1>3, <1>4, <1>5

(* Steps of which the count of s takes no notice.                          *)
LEMMA SameWaits ==
  ASSUME NEW s, Cardinality(Waiters(s))' = Cardinality(Waiters(s)),
         \A q \in User : at[q] \in {"vInsert", "vRemove"} \/ at'[q] \in {"vInsert", "vRemove"} =>
                           at'[q] = at[q] /\ on'[q] = on[q],
         {q \in deaf' : on'[q] = s} = {q \in deaf : on[q] = s}
  PROVE  Waits(s)' = Waits(s)
<1>1. /\ {p \in User : on'[p] = s /\ at'[p] \in {"vInsert"}} =
           {p \in User : on[p] = s /\ at[p] \in {"vInsert"}}
      /\ {p \in User : on'[p] = s /\ at'[p] \in {"vRemove"}} =
           {p \in User : on[p] = s /\ at[p] \in {"vRemove"}}
  OBVIOUS
<1>2. On(s, {"vInsert"})' = On(s, {"vInsert"}) /\ On(s, {"vRemove"})' = On(s, {"vRemove"})
  BY <1>1 DEF On
<1>3. Deaf(s)' = Deaf(s)
  BY DEF Deaf
<1> QED
  BY <1>2, <1>3 DEF Waits

LEMMA CountFrame ==
  ASSUME NEW s, Counted(s), sem'[s] = sem[s], Waits(s)' = Waits(s),
         \A q \in User : (on[q] = s /\ at[q] \in Counting) \/ (on'[q] = s /\ at'[q] \in Counting) =>
                           at'[q] = at[q] /\ on'[q] = on[q] /\ seen'[q] = seen[q]
  PROVE  Counted(s)'
<1>1. ASSUME NEW w \in Counting PROVE Testing(s, w)' = Testing(s, w)
  BY DEF Testing
<1>2. \A w \in Counting : \A q \in Testing(s, w) : seen'[q] = seen[q]
  BY DEF Testing
<1>3. /\ Testing(s, "P store")' = Testing(s, "P store") /\ Testing(s, "V store")' = Testing(s, "V store")
      /\ Testing(s, "P test")' = Testing(s, "P test") /\ Testing(s, "V test")' = Testing(s, "V test")
  BY <1>1 DEF Counting
<1>4. \A q \in Testing(s, "P store") \cup Testing(s, "V store") : seen'[q] = seen[q]
  BY <1>2 DEF Counting
<1> QED
  BY <1>3, <1>4 DEF Counted

LEMMA ValueFrame ==
  ASSUME ValueInv, UNCHANGED <<sem, raced>>, \A s \in Sem : Waits(s)' = Waits(s),
         \A q \in User : at[q] \in Counting \/ at'[q] \in Counting =>
                           at'[q] = at[q] /\ on'[q] = on[q] /\ seen'[q] = seen[q]
  PROVE  ValueInv'
<1> SUFFICES ASSUME NEW s \in Sem \ raced' PROVE Counted(s)'
  BY DEF ValueInv
<1>1. s \in Sem /\ Counted(s) /\ sem'[s] = sem[s]
  BY DEF ValueInv
<1> QED
  BY <1>1, CountFrame

(* A process that goes on within one SYSCALL changes no other count.       *)
LEMMA OnElsewhere ==
  ASSUME NEW p \in User, NEW s, on[p] # s, on'[p] # s,
         \A q \in User \ {p} : at'[q] = at[q] /\ on'[q] = on[q]
  PROVE  \A w : On(s, w)' = On(s, w)
<1>1. ASSUME NEW w
      PROVE  {q \in User : on'[q] = s /\ at'[q] \in w} = {q \in User : on[q] = s /\ at[q] \in w}
  OBVIOUS
<1> QED
  BY <1>1 DEF On

LEMMA PrimedCounts ==
  ASSUME TypeOK', NEW s
  PROVE  Deaf(s)' \in Nat /\ Cardinality(Waiters(s))' \in Nat
<1>1. IsFiniteSet({p \in deaf' : on'[p] = s})
  <2>1. deaf' \subseteq User
    BY DEF TypeOK
  <2> QED
    BY <2>1, SyncAssumption, FS_Subset
<1>2. avsl' \in Seq(VNode)
  BY DEF TypeOK, VNode
<1>3. Cardinality(Waiters(s))' = CountIn(avsl', WaiterOf(s))
  BY <1>2, NodesWillBe
<1>4. CountIn(avsl', WaiterOf(s)) \in Nat
  BY <1>2, CountInType
<1> QED
  BY <1>1, <1>3, <1>4, FS_CardinalityType DEF Deaf

LEMMA BackAgain == \A a \in Int : a = (a - 1) + 1 /\ a = (a + 1) - 1 /\ "P test" # "V test"
  OBVIOUS

LEMMA ValueStep ==
  ASSUME TypeOK, TypeOK', PlaceInv, WhyInv, WakeInv, ValueInv, [Next]_vars
  PROVE  ValueInv'
<1> USE DEF At, DaemonAt, Go
<1>0. NONE \notin User \cup Sem /\ sem \in [Sem -> Int]
  BY SyncAssumption, FS_CardinalityType DEF TypeOK
<1> DEFINE PT == /\ at \in [User -> Places] /\ on \in [User -> Sem \cup {NONE}]
                 /\ to \in [User -> User \cup {NONE}] /\ daemon \in DaemonType
                 /\ seen \in [User -> Int] /\ deaf \subseteq User /\ raced \subseteq Sem
<1>t. PT
  <2>1. seen \in [User -> Int]
    BY SyncAssumption, FS_CardinalityType DEF TypeOK
  <2> QED
    BY <2>1 DEF TypeOK, Places, DaemonType
<1> HIDE DEF PT
<1>q. ASSUME UNCHANGED <<sem, at, on, seen, avsl, deaf, raced>>
      PROVE  ValueInv'
  <2>1. \A s \in Sem : Waits(s)' = Waits(s)
    BY <1>q, SameWaits DEF Waiters
  <2> QED
    BY <1>q, <2>1, ValueFrame
<1>f. ASSUME NEW p \in User, UNCHANGED <<sem, seen, deaf, raced>>,
             \A s \in Sem : Cardinality(Waiters(s))' = Cardinality(Waiters(s)),
             at[p] \notin Counting \cup {"vInsert", "vRemove"},
             at'[p] \notin Counting \cup {"vInsert", "vRemove"},
             p \notin deaf \/ on'[p] = on[p],
             \A q \in User \ {p} : at'[q] = at[q] /\ on'[q] = on[q]
      PROVE  ValueInv'
  <2>1. ASSUME NEW s \in Sem PROVE Waits(s)' = Waits(s)
    <3>1. {q \in deaf' : on'[q] = s} = {q \in deaf : on[q] = s}
      BY <1>t, <1>f DEF PT
    <3> QED
      BY <1>f, <3>1, SameWaits
  <2> QED
    BY <1>f, <2>1, ValueFrame
<1>l. ASSUME NEW p \in User, NEW s \in Sem, NEW w \in {"P store", "V store"}, Load(p, s, w)
      PROVE  ValueInv'
  <2>1. /\ at[p] = "user" /\ UNCHANGED <<sem, avsl, deaf, raced>>
        /\ at'[p] = w /\ on'[p] = s /\ seen'[p] = sem[s]
        /\ \A q \in User \ {p} : at'[q] = at[q] /\ on'[q] = on[q] /\ seen'[q] = seen[q]
    BY <1>t, <1>l DEF Load, PT, lists
  <2>2. p \notin deaf
    BY <2>1 DEF WakeInv, Waiting
  <2>3. ASSUME NEW r \in Sem PROVE Waits(r)' = Waits(r)
    <3>1. {q \in deaf' : on'[q] = r} = {q \in deaf : on[q] = r}
      BY <1>t, <2>1, <2>2 DEF PT
    <3>2. \A q \in User : at[q] \in {"vInsert", "vRemove"} \/ at'[q] \in {"vInsert", "vRemove"} =>
                            at'[q] = at[q] /\ on'[q] = on[q]
      BY <1>l, <2>1
    <3> QED
      BY <2>1, <3>1, <3>2, SameWaits DEF Waiters
  <2>4. ASSUME NEW r \in Sem, r \notin raced' PROVE Counted(r)'
    <3>1. Counted(r)
      BY <2>1, <2>4 DEF ValueInv
    <3>2. CASE r # s
      <4>1. on[p] # r /\ on'[p] # r
        <5>1. on[p] = NONE
          BY <2>1 DEF PlaceInv
        <5> QED
          BY <1>0, <2>1, <3>2, <5>1
      <4> QED
        BY <2>1, <2>3, <3>1, <4>1, CountFrame
    <3>3. CASE r = s
      <4>1. /\ Testing(s, "P test")' = Testing(s, "P test")
            /\ Testing(s, "V test")' = Testing(s, "V test")
        BY <1>l, <2>1 DEF Testing
      <4>2. ASSUME NEW q \in Testing(s, "P store")' \cup Testing(s, "V store")'
            PROVE  seen'[q] = sem'[s]
        <5>1. CASE q = p
          BY <2>1, <5>1
        <5>2. CASE q # p
          <6>1. q \in Testing(s, "P store") \cup Testing(s, "V store") /\ seen'[q] = seen[q]
            BY <2>1, <4>2, <5>2 DEF Testing
          <6> QED
            BY <2>1, <3>1, <3>3, <6>1 DEF Counted
        <5> QED
          BY <5>1, <5>2
      <4> QED
        BY <2>1, <2>3, <3>1, <3>3, <4>1, <4>2 DEF Counted
    <3> QED
      BY <3>2, <3>3
  <2> QED
    BY <2>4 DEF ValueInv
<1>s. ASSUME NEW p \in User, NEW w \in {"P test", "V test"},
             NEW w0 \in {"P store", "V store"}, NEW d,
             w = "P test" => w0 = "P store" /\ d = -1,
             w = "V test" => w0 = "V store" /\ d = 1,
             at[p] = w0, Store(p, d, w)
      PROVE  ValueInv'
  <2>1. PICK s \in Sem : s = on[p]
    BY <1>t, <1>s DEF PlaceInv, Serving, Counting, PT
  <2>2. /\ UNCHANGED <<on, avsl, deaf>> /\ at'[p] = w
        /\ sem'[s] = seen[p] + d /\ \A r \in Sem \ {s} : sem'[r] = sem[r]
        /\ \A q \in User \ {p} : at'[q] = at[q] /\ seen'[q] = seen[q]
        /\ raced' = IF Contended(p) THEN raced \cup {s} ELSE raced
    BY <1>0, <1>t, <1>s, <2>1 DEF Store, PT, lists
  <2>3. ASSUME NEW r \in Sem PROVE Waits(r)' = Waits(r)
    <3>1. \A q \in User : at[q] \in {"vInsert", "vRemove"} \/ at'[q] \in {"vInsert", "vRemove"} =>
                            at'[q] = at[q] /\ on'[q] = on[q]
      BY <1>s, <2>2
    <3> QED
      BY <2>2, <3>1, SameWaits DEF Waiters
  <2>4. ASSUME NEW r \in Sem, r \notin raced', r # s PROVE Counted(r)'
    <3>1. r \notin raced /\ Counted(r)
      BY <2>2, <2>4 DEF ValueInv
    <3> QED
      BY <2>1, <2>2, <2>3, <2>4, <3>1, CountFrame
  <2>5. ASSUME s \notin raced' PROVE Counted(s)'
    <3>1. Counted(s) /\ \A q \in User \ {p} : on[q] = s => at[q] \notin Counting
      BY <2>1, <2>2, <2>5 DEF ValueInv, Contended
    <3>2. Testing(s, "P test") = {} /\ Testing(s, "V test") = {}
      BY <1>s, <3>1 DEF Testing, Counting
    <3>3. /\ Testing(s, "P store")' = {} /\ Testing(s, "V store")' = {}
          /\ \A q \in Testing(s, "P test")' \cup Testing(s, "V test")' : q = p
          /\ Testing(s, "P test")' \cup Testing(s, "V test")' # {}
          /\ w = "P test" => Testing(s, "V test")' = {}
          /\ w = "V test" => Testing(s, "P test")' = {}
      <4>1. \A q \in User : on'[q] = s /\ at'[q] \in Counting => q = p
        BY <2>2, <3>1
      <4>2. at'[p] = w /\ on'[p] = s /\ w \in {"P test", "V test"}
        BY <1>s, <2>1, <2>2
      <4> QED
        BY <4>1, <4>2 DEF Testing, Counting
    <3>4. p \in Testing(s, "P store") \cup Testing(s, "V store")
      BY <1>s, <2>1 DEF Testing
    <3>5. Waits(s) = Excess(sem[s]) /\ seen[p] = sem[s]
      BY <3>1, <3>2, <3>4 DEF Counted
    <3>6. Waits(s)' = Excess(sem[s]) /\ sem'[s] = sem[s] + d /\ sem[s] \in Int
      BY <1>0, <2>2, <2>3, <3>5
    <3>7. /\ w = "P test" => sem[s] = sem'[s] + 1
          /\ w = "V test" => sem[s] = sem'[s] - 1
      <4>1. (w = "P test" => d = -1) /\ (w = "V test" => d = 1)
        BY <1>s
      <4>2. sem[s] \in Int /\ sem'[s] = sem[s] + d
        BY <3>6
      <4>3. CASE w = "P test"
        <5>1. sem'[s] = sem[s] - 1
          BY <4>1, <4>2, <4>3
        <5> QED
          BY <4>2, <4>3, <5>1, BackAgain, Zenon
      <4>4. CASE w = "V test"
        <5>1. sem'[s] = sem[s] + 1
          BY <4>1, <4>2, <4>4
        <5> QED
          BY <4>2, <4>4, <5>1, BackAgain, Zenon
      <4> QED
        BY <1>s, <4>3, <4>4
    <3>8. /\ w = "P test" => Waits(s)' = Excess(sem'[s] + 1)
          /\ w = "V test" => Waits(s)' = Excess(sem'[s] - 1)
      BY <3>6, <3>7
    <3> QED
      BY <3>3, <3>8 DEF Counted
  <2> QED
    BY <2>4, <2>5 DEF ValueInv
<1>u. ASSUME NEW p \in User, NEW needed \in BOOLEAN, NEW w \in {"vInsert", "vRemove"},
             w = "vInsert" => at[p] = "P test" /\ (needed <=> sem[on[p]] < 0),
             w = "vRemove" => at[p] = "V test" /\ (needed <=> sem[on[p]] <= 0),
             Test(p, needed, w)
      PROVE  ValueInv'
  <2>1. PICK s \in Sem : s = on[p]
    BY <1>t, <1>u DEF PlaceInv, Serving, Counting, PT
  <2>2. /\ UNCHANGED <<sem, seen, avsl, deaf, raced>>
        /\ \A q \in User \ {p} : at'[q] = at[q] /\ on'[q] = on[q]
        /\ at'[p] = IF needed THEN w ELSE "user"
        /\ on'[p] = IF needed THEN s ELSE NONE
    BY <1>t, <1>u, <2>1 DEF Test, PT, lists
  <2>0. /\ w = "vInsert" => at[p] = "P test" /\ (needed <=> sem[s] < 0)
        /\ w = "vRemove" => at[p] = "V test" /\ (needed <=> sem[s] <= 0)
        /\ w \in {"vInsert", "vRemove"} /\ needed \in BOOLEAN
    BY <1>u, <2>1
  <2>3. p \notin deaf /\ NONE \notin Sem
    BY <1>0, <2>0 DEF WakeInv, Waiting
  <2>4. \A r : {q \in deaf' : on'[q] = r} = {q \in deaf : on[q] = r}
    BY <1>t, <2>2, <2>3 DEF PT
  <2>5. \A r : Deaf(r)' = Deaf(r) /\ Cardinality(Waiters(r))' = Cardinality(Waiters(r))
    BY <2>2, <2>4 DEF Deaf, Waiters
  <2>6. ASSUME NEW r \in Sem, r \notin raced', r # s PROVE Counted(r)'
    <3>1. r \notin raced /\ Counted(r) /\ on[p] # r /\ on'[p] # r
      BY <2>1, <2>2, <2>3, <2>6 DEF ValueInv
    <3>2. \A v : On(r, v)' = On(r, v)
      BY <2>2, <3>1, OnElsewhere
    <3>3. Waits(r)' = Waits(r)
      BY <2>5, <3>2 DEF Waits
    <3> QED
      BY <2>2, <3>1, <3>3, CountFrame
  <2>7. ASSUME s \notin raced' PROVE Counted(s)'
    <3>1. Counted(s)
      BY <2>2, <2>7 DEF ValueInv
    <3>2. p \in Testing(s, "P test") \cup Testing(s, "V test")
          /\ (w = "vInsert" => p \in Testing(s, "P test"))
          /\ (w = "vRemove" => p \in Testing(s, "V test"))
      BY <2>0, <2>1 DEF Testing
    <3>3. \A q \in User : on[q] = s /\ at[q] \in {"P test", "V test"} => q = p
      BY <3>1, <3>2 DEF Counted, Testing
    <3>4. Testing(s, "P test")' = {} /\ Testing(s, "V test")' = {}
      BY <2>0, <2>2, <3>3 DEF Testing
    <3>5. /\ Testing(s, "P store")' = Testing(s, "P store")
          /\ Testing(s, "V store")' = Testing(s, "V store")
      BY <2>0, <2>2 DEF Testing
    <3>6. Waits(s) = IF w = "vInsert" THEN Excess(sem[s] + 1) ELSE Excess(sem[s] - 1)
      BY <2>0, <3>1, <3>2 DEF Counted
    <3>7. Waits(s)' = Waits(s) + (IF ~needed THEN 0 ELSE IF w = "vInsert" THEN 1 ELSE -1)
      <4>1. /\ On(s, {"vInsert"})' = On(s, {"vInsert"}) + (IF needed /\ w = "vInsert" THEN 1 ELSE 0)
            /\ On(s, {"vInsert"}) \in Nat
        <5>1. /\ On(s, {"vInsert"}) \in Nat /\ On(s, {"vInsert"})' \in Nat
              /\ On(s, {"vInsert"}) + (IF on'[p] = s /\ at'[p] \in {"vInsert"} THEN 1 ELSE 0) =
                   On(s, {"vInsert"})' + (IF on[p] = s /\ at[p] \in {"vInsert"} THEN 1 ELSE 0)
          BY <2>2, OnChange
        <5>2. /\ on'[p] = s /\ at'[p] \in {"vInsert"} <=> needed /\ w = "vInsert"
              /\ at[p] \notin {"vInsert"}
          BY <2>0, <2>2, <2>3
        <5> QED
          BY <5>1, <5>2
      <4>2. /\ On(s, {"vRemove"})' = On(s, {"vRemove"}) + (IF needed /\ w = "vRemove" THEN 1 ELSE 0)
            /\ On(s, {"vRemove"}) \in Nat
        <5>1. /\ On(s, {"vRemove"}) \in Nat /\ On(s, {"vRemove"})' \in Nat
              /\ On(s, {"vRemove"}) + (IF on'[p] = s /\ at'[p] \in {"vRemove"} THEN 1 ELSE 0) =
                   On(s, {"vRemove"})' + (IF on[p] = s /\ at[p] \in {"vRemove"} THEN 1 ELSE 0)
          BY <2>2, OnChange
        <5>2. /\ on'[p] = s /\ at'[p] \in {"vRemove"} <=> needed /\ w = "vRemove"
              /\ at[p] \notin {"vRemove"}
          BY <2>0, <2>2, <2>3
        <5> QED
          BY <5>1, <5>2
      <4>3. Deaf(s) \in Nat /\ Cardinality(Waiters(s)) \in Nat
        BY WaitsType
      <4>4. Waits(s)' = On(s, {"vInsert"})' + Cardinality(Waiters(s)) + Deaf(s) - On(s, {"vRemove"})'
        BY <2>5 DEF Waits
      <4>5. CASE w = "vInsert"
        BY <4>1, <4>2, <4>3, <4>4, <4>5 DEF Waits
      <4>6. CASE w = "vRemove"
        BY <4>1, <4>2, <4>3, <4>4, <4>6 DEF Waits
      <4> QED
        BY <2>0, <4>5, <4>6
    <3>8. sem[s] \in Int /\ needed \in BOOLEAN
          /\ (w = "vInsert" => (needed <=> sem[s] < 0)) /\ (w # "vInsert" => (needed <=> sem[s] <= 0))
      BY <1>0, <2>0, <2>1
    <3>9. Waits(s)' = Excess(sem[s])
      BY <3>6, <3>7, <3>8 DEF Excess
    <3>10. \A q \in Testing(s, "P store") \cup Testing(s, "V store") : seen[q] = sem[s]
      BY <3>1 DEF Counted
    <3> QED
      BY <2>2, <3>4, <3>5, <3>9, <3>10 DEF Counted
  <2> QED
    BY <2>6, <2>7 DEF ValueInv
<1>1. CASE UNCHANGED vars
  BY <1>1, <1>q DEF vars, procs, lists, setup
<1>2. ASSUME NEW p \in User, NEW s \in Sem, PLoad(p, s) PROVE ValueInv'
  BY <1>2, <1>l DEF PLoad
<1>3. ASSUME NEW p \in User, NEW s \in Sem, VLoad(p, s) PROVE ValueInv'
  BY <1>3, <1>l DEF VLoad
<1>4. ASSUME NEW p \in User, PStore(p) PROVE ValueInv'
  <2>1. at[p] = "P store" /\ Store(p, -1, "P test")
    BY <1>4 DEF PStore
  <2>2. "P test" # "V test"
    OBVIOUS
  <2> QED
    BY <2>1, <2>2, <1>s, Zenon
<1>5. ASSUME NEW p \in User, VStore(p) PROVE ValueInv'
  <2>1. at[p] = "V store" /\ Store(p, 1, "V test")
    BY <1>5 DEF VStore
  <2>2. "P test" # "V test"
    OBVIOUS
  <2> QED
    BY <2>1, <2>2, <1>s, Zenon
<1>6. ASSUME NEW p \in User, PTest(p) PROVE ValueInv'
  <2>1. at[p] = "P test" /\ Test(p, sem[on[p]] < 0, "vInsert")
    BY <1>6 DEF PTest
  <2>2. (sem[on[p]] < 0) \in BOOLEAN /\ "vInsert" # "vRemove"
    OBVIOUS
  <2> QED
    BY <2>1, <2>2, <1>u, Zenon
<1>7. ASSUME NEW p \in User, VTest(p) PROVE ValueInv'
  <2>1. at[p] = "V test" /\ Test(p, sem[on[p]] <= 0, "vRemove")
    BY <1>7 DEF VTest
  <2>2. (sem[on[p]] <= 0) \in BOOLEAN /\ "vInsert" # "vRemove"
    OBVIOUS
  <2> QED
    BY <2>1, <2>2, <1>u, Zenon
<1>8. ASSUME NEW p \in User, VInsert(p) PROVE ValueInv'
  <2>1. PICK s \in Sem : s = on[p]
    BY <1>t, <1>8 DEF VInsert, PlaceInv, Serving, PT
  <2> DEFINE e == [sem |-> s, proc |-> p]
  <2>2. /\ at[p] = "vInsert" /\ UNCHANGED <<sem, on, seen, raced>>
        /\ \A q \in User : at'[q] = IF q = p THEN "wait" ELSE at[q]
        /\ \/ avsl' = avsl /\ deaf' = deaf \cup {p}
           \/ avsl' = Append(avsl, e) /\ deaf' = deaf
    BY <1>t, <1>8, <2>1 DEF VInsert, Unless, PT
  <2>3. e \in VNode /\ e.sem = s
    BY DEF VNode
  <2> HIDE DEF e
  <2>4. p \notin deaf
    BY <2>2 DEF WakeInv, Waiting
  <2>5. ASSUME NEW r \in Sem PROVE Waits(r)' = Waits(r)
    <3>1. /\ On(r, {"vInsert"}) = On(r, {"vInsert"})' + (IF s = r THEN 1 ELSE 0)
          /\ On(r, {"vInsert"})' \in Nat
      <4>1. /\ On(r, {"vInsert"}) \in Nat /\ On(r, {"vInsert"})' \in Nat
            /\ On(r, {"vInsert"}) + (IF on'[p] = r /\ at'[p] \in {"vInsert"} THEN 1 ELSE 0) =
                 On(r, {"vInsert"})' + (IF on[p] = r /\ at[p] \in {"vInsert"} THEN 1 ELSE 0)
        BY <2>2, OnChange
      <4>2. at'[p] \notin {"vInsert"} /\ (on[p] = r /\ at[p] \in {"vInsert"} <=> s = r)
        BY <2>1, <2>2
      <4> QED
        BY <4>1, <4>2
    <3>2. On(r, {"vRemove"})' = On(r, {"vRemove"}) /\ On(r, {"vRemove"}) \in Nat
      <4>1. /\ On(r, {"vRemove"}) \in Nat /\ On(r, {"vRemove"})' \in Nat
            /\ On(r, {"vRemove"}) + (IF on'[p] = r /\ at'[p] \in {"vRemove"} THEN 1 ELSE 0) =
                 On(r, {"vRemove"})' + (IF on[p] = r /\ at[p] \in {"vRemove"} THEN 1 ELSE 0)
        BY <2>2, OnChange
      <4>2. at'[p] \notin {"vRemove"} /\ at[p] \notin {"vRemove"}
        BY <2>2
      <4> QED
        BY <4>1, <4>2
    <3>3. Deaf(r) \in Nat /\ Cardinality(Waiters(r)) \in Nat
      BY WaitsType
    <3>4. Cardinality(Waiters(r))' + Deaf(r)' =
            Cardinality(Waiters(r)) + Deaf(r) + (IF s = r THEN 1 ELSE 0)
      <4>1. CASE avsl' = avsl /\ deaf' = deaf \cup {p}
        <5> DEFINE A == {q \in deaf : on[q] = r}
                   B == {q \in deaf' : on'[q] = r}
        <5>1. IsFiniteSet(A) /\ A \ {p} = B \ {p} /\ p \notin A /\ (p \in B <=> s = r)
          <6>1. A \subseteq User
            BY <1>t DEF PT
          <6> QED
            BY <2>1, <2>2, <2>4, <4>1, <6>1, SyncAssumption, FS_Subset
        <5>2. Cardinality(A) = Deaf(r) /\ Cardinality(B) = Deaf(r)'
          BY DEF Deaf
        <5> HIDE DEF A, B
        <5>3. IsFiniteSet(B) /\ Cardinality(A) + (IF p \in B THEN 1 ELSE 0) =
                                Cardinality(B) + (IF p \in A THEN 1 ELSE 0)
          BY <5>1, OneChange
        <5>4. Cardinality(B) \in Nat
          BY <5>3, FS_CardinalityType
        <5>5. Deaf(r)' = Deaf(r) + (IF s = r THEN 1 ELSE 0)
          BY <3>3, <5>1, <5>2, <5>3, <5>4
        <5>6. Cardinality(Waiters(r))' = Cardinality(Waiters(r))
          BY <4>1 DEF Waiters
        <5> QED
          BY <3>3, <5>5, <5>6
      <4>2. CASE avsl' = Append(avsl, e) /\ deaf' = deaf
        <5>1. Cardinality(Waiters(r))' = Cardinality(Waiters(r)) + (IF s = r THEN 1 ELSE 0)
          BY <2>3, <4>2, NodeAdded
        <5>2. Deaf(r)' = Deaf(r)
          BY <2>2, <4>2 DEF Deaf
        <5> QED
          BY <3>3, <5>1, <5>2
      <4> QED
        BY <2>2, <4>1, <4>2
    <3>5. Waits(r)' = On(r, {"vInsert"})' + (Cardinality(Waiters(r))' + Deaf(r)') - On(r, {"vRemove"})'
      <4>1. Cardinality(Waiters(r))' \in Int /\ Deaf(r)' \in Int
        BY PrimedCounts
      <4> QED
        BY <3>1, <3>2, <4>1 DEF Waits
    <3> QED
      BY <3>1, <3>2, <3>3, <3>4, <3>5 DEF Waits
  <2> QED
    BY <2>2, <2>5, ValueFrame DEF Counting
<1>9. ASSUME NEW p \in User, PSem(p) PROVE ValueInv'
  <2>1. /\ at[p] = "wait" /\ UNCHANGED <<sem, seen, avsl, deaf, raced>>
        /\ \A q \in User \ {p} : at'[q] = at[q] /\ on'[q] = on[q]
        /\ at'[p] \in {"asleep", "user"}
        /\ Tp_sem[p] \in -1..1
        /\ Tp_sem[p] - 1 < 0 => on'[p] = on[p]
    <3>1. Tp_sem[p] \in -1..1 /\ Tp_sem'[p] = Tp_sem[p] - 1
      BY <1>9 DEF PSem, TypeOK
    <3> QED
      BY <1>t, <1>9, <3>1 DEF PSem, PT, lists, setup
  <2>2. p \notin deaf \/ on'[p] = on[p]
    <3>1. Tp_sem[p] > 0 => p \notin deaf
      BY Exclusive
    <3> QED
      BY <2>1, <3>1
  <2> QED
    BY <2>1, <2>2, <1>f DEF Waiters, Counting
<1>10. ASSUME NEW p \in User, VRemove(p) PROVE ValueInv'
  <2>1. PICK s \in Sem : s = on[p]
    BY <1>t, <1>10 DEF VRemove, PlaceInv, Serving, PT
  <2>2. PICK i \in 1..Len(avsl) : i = Min(Waiters(s))
    BY <1>10, <2>1, FirstWaiter DEF VRemove
  <2>3. /\ at[p] = "vRemove" /\ UNCHANGED <<sem, on, seen, deaf, raced>>
        /\ avsl' = RemoveAt(avsl, i) /\ avsl[i].sem = s
        /\ \A q \in User : at'[q] = IF q = p THEN "post" ELSE at[q]
    BY <1>t, <1>10, <2>1, <2>2, FirstWaiter DEF VRemove, PT
  <2>4. ASSUME NEW r \in Sem PROVE Waits(r)' = Waits(r)
    <3>1. /\ On(r, {"vRemove"}) = On(r, {"vRemove"})' + (IF s = r THEN 1 ELSE 0)
          /\ On(r, {"vRemove"})' \in Nat
      <4>1. /\ On(r, {"vRemove"}) \in Nat /\ On(r, {"vRemove"})' \in Nat
            /\ On(r, {"vRemove"}) + (IF on'[p] = r /\ at'[p] \in {"vRemove"} THEN 1 ELSE 0) =
                 On(r, {"vRemove"})' + (IF on[p] = r /\ at[p] \in {"vRemove"} THEN 1 ELSE 0)
        BY <2>3, OnChange
      <4>2. at'[p] \notin {"vRemove"} /\ (on[p] = r /\ at[p] \in {"vRemove"} <=> s = r)
        BY <2>1, <2>3
      <4> QED
        BY <4>1, <4>2
    <3>2. On(r, {"vInsert"})' = On(r, {"vInsert"}) /\ On(r, {"vInsert"}) \in Nat
      <4>1. /\ On(r, {"vInsert"}) \in Nat /\ On(r, {"vInsert"})' \in Nat
            /\ On(r, {"vInsert"}) + (IF on'[p] = r /\ at'[p] \in {"vInsert"} THEN 1 ELSE 0) =
                 On(r, {"vInsert"})' + (IF on[p] = r /\ at[p] \in {"vInsert"} THEN 1 ELSE 0)
        BY <2>3, OnChange
      <4>2. at'[p] \notin {"vInsert"} /\ at[p] \notin {"vInsert"}
        BY <2>3
      <4> QED
        BY <4>1, <4>2
    <3>3. /\ Cardinality(Waiters(r)) = Cardinality(Waiters(r))' + (IF s = r THEN 1 ELSE 0)
          /\ Deaf(r)' = Deaf(r) /\ Deaf(r) \in Nat
      BY <2>3, NodeRemoved, WaitsType DEF Deaf
    <3>4. Cardinality(Waiters(r))' \in Int
      BY PrimedCounts
    <3> QED
      BY <3>1, <3>2, <3>3, <3>4 DEF Waits
  <2> QED
    BY <2>3, <2>4, ValueFrame DEF Counting
<1>11. ASSUME NEW p \in User, VRemoveBad(p) PROVE ValueInv'
  BY <1>11, <1>q DEF VRemoveBad, procs, lists, setup
<1>12. ASSUME NEW p \in User, Post(p) PROVE ValueInv'
  <2>1. at[p] = "post" /\ to[p] # NONE /\ to[p] \in User
    BY <1>12, ElementTypes DEF Post, PlaceInv
  <2>2. PICK t \in User : t = to[p]
    BY <2>1
  <2>3. /\ UNCHANGED <<sem, seen, avsl, deaf, raced>>
        /\ \A q \in User : at'[q] = IF q \in Woken(t) \cup {p} THEN "user" ELSE at[q]
        /\ \A q \in User : on'[q] = IF q \in Woken(t) \cup {p} THEN NONE ELSE on[q]
    BY <1>12, <2>2 DEF Post, lists, setup
  <2>4. Waiting(t) /\ t \notin deaf /\ p \notin deaf
    BY <2>1, <2>2, Exclusive DEF WakeInv, Waiting
  <2>5. \A q \in User :
          \/ at'[q] = at[q] /\ on'[q] = on[q]
          \/ at[q] \in {"asleep", "post"} /\ at'[q] = "user" /\ q \notin deaf /\ on'[q] = NONE
    BY <2>1, <2>3, <2>4 DEF Woken
  <2>6. ASSUME NEW s \in Sem PROVE Waits(s)' = Waits(s)
    <3>1. {q \in deaf' : on'[q] = s} = {q \in deaf : on[q] = s}
      BY <1>t, <2>3, <2>5 DEF PT
    <3>2. \A q \in User : at[q] \in {"vInsert", "vRemove"} \/ at'[q] \in {"vInsert", "vRemove"} =>
                            at'[q] = at[q] /\ on'[q] = on[q]
      BY <2>5
    <3> QED
      BY <2>3, <3>1, <3>2, SameWaits DEF Waiters
  <2>7. \A q \in User : at[q] \in Counting \/ at'[q] \in Counting =>
                          at'[q] = at[q] /\ on'[q] = on[q] /\ seen'[q] = seen[q]
    BY <2>3, <2>5 DEF Counting
  <2> QED
    BY <2>3, <2>6, <2>7, ValueFrame
<1>13. ASSUME NEW p \in User, DelayCall(p) PROVE ValueInv'
  BY <1>t, <1>13, <1>f DEF DelayCall, PT, Waiters, Counting, lists, setup
<1>14. ASSUME NEW p \in User, NEW d \in Delay, DelayNode(p, d) PROVE ValueInv'
  <2> DEFINE e == [sem |-> NONE, proc |-> p]
  <2>1. at[p] = "list" /\ UNCHANGED <<sem, on, seen, deaf, raced>>
        /\ (avsl' = avsl \/ avsl' = Append(avsl, e))
        /\ at' = [at EXCEPT ![p] = "delay"]
    BY <1>14 DEF DelayNode, Unless, setup
  <2>2. \A s \in Sem : Cardinality(Waiters(s))' = Cardinality(Waiters(s))
    <3>1. CASE avsl' = avsl
      BY <3>1 DEF Waiters
    <3>2. CASE avsl' = Append(avsl, e)
      <4>1. e \in VNode /\ e.sem = NONE
        BY DEF VNode
      <4> HIDE DEF e
      <4>2. \A s \in Sem : Cardinality(Waiters(s))' = Cardinality(Waiters(s)) + 0
        BY <1>0, <3>2, <4>1, NodeAdded
      <4> QED
        BY <4>2, WaitsType
    <3> QED
      BY <2>1, <3>1, <3>2
  <2> QED
    BY <1>t, <2>1, <2>2, <1>f DEF PT, Counting
<1>15. ASSUME NEW p \in User, InsertDelay(p) PROVE ValueInv'
  <2>1. /\ at[p] = "delay" /\ UNCHANGED <<sem, on, seen, avsl, raced>>
        /\ at' = [at EXCEPT ![p] = "wait"]
        /\ deaf' = deaf \/ deaf' = deaf \cup {p}
    BY <1>15 DEF InsertDelay, setup
  <2>2. on[p] = NONE
    BY <2>1 DEF PlaceInv
  <2>3. ASSUME NEW s \in Sem PROVE Waits(s)' = Waits(s)
    <3>1. {q \in deaf' : on'[q] = s} = {q \in deaf : on[q] = s}
      BY <1>0, <2>1, <2>2
    <3>2. \A q \in User : at[q] \in {"vInsert", "vRemove"} \/ at'[q] \in {"vInsert", "vRemove"} =>
                            at'[q] = at[q] /\ on'[q] = on[q]
      BY <1>t, <2>1 DEF PT
    <3> QED
      BY <2>1, <3>1, <3>2, SameWaits DEF Waiters
  <2>4. \A q \in User : at[q] \in Counting \/ at'[q] \in Counting =>
                          at'[q] = at[q] /\ on'[q] = on[q] /\ seen'[q] = seen[q]
    BY <1>t, <2>1 DEF PT, Counting
  <2> QED
    BY <2>1, <2>3, <2>4, ValueFrame
<1>16. ASSUME NEW p \in User, End(p) PROVE ValueInv'
  BY <1>t, <1>16, <1>f DEF End, PT, Waiters, Counting, lists, setup
<1>17. CASE DaemonReads
  BY <1>17, <1>q DEF DaemonReads, procs, lists, setup
<1>18. CASE DaemonScans
  BY <1>18, <1>q DEF DaemonScans, procs, setup
<1>19. CASE DaemonPosts
  <2>1. PICK t \in User : t = daemon.to /\ t # NONE
    BY <1>19, ElementTypes DEF DaemonPosts, PlaceInv
  <2>2. Waiting(t) /\ t \notin deaf /\ at \in [User -> Places]
    BY <1>t, <2>1, Exclusive DEF PT
  <2>3. UNCHANGED <<sem, on, seen, avsl, deaf, raced>>
        /\ \A q \in User : at'[q] = IF q \in Woken(t) THEN "user" ELSE at[q]
    BY <1>19, <2>1 DEF DaemonPosts, lists, setup
  <2> QED
    BY <2>2, <2>3, <1>f DEF Woken, Waiting, Waiters, Counting
<1>20. CASE Tick
  BY <1>20, <1>q DEF Tick, setup
<1>21. CASE Tear
  BY <1>21, <1>q DEF Tear, procs, lists, setup
<1>22. CASE Rest
  BY <1>1, <1>22 DEF Rest
<1> QED
  BY <1>1, <1>2, <1>3, <1>4, <1>5, <1>6, <1>7, <1>8, <1>9, <1>10, <1>11, <1>12, <1>13,
     <1>14, <1>15, <1>16, <1>17, <1>18, <1>19, <1>20, <1>21, <1>22
     DEF Next, Kernel, Daemon

---------------------------------------------------------------------------
LEMMA InitInv ==
  ASSUME Init
  PROVE  IInv
<1>0. /\ NONE \notin User \cup Sem /\ IsFiniteSet(User) /\ Cardinality(User) \in Nat
      /\ VirtNodes \in Nat /\ MaxDelay \in Nat /\ MaxVal \in Nat \ {0} /\ MaxLate \in Nat
  BY SyncAssumption, FS_CardinalityType
<1>c. Cardinality(User) >= 1
  BY <1>0, SyncAssumption, FS_EmptySet
<1>1. TypeOK
  <2>1. sem \in [Sem -> -Cardinality(User)..MaxVal]
    <3>1. 0..1 \subseteq -Cardinality(User)..MaxVal
      BY <1>0
    <3>2. sem \in [Sem -> 0..1]
      BY DEF Init
    <3> QED
      BY <3>1, <3>2
  <2>2. 0 \in -Cardinality(User)..MaxVal /\ 0 \in -MaxLate..MaxDelay /\ 0 \in 0..MaxLate
    BY <1>0
  <2>3. /\ seen \in [User -> -Cardinality(User)..MaxVal] /\ left \in [User -> -MaxLate..MaxDelay]
        /\ Tp_sem \in [User -> -1..1]
    BY <2>2 DEF Init
  <2>4. /\ avsl \in Seq([sem : Sem \cup {NONE}, proc : User]) /\ Len(avsl) <= VirtNodes
        /\ adl \in Seq([wake : -MaxLate..MaxDelay, proc : User]) /\ Len(adl) <= DelayNodes
    BY <1>0, <1>c DEF Init, DelayNodes
  <2>5. daemon \in [at : {"none", "asleep", "woken", "scan", "post"},
                    to : User \cup {NONE}, since : 0..MaxLate]
    BY <2>2 DEF Init
  <2>6. /\ on \in [User -> Sem \cup {NONE}] /\ to \in [User -> User \cup {NONE}]
        /\ deaf \subseteq User /\ raced \subseteq Sem /\ stopped \in {"no", "astray", "torn"}
        /\ at \in [User -> Counting \cup {"user", "vInsert", "vRemove", "wait", "asleep",
                                         "post", "list", "delay", "dead"}]
    BY DEF Init
  <2> QED
    BY <2>1, <2>3, <2>4, <2>5, <2>6 DEF TypeOK
<1>2. PlaceInv
  BY DEF Init, PlaceInv, Serving, Counting
<1>3. WhyInv
  BY <1>0 DEF Init, WhyInv
<1>4. WakeInv
  <2>1. ASSUME NEW p \in User PROVE Pending(p) = 0 /\ Asked(p) = 0
    <3>1. {i \in DOMAIN avsl : avsl[i].proc = p /\ avsl[i].sem # NONE} = {}
          /\ {i \in DOMAIN adl : adl[i].proc = p} = {} /\ {q \in User : to[q] = p} = {}
      BY <1>0 DEF Init
    <3>2. Nodes(p) = 0 /\ Entries(p) = 0 /\ Cardinality({q \in User : to[q] = p}) = 0
      BY <3>1, FS_EmptySet DEF Nodes, Entries
    <3>3. daemon.to # p /\ ~ (Tp_sem[p] > 0) /\ at[p] = "user"
      BY <1>0 DEF Init
    <3> QED
      BY <3>2, <3>3 DEF Pending, Posters, Asked, Waiting
  <2> QED
    BY <2>1 DEF Init, WakeInv
<1>5. ValueInv
  <2> SUFFICES ASSUME NEW s \in Sem PROVE Counted(s)
    BY DEF ValueInv
  <2>1. at = [p \in User |-> "user"] /\ sem[s] \in 0..1 /\ deaf = {} /\ avsl = <<>>
    BY DEF Init
  <2>2. /\ Testing(s, "P store") = {} /\ Testing(s, "V store") = {}
        /\ Testing(s, "P test") = {} /\ Testing(s, "V test") = {}
    BY <2>1 DEF Testing
  <2>3. Waits(s) = 0
    <3>1. /\ {p \in User : on[p] = s /\ at[p] \in {"vInsert"}} = {}
          /\ {p \in User : on[p] = s /\ at[p] \in {"vRemove"}} = {}
          /\ {i \in DOMAIN avsl : avsl[i].sem = s} = {} /\ {p \in deaf : on[p] = s} = {}
      BY <2>1
    <3>2. /\ On(s, {"vInsert"}) = 0 /\ On(s, {"vRemove"}) = 0
          /\ Cardinality(Waiters(s)) = 0 /\ Deaf(s) = 0
      BY <3>1, FS_EmptySet, Zenon DEF On, Waiters, Deaf
    <3> QED
      BY <3>2 DEF Waits
  <2>4. Excess(sem[s]) = 0
    BY <2>1 DEF Excess
  <2> QED
    BY <2>2, <2>3, <2>4 DEF Counted
<1> QED
  BY <1>1, <1>2, <1>3, <1>4, <1>5 DEF IInv

LEMMA StepInv ==
  ASSUME IInv, [Next]_vars
  PROVE  IInv'
<1>1. TypeOK'
  BY TypeStep DEF IInv
<1>2. PlaceInv'
  BY PlaceStep DEF IInv
<1>3. WhyInv'
  BY WhyStep DEF IInv
<1>4. WakeInv'
  BY <1>1, WakeStep DEF IInv
<1>5. ValueInv'
  BY <1>1, ValueStep DEF IInv
<1> QED
  BY <1>1, <1>2, <1>3, <1>4, <1>5 DEF IInv

LEMMA Invariant == Spec => []IInv
<1>1. Init => IInv
  BY InitInv
<1>2. IInv /\ [Next]_vars => IInv'
  BY StepInv
<1> QED
  BY <1>1, <1>2, PTL DEF Spec

(* Every variable keeps its type: in particular no private semaphore ever  *)
(* counts beyond one V that nobody has waited for, and neither list grows  *)
(* beyond its nodes (SYSCALLs 11 to 13, delayDaemon).                      *)
THEOREM TypeCorrect == Spec => []TypeOK
<1>1. IInv => TypeOK
  BY DEF IInv
<1> QED
  BY <1>1, Invariant, PTL

(* Who waits for a V or for a time will be woken exactly once, and who does *)
(* not wait has no wake-up pending, for any number of processes, virtual   *)
(* semaphores and nodes (vmIOsupport.c, SYSCALLs 11 to 13, delayDaemon).   *)
THEOREM WakeUpsAreOne == Spec => []OneWakeUp
<1>1. IInv => OneWakeUp
  <2> SUFFICES ASSUME IInv, NEW p \in User
               PROVE  /\ Nodes(p) + Entries(p) + Posters(p) + (IF Tp_sem[p] > 0 THEN 1 ELSE 0) =
                           IF at[p] \in {"wait", "asleep"} /\ p \notin deaf THEN 1 ELSE 0
                      /\ Tp_sem[p] < 0 <=> at[p] = "asleep"
                      /\ started /\ p \in deaf => ~Delayed(p)
    BY DEF OneWakeUp
  <2>1. WakeInv
    BY DEF IInv
  <2>2. Pending(p) = Asked(p) /\ (Tp_sem[p] < 0 <=> at[p] = "asleep")
    BY <2>1 DEF WakeInv
  <2>3. started /\ p \in deaf => Waiting(p) /\ on[p] # NONE
    BY <2>1 DEF WakeInv
  <2> QED
    BY <2>2, <2>3 DEF Pending, Asked, Waiting, Delayed
<1> QED
  BY <1>1, Invariant, PTL

(* While no process is between its count and its test, the value of a      *)
(* virtual semaphore on which no two have counted at once says how many    *)
(* wait for it, less those whom a V on its way will wake, for any number   *)
(* of processes, semaphores and nodes (vmIOsupport.c, SYSCALLs 11 and 12). *)
THEOREM ValuesCount == Spec => []ValueCounts
<1>1. IInv => ValueCounts
  <2> SUFFICES ASSUME IInv, NEW s \in Sem \ raced, On(s, {"P test", "V test"}) = 0
               PROVE  Waits(s) = Excess(sem[s])
    BY Zenon DEF ValueCounts, Waits, Excess
  <2>1. Counted(s)
    BY DEF IInv, ValueInv
  <2>2. {p \in User : on[p] = s /\ at[p] \in {"P test", "V test"}} = {}
    <3>1. IsFiniteSet({p \in User : on[p] = s /\ at[p] \in {"P test", "V test"}})
      BY SyncAssumption, FS_Subset
    <3> QED
      BY <3>1, FS_EmptySet DEF On
  <2>3. Testing(s, "P test") \cup Testing(s, "V test") = {}
    BY <2>2 DEF Testing
  <2> QED
    BY <2>1, <2>3 DEF Counted
<1> QED
  BY <1>1, Invariant, PTL

LEMMA OnlyVRemoveBad ==
  ASSUME Next, stopped = "no", stopped' = "astray"
  PROVE  \E p \in User : VRemoveBad(p)
<1>1. ASSUME NEW p \in User, Kernel(p), ~VRemoveBad(p) PROVE stopped' = stopped
  <2>1. \/ PStore(p) \/ PTest(p) \/ VInsert(p) \/ PSem(p)
        \/ VStore(p) \/ VTest(p) \/ VRemove(p) \/ Post(p)
        \/ \E d \in Delay : DelayNode(p, d)
        \/ InsertDelay(p)
    BY <1>1 DEF Kernel
  <2>2. PStore(p) \/ VStore(p) \/ PTest(p) \/ VTest(p) => stopped' = stopped
    BY DEF PStore, VStore, Store, PTest, VTest, Test
  <2>3. VInsert(p) \/ PSem(p) \/ VRemove(p) \/ Post(p) => stopped' = stopped
    BY DEF VInsert, PSem, VRemove, Post
  <2>4. (\E d \in Delay : DelayNode(p, d)) \/ InsertDelay(p) => stopped' = stopped
    BY DEF DelayNode, InsertDelay
  <2> QED
    BY <2>1, <2>2, <2>3, <2>4
<1>2. ASSUME NEW p \in User, DelayCall(p) \/ End(p) PROVE stopped' = stopped
  BY <1>2 DEF DelayCall, End
<1>3. ASSUME NEW p \in User, NEW s \in Sem, PLoad(p, s) \/ VLoad(p, s) PROVE stopped' = stopped
  BY <1>3 DEF PLoad, VLoad, Load
<1>4. Daemon \/ Tick => stopped' = stopped
  BY DEF Daemon, DaemonReads, DaemonScans, DaemonPosts, Tick
<1>5. Tear => stopped' # "astray"
  BY DEF Tear
<1>6. ~Rest
  BY DEF Rest
<1> QED
  BY <1>1, <1>2, <1>3, <1>4, <1>5, <1>6 DEF Next

(* A V finds nobody to wake, and goes astray, only on a semaphore where a  *)
(* P has counted and not yet reached the list, or found it full, or where  *)
(* two have counted at once (vmIOsupport.c:232-239).                       *)
THEOREM AstrayOverGap == Spec => AstrayOnlyOverGap
<1> DEFINE Gap == stopped = "no" /\ stopped' = "astray" =>
       \E p \in User : /\ at[p] = "vRemove" /\ Waiters(on[p]) = {}
                       /\ \/ On(on[p], {"P test", "vInsert"}) + Deaf(on[p]) > 0
                          \/ on[p] \in raced
<1>1. IInv /\ [Next]_vars => [Gap]_vars
  <2> SUFFICES ASSUME IInv, Next, stopped = "no", stopped' = "astray" PROVE Gap
    BY DEF Gap
  <2>1. PICK p \in User : at[p] = "vRemove" /\ Waiters(on[p]) = {}
    <3>1. PICK p \in User : VRemoveBad(p)
      BY OnlyVRemoveBad
    <3> QED
      BY <3>1 DEF VRemoveBad, At
  <2>2. PICK s \in Sem : s = on[p]
    BY <2>1 DEF IInv, TypeOK, PlaceInv, Serving
  <2>3. s \in raced \/ On(s, {"P test", "vInsert"}) + Deaf(s) > 0
    <3> SUFFICES ASSUME s \notin raced PROVE On(s, {"P test", "vInsert"}) + Deaf(s) > 0
      OBVIOUS
    <3>1. Counted(s) /\ sem[s] \in Int
      BY SyncAssumption, FS_CardinalityType DEF IInv, ValueInv, TypeOK
    <3>2. /\ On(s, {"vRemove"}) \in Nat /\ On(s, {"vInsert"}) \in Nat
          /\ On(s, {"P test", "vInsert"}) \in Nat
          /\ Deaf(s) \in Nat /\ Cardinality(Waiters(s)) = 0
      BY <2>1, <2>2, WaitsType, FS_EmptySet DEF IInv
    <3>3. On(s, {"vRemove"}) # 0
      <4> DEFINE A == {q \in User : on[q] = s /\ at[q] \in {"vRemove"}}
      <4>1. IsFiniteSet(A) /\ p \in A
        BY <2>1, <2>2, SyncAssumption, FS_Subset
      <4> QED
        BY <4>1, FS_EmptySet DEF On
    <3>4. Waits(s) >= 0
      <4>1. \A v \in Int : Excess(v) >= 0 /\ v + 1 \in Int /\ v - 1 \in Int
        BY DEF Excess
      <4>2. \/ Waits(s) = Excess(sem[s] + 1) \/ Waits(s) = Excess(sem[s] - 1)
            \/ Waits(s) = Excess(sem[s])
        BY <3>1 DEF Counted
      <4> QED
        BY <3>1, <4>1, <4>2
    <3>5. Waits(s) = On(s, {"vInsert"}) + 0 + Deaf(s) - On(s, {"vRemove"})
      BY <3>2 DEF Waits
    <3>6. On(s, {"vInsert"}) <= On(s, {"P test", "vInsert"})
      <4> DEFINE A == {q \in User : on[q] = s /\ at[q] \in {"vInsert"}}
                 B == {q \in User : on[q] = s /\ at[q] \in {"P test", "vInsert"}}
      <4>1. IsFiniteSet(B) /\ A \subseteq B
        BY SyncAssumption, FS_Subset
      <4> QED
        BY <4>1, FS_Subset DEF On
    <3>7. \A i, c, d, r \in Nat : i + 0 + d - r >= 0 /\ r # 0 /\ i <= c => c + d > 0
      OBVIOUS
    <3> QED
      BY <3>2, <3>3, <3>4, <3>5, <3>6, <3>7, Zenon
  <2> QED
    BY <2>1, <2>2, <2>3 DEF Gap
<1> QED
  BY <1>1, Invariant, PTL DEF Spec, AstrayOnlyOverGap, Gap

(* Nobody returns from a DELAY before its time has passed, whoever else is *)
(* delayed or woken meanwhile (SYSCALL 13 and delayDaemon).                *)
THEOREM DelaysAreNotShort == Spec => NeverEarly
<1> DEFINE Kept == \A p \in User : Delayed(p) /\ at'[p] = "user" => left[p] <= 0
<1>1. IInv /\ [Next]_vars => [Kept]_vars
  <2> SUFFICES ASSUME IInv, Next, NEW p \in User, Delayed(p), at'[p] = "user"
               PROVE  left[p] <= 0
    BY DEF Kept
  <2> USE DEF At, DaemonAt, Go
  <2>0. /\ TypeOK /\ PlaceInv /\ WhyInv /\ WakeInv /\ at \in [User -> Places]
        /\ at[p] # "user" /\ at[p] \in {"delay", "wait", "asleep"}
        /\ Waiting(p) => on[p] = NONE
    BY DEF IInv, TypeOK, Places, Delayed, Waiting
  <2>1. ASSUME NEW q \in User, Kernel(q) PROVE left[p] <= 0
    <3>1. ASSUME PSem(q) PROVE left[p] <= 0
      <4>1. q = p /\ on[p] = NONE
        BY <2>0, <3>1 DEF PSem, Waiting
      <4>2. Tp_sem \in [User -> -1..1] /\ Tp_sem' = [Tp_sem EXCEPT ![p] = @ - 1] /\ ~ (Tp_sem'[p] < 0)
        BY <2>0, <3>1, <4>1 DEF PSem, TypeOK
      <4>3. Tp_sem[p] > 0
        BY <4>2
      <4> QED
        BY <2>0, <4>1, <4>3 DEF WhyInv
    <3>2. ~Post(q)
      <4> SUFFICES ASSUME Post(q) PROVE FALSE
        OBVIOUS
      <4>1. at[q] = "post" /\ to[q] # NONE /\ on[to[q]] # NONE
        BY <2>0 DEF Post, PlaceInv, WhyInv
      <4>2. p \in Woken(to[q]) \cup {q}
        BY <2>0 DEF Post
      <4>3. p = to[q] /\ at[p] = "asleep"
        BY <2>0, <4>1, <4>2 DEF Woken
      <4> QED
        BY <2>0, <4>1, <4>3 DEF Waiting
    <3>3. ~ (PTest(q) \/ VTest(q))
      BY <2>0 DEF PTest, VTest, Test
    <3>4. ~ (PStore(q) \/ VStore(q) \/ VInsert(q) \/ VRemove(q) \/ VRemoveBad(q))
      BY <2>0 DEF PStore, VStore, Store, VInsert, VRemove, VRemoveBad, procs
    <3>5. ~ ((\E d \in Delay : DelayNode(q, d)) \/ InsertDelay(q))
      BY <2>0 DEF DelayNode, InsertDelay
    <3> QED
      BY <2>1, <3>1, <3>2, <3>3, <3>4, <3>5 DEF Kernel
  <2>2. ~ \E q \in User : DelayCall(q) \/ End(q)
    BY <2>0 DEF DelayCall, End
  <2>3. ~ \E q \in User, s \in Sem : PLoad(q, s) \/ VLoad(q, s)
    BY <2>0 DEF PLoad, VLoad, Load
  <2>4. ASSUME DaemonPosts PROVE left[p] <= 0
    <3>1. p = daemon.to
      BY <2>0, <2>4 DEF DaemonPosts, Woken
    <3>2. daemon.to # NONE
      BY <2>0, <2>4 DEF DaemonPosts, PlaceInv
    <3> QED
      BY <2>0, <3>1, <3>2 DEF WhyInv
  <2>5. ~ (DaemonReads \/ DaemonScans \/ Tick \/ Tear \/ Rest)
    BY <2>0 DEF DaemonReads, DaemonScans, Tick, Tear, Rest, procs, vars
  <2> QED
    BY <2>1, <2>2, <2>3, <2>4, <2>5 DEF Next, Daemon
<1> QED
  BY <1>1, Invariant, PTL DEF Spec, NeverEarly, Kept
==========================================================================
