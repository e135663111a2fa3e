-------------------------- MODULE NucleusProofs --------------------------
(***************************************************************************)
(* The safety of the nucleus for any number of process blocks and          *)
(* semaphores.  IInv is inductive: one lemma per action, most of them      *)
(* through Assembled, which covers every handler that ends by dispatching  *)
(* a process or by going back to the one it interrupted.  First comes, one *)
(* lemma for each, what a move of a block between the lists of the nucleus *)
(* does to the partition of the blocks and to the set of processes waiting *)
(* for a device or the clock; these do not mention the state.  At the end  *)
(* come two refinements.  For any semaphore of the processes, every step of*)
(* the nucleus is a P, a V or a Leave of it, or changes neither its permits*)
(* nor its waiters: the nucleus implements Semaphore.tla.  And every step  *)
(* of the exception handlers (Traps.tla) is one of the nucleus or leaves it*)
(* alone.                                                                  *)
(***************************************************************************)
EXTENDS Traps, NucleusSemaphore, QueueLemmas

Queues == [Sem -> Seq(PCB)]

(* getNewJob: the head of the ready queue becomes the current process.     *)
LEMMA DispatchMove ==
  ASSUME NEW f \in Seq(PCB), NEW r \in Seq(PCB), NEW a \in Queues,
         Partition(f, r, a, NULL), r # <<>>
  PROVE  Partition(f, Tail(r), a, Head(r))
  <1> DEFINE h == Head(r)
             t == Tail(r)
  <1>1. /\ IsInjective(t) /\ h \notin Range(t)
        /\ Range(r) = Range(t) \cup {h}
    BY TailMembers DEF Partition
  <1> HIDE DEF h, t
  <1>2. Partition(f, t, a, h)
    BY <1>1, NucleusAssumption DEF Partition
  <1> QED
    BY <1>2 DEF h, t

(* insertProcQ of the process that was running: the end of a quantum.      *)
LEMMA PreemptMove ==
  ASSUME NEW f \in Seq(PCB), NEW r \in Seq(PCB), NEW a \in Queues, NEW c \in PCB,
         Partition(f, r, a, c)
  PROVE  Partition(f, Append(r, c), a, NULL)
  <1>1. /\ Range(Append(r, c)) = Range(r) \cup {c}
        /\ c \notin Range(r) => (IsInjective(r) => IsInjective(Append(r, c)))
    BY AppendMembers
  <1>2. NULL \notin PCB
    BY NucleusAssumption
  <1>3. Range(f) \subseteq PCB /\ Range(r) \subseteq PCB
        /\ \A s \in Sem : Range(a[s]) \subseteq PCB
    BY MemberType DEF Queues
  <1> QED
    BY <1>1, <1>2, <1>3 DEF Partition

(* insertBlocked of the process that was running.                          *)
LEMMA BlockMove ==
  ASSUME NEW f \in Seq(PCB), NEW r \in Seq(PCB), NEW a \in Queues, NEW c \in PCB,
         NEW s \in Sem, Partition(f, r, a, c),
         NEW b \in Queues, b[s] = Append(a[s], c),
         \A t \in Sem : t # s => b[t] = a[t]
  PROVE  /\ Partition(f, r, b, NULL)
         /\ \A S \in SUBSET Sem :
              Waiters(b, S) = IF s \in S THEN Waiters(a, S) \cup {c} ELSE Waiters(a, S)
  <1>1. /\ Append(a[s], c) \in Seq(PCB)
        /\ Range(Append(a[s], c)) = Range(a[s]) \cup {c}
        /\ c \notin Range(a[s]) => (IsInjective(a[s]) => IsInjective(Append(a[s], c)))
    BY AppendMembers DEF Queues
  <1>2. NULL \notin PCB
    BY NucleusAssumption
  <1>3. Range(f) \subseteq PCB /\ Range(r) \subseteq PCB
        /\ \A t \in Sem : Range(a[t]) \subseteq PCB
    BY MemberType DEF Queues
  <1>4. \A S \in SUBSET Sem :
          Waiters(b, S) = IF s \in S THEN Waiters(a, S) \cup {c} ELSE Waiters(a, S)
    BY <1>1 DEF Waiters
  <1>5. Partition(f, r, b, NULL)
    <2>1. \A t \in Sem : IsInjective(b[t])
      BY <1>1 DEF Partition
    <2>2. \A t \in Sem : Range(b[t]) \cap (Range(f) \cup Range(r) \cup {NULL}) = {}
      <3> SUFFICES ASSUME NEW t \in Sem
                   PROVE  Range(b[t]) \cap (Range(f) \cup Range(r) \cup {NULL}) = {}
        OBVIOUS
      <3>1. Range(a[t]) \cap (Range(f) \cup Range(r)) = {} /\ NULL \notin Range(a[t])
        BY <1>2, <1>3 DEF Partition
      <3>2. c \notin Range(f) \cup Range(r) /\ c # NULL
        BY <1>2 DEF Partition
      <3>3. Range(b[t]) \subseteq Range(a[t]) \cup {c}
        BY <1>1
      <3> QED
        BY <3>1, <3>2, <3>3
    <2>3. \A t, u \in Sem : t # u => Range(b[t]) \cap Range(b[u]) = {}
      BY <1>1 DEF Partition
    <2>4. PCB \subseteq Range(f) \cup Range(r) \cup {NULL} \cup Waiters(b, Sem)
      BY <1>4 DEF Partition
    <2> QED
      BY <1>2, <1>3, <2>1, <2>2, <2>3, <2>4 DEF Partition
  <1> QED
    BY <1>4, <1>5

(* removeBlocked, and the process it returns joins the ready queue.        *)
LEMMA WakeMove ==
  ASSUME NEW f \in Seq(PCB), NEW r \in Seq(PCB), NEW a \in Queues, NEW c,
         NEW s \in Sem, a[s] # <<>>, Partition(f, r, a, c),
         NEW b \in Queues, b[s] = Tail(a[s]),
         \A t \in Sem : t # s => b[t] = a[t]
  PROVE  /\ Head(a[s]) \in PCB
         /\ Append(r, Head(a[s])) \in Seq(PCB)
         /\ Partition(f, Append(r, Head(a[s])), b, c)
         /\ \A S \in SUBSET Sem :
              Waiters(b, S) = IF s \in S THEN Waiters(a, S) \ {Head(a[s])}
                                         ELSE Waiters(a, S)
         /\ s \in Sem => Head(a[s]) \in Range(a[s])
  <1> DEFINE h == Head(a[s])
  <1>1. /\ Tail(a[s]) \in Seq(PCB)
        /\ Range(a[s]) = Range(Tail(a[s])) \cup {h}
        /\ IsInjective(Tail(a[s])) /\ h \notin Range(Tail(a[s]))
    BY TailMembers DEF Queues, Partition
  <1>2. h \in Range(a[s]) /\ h \in PCB
    BY <1>1, MemberType DEF Queues
  <1>3. Append(r, h) \in Seq(PCB) /\ Range(Append(r, h)) = Range(r) \cup {h}
        /\ (IsInjective(r) /\ h \notin Range(r) => IsInjective(Append(r, h)))
    BY <1>2, AppendMembers
  <1> HIDE DEF h
  <1>4. \A t \in Sem : t # s => h \notin Range(a[t])
    BY <1>2 DEF Partition
  <1>5. \A S \in SUBSET Sem :
          Waiters(b, S) = IF s \in S THEN Waiters(a, S) \ {h} ELSE Waiters(a, S)
    BY <1>1, <1>4 DEF Waiters
  <1>6. Partition(f, Append(r, h), b, c)
    <2>1. \A t \in Sem : IsInjective(b[t])
      BY <1>1 DEF Partition
    <2>2. \A t \in Sem : Range(b[t]) \cap (Range(f) \cup Range(Append(r, h)) \cup {c}) = {}
      BY <1>1, <1>3, <1>4 DEF Partition
    <2>3. \A t, u \in Sem : t # u => Range(b[t]) \cap Range(b[u]) = {}
      BY <1>1 DEF Partition
    <2>4. PCB \subseteq Range(f) \cup Range(Append(r, h)) \cup {c} \cup Waiters(b, Sem)
      BY <1>3, <1>5 DEF Partition
    <2>5. /\ IsInjective(Append(r, h)) /\ c \notin Range(f) \cup Range(Append(r, h))
          /\ Range(f) \cap Range(Append(r, h)) = {}
      BY <1>2, <1>3 DEF Partition
    <2> QED
      BY <2>1, <2>2, <2>3, <2>4, <2>5 DEF Partition
  <1> QED
    BY <1>2, <1>3, <1>5, <1>6 DEF h

(* The tick: all that wait for s join the ready queue.                     *)
LEMMA DrainMove ==
  ASSUME NEW f \in Seq(PCB), NEW r \in Seq(PCB), NEW a \in Queues, NEW c,
         NEW s \in Sem, Partition(f, r, a, c),
         NEW b \in Queues, b[s] = <<>>,
         \A t \in Sem : t # s => b[t] = a[t]
  PROVE  /\ r \o a[s] \in Seq(PCB)
         /\ Partition(f, r \o a[s], b, c)
         /\ \A S \in SUBSET Sem :
              Waiters(b, S) = IF s \in S THEN Waiters(a, S) \ Range(a[s])
                                         ELSE Waiters(a, S)
  <1> DEFINE q == r \o a[s]
  <1>1. /\ q \in Seq(PCB) /\ Range(q) = Range(r) \cup Range(a[s])
        /\ IsInjective(q)
    BY ConcatMembers DEF Queues, Partition
  <1>2. Range(b[s]) = {} /\ IsInjective(b[s])
    BY EmptyQueue
  <1> HIDE DEF q
  <1>3. \A t \in Sem : t # s => Range(a[t]) \cap Range(a[s]) = {}
    BY DEF Partition
  <1>4. \A S \in SUBSET Sem :
          Waiters(b, S) = IF s \in S THEN Waiters(a, S) \ Range(a[s])
                                     ELSE Waiters(a, S)
    BY <1>2, <1>3 DEF Waiters
  <1>5. Partition(f, q, b, c)
    <2>1. \A t \in Sem : IsInjective(b[t])
      BY <1>2 DEF Partition
    <2>2. \A t \in Sem : Range(b[t]) \cap (Range(f) \cup Range(q) \cup {c}) = {}
      BY <1>1, <1>2, <1>3 DEF Partition
    <2>3. \A t, u \in Sem : t # u => Range(b[t]) \cap Range(b[u]) = {}
      BY <1>2 DEF Partition
    <2>4. PCB \subseteq Range(f) \cup Range(q) \cup {c} \cup Waiters(b, Sem)
      BY <1>1, <1>4 DEF Partition
    <2>5. /\ IsInjective(q) /\ c \notin Range(f) \cup Range(q)
          /\ Range(f) \cap Range(q) = {}
      BY <1>1 DEF Partition
    <2> QED
      BY <2>1, <2>2, <2>3, <2>4, <2>5 DEF Partition
  <1> QED
    BY <1>1, <1>4, <1>5 DEF q

(* allocPcb, and the new process joins the ready queue.                    *)
LEMMA AllocMove ==
  ASSUME NEW f \in Seq(PCB), NEW r \in Seq(PCB), NEW a \in Queues, NEW c,
         f # <<>>, Partition(f, r, a, c)
  PROVE  /\ Head(f) \in PCB
         /\ Append(r, Head(f)) \in Seq(PCB)
         /\ Partition(Tail(f), Append(r, Head(f)), a, c)
         /\ Range(Tail(f)) = Range(f) \ {Head(f)}
         /\ Head(f) \in Range(f)
  <1> DEFINE h == Head(f)
             t == Tail(f)
             q == Append(r, h)
  <1>1. /\ IsInjective(t) /\ h \notin Range(t)
        /\ Range(f) = Range(t) \cup {h}
    BY TailMembers DEF Partition
  <1>2. h \in PCB
    BY <1>1, MemberType
  <1>3. q \in Seq(PCB) /\ Range(q) = Range(r) \cup {h}
        /\ (IsInjective(r) /\ h \notin Range(r) => IsInjective(q))
    BY <1>2, AppendMembers
  <1> HIDE DEF h, t, q
  <1>4. Partition(t, q, a, c)
    BY <1>1, <1>3 DEF Partition
  <1> QED
    BY <1>1, <1>2, <1>3, <1>4 DEF h, t, q

(* outProcQ and freePcb of a process that was ready.                       *)
LEMMA BuryReadyMove ==
  ASSUME NEW f \in Seq(PCB), NEW r \in Seq(PCB), NEW a \in Queues, NEW c,
         NEW p \in Range(r), Partition(f, r, a, c)
  PROVE  Partition(Append(f, p), RemoveFirst(r, p), a, c)
  <1> DEFINE g == Append(f, p)
             q == RemoveFirst(r, p)
  <1>1. p \in PCB /\ p \notin Range(f)
    BY MemberType DEF Partition
  <1>2. Range(g) = Range(f) \cup {p} /\ IsInjective(g)
    BY <1>1, AppendMembers DEF Partition
  <1>3. Range(q) = Range(r) \ {p} /\ IsInjective(q)
    BY RemoveMembers DEF Partition
  <1> HIDE DEF g, q
  <1>4. Partition(g, q, a, c)
    BY <1>2, <1>3 DEF Partition
  <1> QED
    BY <1>4 DEF g, q

(* outBlocked and freePcb of a process that was waiting.                   *)
LEMMA BuryBlockedMove ==
  ASSUME NEW f \in Seq(PCB), NEW r \in Seq(PCB), NEW a \in Queues, NEW c,
         NEW s \in Sem, NEW p \in Range(a[s]), Partition(f, r, a, c),
         NEW b \in Queues, b[s] = RemoveFirst(a[s], p),
         \A t \in Sem : t # s => b[t] = a[t]
  PROVE  /\ Partition(Append(f, p), r, b, c)
         /\ \A S \in SUBSET Sem :
              Waiters(b, S) = IF s \in S THEN Waiters(a, S) \ {p} ELSE Waiters(a, S)
  <1> DEFINE g == Append(f, p)
  <1>1. p \in PCB /\ p \notin Range(f)
    BY MemberType DEF Partition, Queues
  <1>2. Range(g) = Range(f) \cup {p} /\ IsInjective(g)
    BY <1>1, AppendMembers DEF Partition
  <1>3. /\ Range(RemoveFirst(a[s], p)) = Range(a[s]) \ {p}
        /\ IsInjective(RemoveFirst(a[s], p))
    BY RemoveMembers DEF Partition, Queues
  <1> HIDE DEF g
  <1>4. \A t \in Sem : t # s => p \notin Range(a[t])
    BY DEF Partition
  <1>5. \A S \in SUBSET Sem :
          Waiters(b, S) = IF s \in S THEN Waiters(a, S) \ {p} ELSE Waiters(a, S)
    BY <1>3, <1>4 DEF Waiters
  <1>6. Partition(g, r, b, c)
    <2>1. \A t \in Sem : IsInjective(b[t])
      BY <1>3 DEF Partition
    <2>2. \A t \in Sem : Range(b[t]) \cap (Range(g) \cup Range(r) \cup {c}) = {}
      BY <1>2, <1>3, <1>4 DEF Partition
    <2>3. \A t, u \in Sem : t # u => Range(b[t]) \cap Range(b[u]) = {}
      BY <1>3 DEF Partition
    <2>4. PCB \subseteq Range(g) \cup Range(r) \cup {c} \cup Waiters(b, Sem)
      BY <1>2, <1>5 DEF Partition
    <2>5. /\ IsInjective(g) /\ c \notin Range(g) \cup Range(r)
          /\ Range(g) \cap Range(r) = {}
      BY <1>2 DEF Partition
    <2> QED
      BY <2>1, <2>2, <2>3, <2>4, <2>5 DEF Partition
  <1> QED
    BY <1>5, <1>6 DEF g

(* freePcb of the process that was running.                                *)
LEMMA BuryCurrentMove ==
  ASSUME NEW f \in Seq(PCB), NEW r \in Seq(PCB), NEW a \in Queues, NEW c \in PCB,
         Partition(f, r, a, c)
  PROVE  Partition(Append(f, c), r, a, NULL)
  <1> DEFINE g == Append(f, c)
  <1>1. Range(g) = Range(f) \cup {c} /\ IsInjective(g)
    BY AppendMembers DEF Partition
  <1>2. NULL \notin PCB
    BY NucleusAssumption
  <1>3. Range(f) \subseteq PCB /\ Range(r) \subseteq PCB
        /\ \A s \in Sem : Range(a[s]) \subseteq PCB
    BY MemberType DEF Queues
  <1> HIDE DEF g
  <1>4. NULL \notin Range(g) \cup Range(r) /\ \A s \in Sem : NULL \notin Range(a[s])
    BY <1>1, <1>2, <1>3
  <1>5. Partition(g, r, a, NULL)
    BY <1>1, <1>4 DEF Partition
  <1> QED
    BY <1>5 DEF g
--------------------------------------------------------------------------
(* What the operations on the process tree do to it.                       *)

Parents == [PCB -> PCB \cup {NULL}]
Children == [PCB -> Seq(PCB)]

(* An unhooked process descends from the activation below it, any other    *)
(* from its parent.                                                        *)
LEMMA UpValue ==
  ASSUME NEW d \in Seq(PCB), IsInjective(d), NEW par \in Parents
  PROVE  /\ \A i \in 2..Len(d) : Up(d, par, d[i]) = d[i - 1]
         /\ \A p \in PCB : (\A i \in 2..Len(d) : d[i] # p) => Up(d, par, p) = par[p]
  <1>1. ASSUME NEW i \in 2..Len(d) PROVE Up(d, par, d[i]) = d[i - 1]
    <2> DEFINE k == CHOOSE j \in 2..Len(d) : d[j] = d[i]
    <2>1. k \in 2..Len(d) /\ d[k] = d[i]
      OBVIOUS
    <2>2. k \in DOMAIN d /\ i \in DOMAIN d
      BY <2>1
    <2>3. k = i
      BY <2>1, <2>2 DEF IsInjective
    <2>4. Up(d, par, d[i]) = d[k - 1]
      BY DEF Up
    <2> QED
      BY <2>3, <2>4
  <1>2. ASSUME NEW p \in PCB, \A i \in 2..Len(d) : d[i] # p
        PROVE  Up(d, par, p) = par[p]
    BY <1>2 DEF Up
  <1> QED
    BY <1>1, <1>2

(* insertChild: a block that was free becomes the newest child of c.       *)
LEMMA CreateTree ==
  ASSUME NEW live \in SUBSET PCB, NEW par \in Parents, NEW ch \in Children,
         Tree(live, par, ch, <<>>), NEW c \in live, NEW p \in PCB \ live
  PROVE  LET par2 == [par EXCEPT ![p] = c]
             ch2 == [ch EXCEPT ![p] = <<>>, ![c] = Cons(p, @)]
         IN  /\ par2 \in Parents /\ ch2 \in Children
             /\ Tree(live \cup {p}, par2, ch2, <<>>)
  <1> DEFINE par2 == [par EXCEPT ![p] = c]
             ch2 == [ch EXCEPT ![p] = <<>>, ![c] = Cons(p, @)]
  <1>1. NULL \notin PCB /\ c \in PCB /\ c # p
    BY NucleusAssumption
  <1>2. par2 \in Parents /\ par2[p] = c /\ \A x \in PCB : x # p => par2[x] = par[x]
    BY <1>1 DEF Parents
  <1>3. par[p] = NULL /\ \A x \in PCB : par[x] # p
    BY <1>1 DEF Tree, Parents
  <1>4. ch[c] \in Seq(PCB) /\ IsInjective(ch[c])
    BY <1>1 DEF Children, Tree
  <1>5. /\ Cons(p, ch[c]) \in Seq(PCB)
        /\ Range(Cons(p, ch[c])) = Range(ch[c]) \cup {p}
        /\ p \notin Range(ch[c]) => IsInjective(Cons(p, ch[c]))
    BY <1>1, <1>4, ConsMembers
  <1>6. /\ ch2 \in Children /\ ch2[p] = <<>> /\ ch2[c] = Cons(p, ch[c])
        /\ \A x \in PCB : x # p /\ x # c => ch2[x] = ch[x]
    <2> DEFINE e == [ch EXCEPT ![p] = <<>>]
    <2>1. e \in Children /\ e[p] = <<>> /\ \A x \in PCB : x # p => e[x] = ch[x]
      BY DEF Children
    <2>2. ch2 = [e EXCEPT ![c] = Cons(p, e[c])]
      BY <1>1, <2>1 DEF Children
    <2> HIDE DEF e, ch2
    <2>3. e[c] = ch[c]
      BY <1>1, <2>1
    <2> QED
      BY <1>1, <1>5, <2>1, <2>2, <2>3 DEF Children
  <1>7. Range(ch2[p]) = {} /\ IsInjective(ch2[p])
    BY <1>6, EmptyQueue
  <1>8. \A x \in PCB : Up(<<>>, par, x) = par[x] /\ Up(<<>>, par2, x) = par2[x]
    <2>1. ~ \E i \in 2..Len(<<>>) : TRUE
      OBVIOUS
    <2> QED
      BY <2>1 DEF Up
  <1> HIDE DEF par2, ch2
  <1>9. \A x \in PCB : IsInjective(ch2[x])
    BY <1>1, <1>3, <1>5, <1>6, <1>7 DEF Tree
  <1>10. \A x, y \in PCB : y \in Range(ch2[x]) <=> par2[y] = x
    BY <1>1, <1>2, <1>3, <1>5, <1>6, <1>7 DEF Tree
  <1>11. \A x \in PCB : par2[x] # NULL => x \in live \cup {p} /\ par2[x] \in live \cup {p}
    BY <1>2 DEF Tree
  <1>12. \A x, y \in live \cup {p} : par2[x] = NULL /\ par2[y] = NULL => x = y
    BY <1>1, <1>2, <1>8 DEF Tree
  <1>13. ASSUME NEW S \in SUBSET (live \cup {p}), S # {}
         PROVE  \E x \in S : par2[x] \notin S
    <2>1. CASE S \ {p} = {}
      BY <1>1, <1>2, <1>13, <2>1
    <2>2. CASE S \ {p} # {}
      <3>1. PICK x \in S \ {p} : Up(<<>>, par, x) \notin S \ {p}
        BY <1>13, <2>2 DEF Tree
      <3> QED
        BY <1>2, <1>3, <1>8, <3>1
    <2> QED
      BY <2>1, <2>2
  <1>14. Tree(live \cup {p}, par2, ch2, <<>>)
    BY <1>8, <1>9, <1>10, <1>11, <1>12, <1>13 DEF Tree
  <1> QED
    BY <1>2, <1>6, <1>14 DEF par2, ch2

(* removeChild of the process on top of the stack, whose newest child is   *)
(* pushed: nobody's ancestor changes.                                      *)
LEMMA UnhookTree ==
  ASSUME NEW live \in SUBSET PCB, NEW par \in Parents, NEW ch \in Children,
         NEW d \in Seq(PCB), d # <<>>, Stack(live, par, d), Tree(live, par, ch, d),
         ch[Last(d)] # <<>>
  PROVE  LET p == Last(d)
             h == Head(ch[p])
             par2 == [par EXCEPT ![h] = NULL]
             ch2 == [ch EXCEPT ![p] = Tail(@)]
         IN  /\ h \in PCB /\ par2 \in Parents /\ ch2 \in Children
             /\ Append(d, h) \in Seq(PCB) /\ Append(d, h)[1] = d[1]
             /\ Stack(live, par2, Append(d, h))
             /\ Tree(live, par2, ch2, Append(d, h))
  <1> DEFINE p == Last(d)
             h == Head(ch[p])
             par2 == [par EXCEPT ![h] = NULL]
             ch2 == [ch EXCEPT ![p] = Tail(@)]
             d2 == Append(d, h)
  <1>1. /\ NULL \notin PCB /\ Len(d) \in Nat /\ Len(d) >= 1 /\ DOMAIN d = 1..Len(d)
        /\ p \in Range(d) /\ p \in PCB /\ p = d[Len(d)]
    BY NucleusAssumption, MemberType DEF Last
  <1>2. ch[p] \in Seq(PCB) /\ IsInjective(ch[p]) /\ ch[p] # <<>>
    BY <1>1 DEF Children, Tree
  <1>3. /\ Tail(ch[p]) \in Seq(PCB) /\ IsInjective(Tail(ch[p]))
        /\ Range(Tail(ch[p])) = Range(ch[p]) \ {h}
        /\ h \in Range(ch[p]) /\ h \in PCB
    BY <1>2, TailMembers, MemberType
  <1>4. par[h] = p /\ h \in live
    BY <1>1, <1>3 DEF Tree
  <1>5. h \notin Range(d)
    <2>1. \A i \in 2..Len(d) : d[i] # h
      BY <1>1, <1>4 DEF Stack
    <2>2. ASSUME h = d[1] PROVE FALSE
      <3>1. Range(d) \in SUBSET live /\ Range(d) # {}
        BY <1>1 DEF Stack
      <3>2. PICK x \in Range(d) : Up(d, par, x) \notin Range(d)
        BY <3>1 DEF Tree
      <3>3. PICK i \in 1..Len(d) : x = d[i]
        BY <1>1 DEF Range
      <3>4. CASE i >= 2
        <4>1. i \in 2..Len(d) /\ i - 1 \in 1..Len(d)
          BY <1>1, <3>4
        <4>2. Up(d, par, x) = d[i - 1]
          BY <3>3, <4>1, UpValue DEF Stack
        <4> QED
          BY <1>1, <3>2, <4>1, <4>2 DEF Range
      <3>5. CASE i = 1
        <4>1. Up(d, par, x) = par[h]
          BY <1>3, <2>1, <2>2, <3>3, <3>5, UpValue DEF Stack
        <4> QED
          BY <1>1, <1>4, <3>2, <4>1
      <3> QED
        BY <1>1, <3>4, <3>5
    <2>3. ASSUME NEW i \in 1..Len(d) PROVE d[i] # h
      BY <1>1, <2>1, <2>2
    <2> QED
      BY <1>1, <2>3 DEF Range
  <1>6. /\ d2 \in Seq(PCB) /\ Len(d2) = Len(d) + 1 /\ IsInjective(d2)
        /\ Range(d2) = Range(d) \cup {h}
    BY <1>3, <1>5, AppendMembers DEF Stack
  <1>7. d2[Len(d) + 1] = h /\ \A i \in 1..Len(d) : d2[i] = d[i]
    BY <1>1
  <1>8. /\ par2 \in Parents /\ par2[h] = NULL
        /\ \A x \in PCB : x # h => par2[x] = par[x]
    BY <1>3 DEF Parents
  <1>9. /\ ch2 \in Children /\ ch2[p] = Tail(ch[p])
        /\ \A x \in PCB : x # p => ch2[x] = ch[x]
    BY <1>1, <1>3 DEF Children
  <1> HIDE DEF p, h, par2, ch2, d2
  <1>10. Stack(live, par2, d2)
    <2>1. ASSUME NEW i \in 2..Len(d2) PROVE par2[d2[i]] = NULL
      <3>1. CASE i = Len(d) + 1
        BY <1>7, <1>8, <3>1
      <3>2. CASE i \in 2..Len(d)
        <4>1. d2[i] = d[i] /\ d[i] \in Range(d) /\ d[i] \in PCB
          BY <1>1, <1>7, <3>2, MemberType
        <4> QED
          BY <1>5, <1>8, <3>2, <4>1 DEF Stack
      <3> QED
        BY <1>1, <1>6, <3>1, <3>2
    <2> QED
      BY <1>4, <1>6, <2>1 DEF Stack
  <1>11. ASSUME NEW x \in PCB PROVE Up(d2, par2, x) = Up(d, par, x)
    <2>1. CASE x = h
      <3>1. Len(d) + 1 \in 2..Len(d2)
        BY <1>1, <1>6
      <3>2. Up(d2, par2, d2[Len(d) + 1]) = d2[(Len(d) + 1) - 1]
        BY <1>6, <1>8, <3>1, UpValue
      <3>3. d2[(Len(d) + 1) - 1] = p
        BY <1>1, <1>7
      <3>4. \A i \in 2..Len(d) : d[i] # h
        BY <1>1, <1>5 DEF Range
      <3>5. Up(d, par, h) = par[h]
        BY <1>3, <3>4, UpValue DEF Stack
      <3> QED
        BY <1>4, <1>7, <2>1, <3>2, <3>3, <3>5
    <2>2. CASE x # h /\ \E i \in 2..Len(d) : d[i] = x
      <3>1. PICK i \in 2..Len(d) : d[i] = x
        BY <2>2
      <3>2. i \in 2..Len(d2) /\ d2[i] = d[i] /\ d2[i - 1] = d[i - 1]
        BY <1>1, <1>6, <1>7
      <3>3. Up(d2, par2, d2[i]) = d2[i - 1]
        BY <1>6, <1>8, <3>2, UpValue
      <3>4. Up(d, par, d[i]) = d[i - 1]
        BY UpValue DEF Stack
      <3> QED
        BY <3>1, <3>2, <3>3, <3>4
    <2>3. CASE x # h /\ \A i \in 2..Len(d) : d[i] # x
      <3>1. \A i \in 2..Len(d2) : d2[i] # x
        BY <1>1, <1>6, <1>7, <2>3
      <3>2. Up(d2, par2, x) = par2[x]
        BY <1>6, <1>8, <3>1, UpValue
      <3>3. Up(d, par, x) = par[x]
        BY <2>3, UpValue DEF Stack
      <3> QED
        BY <1>8, <2>3, <3>2, <3>3
    <2> QED
      BY <2>1, <2>2, <2>3
  <1>12. Tree(live, par2, ch2, d2)
    <2>1. \A x \in PCB : IsInjective(ch2[x])
      BY <1>3, <1>9 DEF Tree
    <2>2. \A x, y \in PCB : y \in Range(ch2[x]) <=> par2[y] = x
      BY <1>1, <1>3, <1>4, <1>8, <1>9 DEF Tree
    <2>3. \A x \in PCB : par2[x] # NULL => x \in live /\ par2[x] \in live
      BY <1>8 DEF Tree
    <2>4. \A x, y \in live : Up(d2, par2, x) = NULL /\ Up(d2, par2, y) = NULL => x = y
      BY <1>11 DEF Tree
    <2>5. \A S \in SUBSET live : S # {} => \E x \in S : Up(d2, par2, x) \notin S
      <3> SUFFICES ASSUME NEW S \in SUBSET live, S # {}
                   PROVE  \E x \in S : Up(d2, par2, x) \notin S
        OBVIOUS
      <3>1. PICK x \in S : Up(d, par, x) \notin S
        BY DEF Tree
      <3> QED
        BY <1>11, <3>1
    <2> QED
      BY <2>1, <2>2, <2>3, <2>4, <2>5 DEF Tree
  <1>13. d2[1] = d[1]
    BY <1>1, <1>7
  <1> QED
    BY <1>3, <1>6, <1>8, <1>9, <1>10, <1>12, <1>13 DEF p, h, par2, ch2, d2

(* The end of an activation other than the outermost: its process leaves   *)
(* the tree, and it was nobody's ancestor.                                 *)
LEMMA BuryTree ==
  ASSUME NEW live \in SUBSET PCB, NEW par \in Parents, NEW ch \in Children,
         NEW d \in Seq(PCB), Len(d) >= 2, Stack(live, par, d), Tree(live, par, ch, d),
         ch[Last(d)] = <<>>
  PROVE  /\ Front(d) \in Seq(PCB) /\ Front(d) # <<>> /\ Front(d)[1] = d[1]
         /\ Last(d) \in live
         /\ Stack(live \ {Last(d)}, par, Front(d))
         /\ Tree(live \ {Last(d)}, par, ch, Front(d))
  <1> DEFINE p == Last(d)
             e == Front(d)
  <1>1. /\ NULL \notin PCB /\ Len(d) \in Nat /\ DOMAIN d = 1..Len(d)
        /\ p \in Range(d) /\ p \in PCB /\ p = d[Len(d)] /\ p \in live
    BY NucleusAssumption, MemberType DEF Last, Stack
  <1>2. /\ e \in Seq(PCB) /\ Len(e) = Len(d) - 1 /\ DOMAIN e = 1..Len(d) - 1
        /\ \A i \in 1..Len(d) - 1 : e[i] = d[i]
    BY <1>1 DEF Front
  <1>3. par[p] = NULL
    BY <1>1 DEF Stack
  <1>4. \A x \in PCB : par[x] # p
    BY <1>1, EmptyQueue DEF Tree
  <1> HIDE DEF p, e
  <1>5. \A i \in 1..Len(e) : e[i] # p /\ e[i] \in Range(d)
    BY <1>1, <1>2 DEF Stack, IsInjective, Range
  <1>6. Range(e) \subseteq live \ {p}
    BY <1>2, <1>5 DEF Range, Stack
  <1>7. IsInjective(e)
    BY <1>1, <1>2 DEF Stack, IsInjective
  <1>8. \A i \in 2..Len(e) : par[e[i]] = NULL
    BY <1>1, <1>2 DEF Stack
  <1>9. Stack(live \ {p}, par, e)
    BY <1>6, <1>7, <1>8 DEF Stack
  <1>10. ASSUME NEW x \in PCB, x # p PROVE Up(e, par, x) = Up(d, par, x)
    <2>1. CASE \E i \in 2..Len(d) : d[i] = x
      <3>1. PICK i \in 2..Len(d) : d[i] = x
        BY <2>1
      <3>2. i # Len(d)
        BY <1>1, <1>10, <3>1
      <3>3. i \in 2..Len(e) /\ e[i] = d[i] /\ e[i - 1] = d[i - 1]
        <4>1. Len(d) \in Nat /\ i \in Nat /\ 2 <= i /\ i <= Len(d)
          BY <1>1
        <4>2. i <= Len(d) - 1
          BY <3>2, <4>1
        <4>3. /\ i \in 1..(Len(d) - 1) /\ i - 1 \in 1..(Len(d) - 1)
              /\ i \in 2..(Len(d) - 1)
          BY <4>1, <4>2
        <4> QED
          BY <1>2, <4>3
      <3>4. Up(e, par, e[i]) = e[i - 1]
        BY <1>2, <1>7, <3>3, UpValue
      <3>5. Up(d, par, d[i]) = d[i - 1]
        BY UpValue DEF Stack
      <3> QED
        BY <3>1, <3>3, <3>4, <3>5
    <2>2. CASE \A i \in 2..Len(d) : d[i] # x
      <3>1. \A i \in 2..Len(e) : e[i] # x
        BY <1>1, <1>2, <2>2
      <3> QED
        BY <1>2, <1>7, <2>2, <3>1, UpValue DEF Stack
    <2> QED
      BY <2>1, <2>2
  <1>11. Tree(live \ {p}, par, ch, e)
    <2>1. \A x \in PCB : par[x] # NULL => x \in live \ {p} /\ par[x] \in live \ {p}
      BY <1>3, <1>4 DEF Tree
    <2>2. \A x, y \in live \ {p} : Up(e, par, x) = NULL /\ Up(e, par, y) = NULL => x = y
      BY <1>10 DEF Tree
    <2>3. ASSUME NEW S \in SUBSET (live \ {p}), S # {}
          PROVE  \E x \in S : Up(e, par, x) \notin S
      <3>1. PICK x \in S : Up(d, par, x) \notin S
        BY <2>3 DEF Tree
      <3> QED
        BY <1>10, <3>1
    <2> QED
      BY <2>1, <2>2, <2>3 DEF Tree
  <1>12. e # <<>> /\ e[1] = d[1]
    BY <1>1, <1>2
  <1> QED
    BY <1>1, <1>2, <1>9, <1>11, <1>12 DEF p, e

(* The end of the outermost activation: outChild.                          *)
LEMMA BuryCurrentTree ==
  ASSUME NEW live \in SUBSET PCB, NEW par \in Parents, NEW ch \in Children,
         NEW c \in live, Tree(live, par, ch, <<c>>), ch[c] = <<>>,
         NEW par2, NEW ch2,
         IF par[c] = NULL
           THEN par2 = par /\ ch2 = ch
           ELSE /\ ch2 = [ch EXCEPT ![par[c]] = RemoveFirst(@, c)]
                /\ par2 = [par EXCEPT ![c] = NULL]
  PROVE  /\ par2 \in Parents /\ ch2 \in Children
         /\ Tree(live \ {c}, par2, ch2, <<>>)
  <1>1. NULL \notin PCB /\ c \in PCB
    BY NucleusAssumption
  <1>2. \A x \in PCB : par[x] # c
    BY <1>1, EmptyQueue DEF Tree
  <1>3. /\ par2 \in Parents /\ par2[c] = NULL
        /\ \A x \in PCB : x # c => par2[x] = par[x]
    BY <1>1 DEF Parents
  <1>4. par[c] # NULL => /\ par[c] \in PCB
                         /\ RemoveFirst(ch[par[c]], c) \in Seq(PCB)
                         /\ IsInjective(RemoveFirst(ch[par[c]], c))
                         /\ Range(RemoveFirst(ch[par[c]], c)) = Range(ch[par[c]]) \ {c}
    <2> SUFFICES ASSUME par[c] # NULL PROVE
                         /\ par[c] \in PCB
                         /\ RemoveFirst(ch[par[c]], c) \in Seq(PCB)
                         /\ IsInjective(RemoveFirst(ch[par[c]], c))
                         /\ Range(RemoveFirst(ch[par[c]], c)) = Range(ch[par[c]]) \ {c}
      OBVIOUS
    <2>1. par[c] \in PCB
      BY <1>1 DEF Parents
    <2>2. ch[par[c]] \in Seq(PCB) /\ IsInjective(ch[par[c]])
      BY <2>1 DEF Children, Tree
    <2> QED
      BY <2>1, <2>2, RemoveMembers
  <1>5. /\ ch2 \in Children
        /\ \A x \in PCB : x # par[c] => ch2[x] = ch[x]
        /\ par[c] # NULL => ch2[par[c]] = RemoveFirst(ch[par[c]], c)
    BY <1>1, <1>4 DEF Children
  <1>6. \A x \in PCB : Up(<<c>>, par, x) = par[x] /\ Up(<<>>, par2, x) = par2[x]
    <2>1. ~ (\E i \in 2..Len(<<c>>) : TRUE) /\ ~ (\E i \in 2..Len(<<>>) : TRUE)
      OBVIOUS
    <2> QED
      BY <2>1 DEF Up
  <1>7. \A x \in PCB : IsInjective(ch2[x])
    BY <1>1, <1>4, <1>5 DEF Tree
  <1>8. \A x, y \in PCB : y \in Range(ch2[x]) <=> par2[y] = x
    BY <1>1, <1>3, <1>4, <1>5 DEF Tree
  <1>9. \A x \in PCB : par2[x] # NULL => x \in live \ {c} /\ par2[x] \in live \ {c}
    BY <1>2, <1>3 DEF Tree
  <1>10. \A x, y \in live \ {c} : par2[x] = NULL /\ par2[y] = NULL => x = y
    BY <1>3, <1>6 DEF Tree
  <1>11. ASSUME NEW S \in SUBSET (live \ {c}), S # {}
         PROVE  \E x \in S : par2[x] \notin S
    BY <1>3, <1>6, <1>11 DEF Tree
  <1> QED
    BY <1>3, <1>5, <1>6, <1>7, <1>8, <1>9, <1>10, <1>11 DEF Tree
--------------------------------------------------------------------------

(* The processes that wait for a device or the clock are finitely many.    *)
LEMMA WaitersFinite ==
  ASSUME NEW a \in Queues, NEW S \in SUBSET Sem
  PROVE  Waiters(a, S) \subseteq PCB /\ IsFiniteSet(Waiters(a, S))
  <1>1. \A s \in Sem : Range(a[s]) \subseteq PCB
    BY MemberType DEF Queues
  <1>2. Waiters(a, S) \subseteq PCB
    BY <1>1 DEF Waiters
  <1> QED
    BY <1>2, NucleusAssumption, FS_Subset

(* With no process ready or running, the live processes are those waiting. *)
LEMMA AllWaiting ==
  ASSUME NEW f \in Seq(PCB), NEW a \in Queues, Partition(f, <<>>, a, NULL)
  PROVE  PCB \ Range(f) = Waiters(a, UserSem) \cup Waiters(a, KernelSem)
  <1>1. Waiters(a, Sem) = Waiters(a, UserSem) \cup Waiters(a, KernelSem)
    BY DEF Waiters, Sem
  <1>2. Waiters(a, Sem) \cap Range(f) = {}
    BY DEF Partition, Waiters
  <1>3. Waiters(a, Sem) \subseteq PCB
    BY WaitersFinite
  <1> QED
    BY <1>1, <1>2, <1>3, NucleusAssumption, EmptyQueue DEF Partition

(* What getNewJob leaves behind.                                           *)
LEMMA Dispatched ==
  ASSUME NEW f \in Seq(PCB), NEW a \in Queues, NEW q \in Seq(PCB),
         Partition(f, q, a, NULL), NEW procs \in Nat, NEW soft \in Nat,
         GetNewJob(q, procs, soft)
  PROVE  /\ ready' \in Seq(PCB) /\ current' \in PCB \cup {NULL}
         /\ cpu' \in {"user", "wait", "halt", "panic"}
         /\ cpu' = "user" <=> current' # NULL
         /\ Partition(f, ready', a, current')
         /\ cpu' # "user" => ready' = <<>> /\ current' = NULL
         /\ cpu' = "halt" => procs = 0
         /\ cpu' = "panic" => procs > 0 /\ soft = 0
         /\ cpu' = "wait" => soft > 0
  <1>1. NULL \notin PCB
    BY NucleusAssumption
  <1>2. CASE q # <<>>
    <2>1. current' = Head(q) /\ ready' = Tail(q) /\ cpu' = "user"
      BY <1>2 DEF GetNewJob
    <2>2. Head(q) \in PCB /\ Tail(q) \in Seq(PCB)
      BY <1>2
    <2>3. Partition(f, Tail(q), a, Head(q))
      BY <1>2, DispatchMove
    <2> QED
      BY <1>1, <2>1, <2>2, <2>3
  <1>3. CASE q = <<>>
    <2>1. current' = NULL /\ ready' = q
      BY <1>3 DEF GetNewJob
    <2>2. \/ procs = 0 /\ cpu' = "halt"
          \/ procs > 0 /\ soft = 0 /\ cpu' = "panic"
          \/ procs > 0 /\ soft > 0 /\ cpu' = "wait"
      BY <1>3 DEF GetNewJob
    <2> QED
      BY <1>1, <1>3, <2>1, <2>2
  <1> QED
    BY <1>2, <1>3

(* A handler that moves processes between the ready queue, the semaphores  *)
(* and the processor, and ends in getNewJob or by resuming the current     *)
(* process, keeps the invariant once its own part of it is established.    *)
LEMMA Assembled ==
  ASSUME IInv, cpu \in {"user", "wait"},
         UNCHANGED <<free, tree, processCount, dying>>,
         asl' \in Queues, semAdd' \in [PCB -> Sem \cup {NULL}], value' \in [Sem -> Int],
         softBlockCount' \in Int, softBlockCount' = Cardinality(Waiters(asl', KernelSem)),
         SemaphoreCount', WaitsWhereItSays',
         NEW q \in Seq(PCB),
         \/ Partition(free, q, asl', NULL) /\ GetNewJob(q, processCount, softBlockCount')
         \/ /\ cpu = "user" /\ cpu' = "user" /\ current' = current /\ ready' = q
            /\ Partition(free, q, asl', current)
  PROVE  IInv'
  <1> USE DEF Queues
  <1>1. /\ free \in Seq(PCB) /\ dying \in Seq(PCB) /\ processCount \in Nat
        /\ processCount = Cardinality(Live) /\ current \in PCB \cup {NULL}
        /\ cpu = "user" => current # NULL
    BY DEF IInv, TypeOK, Counts
  <1>2. softBlockCount' \in Nat
    BY WaitersFinite, FS_CardinalityType DEF Sem
  <1>3. /\ ready' \in Seq(PCB) /\ current' \in PCB \cup {NULL}
        /\ cpu' \in {"user", "wait", "halt", "panic"}
        /\ cpu' = "user" <=> current' # NULL
        /\ Partition(free, ready', asl', current')
        /\ cpu' # "user" => ready' = <<>> /\ current' = NULL
        /\ cpu' = "halt" => processCount = 0
        /\ cpu' = "panic" => processCount > 0 /\ softBlockCount' = 0
        /\ cpu' = "wait" => softBlockCount' > 0
    <2>1. CASE Partition(free, q, asl', NULL) /\ GetNewJob(q, processCount, softBlockCount')
      BY <1>1, <1>2, <2>1, Dispatched
    <2>2. CASE /\ cpu = "user" /\ cpu' = "user" /\ current' = current /\ ready' = q
               /\ Partition(free, q, asl', current)
      BY <1>1, <2>2
    <2> QED
      BY <2>1, <2>2
  <1>4. TypeOK'
    BY <1>1, <1>3 DEF IInv, TypeOK, tree, Stopped
  <1>5. OnePlace'
    BY <1>3 DEF OnePlace
  <1>6. Counts'
    BY <1>1 DEF Counts, Live, SoftBlocked
  <1>7. NoFault'
    BY <1>3 DEF NoFault
  <1>8. StopsOnlyWhenStuck'
    <2>1. IsFiniteSet(Live) /\ IsFiniteSet(Waiters(asl', KernelSem))
      BY NucleusAssumption, FS_Difference, WaitersFinite DEF Live, Sem
    <2>0. /\ Cardinality(Live) = 0 <=> Live = {}
          /\ Cardinality(Waiters(asl', KernelSem)) = 0 <=> Waiters(asl', KernelSem) = {}
      BY <2>1, FS_EmptySet
    <2>2. Live' = Live
      BY DEF Live
    <2>3. cpu' = "halt" => Live' = {}
      BY <1>1, <1>3, <2>0, <2>2
    <2>4. cpu' = "panic" => Live' # {} /\ Live' = Waiters(asl', UserSem)
      <3> SUFFICES ASSUME cpu' = "panic"
                   PROVE  Live # {} /\ Live = Waiters(asl', UserSem)
        BY <2>2
      <3>1. Live # {}
        BY <1>1, <1>3, <2>0
      <3>2. Waiters(asl', KernelSem) = {}
        BY <1>3, <2>0
      <3>3. PCB \ Range(free) = Waiters(asl', UserSem) \cup Waiters(asl', KernelSem)
        BY <1>1, <1>3, AllWaiting
      <3> QED
        BY <3>1, <3>2, <3>3 DEF Live
    <2>5. cpu' = "wait" => ready' = <<>> /\ Waiters(asl', KernelSem) # {}
      BY <1>3, <2>0
    <2> QED
      BY <2>3, <2>4, <2>5 DEF StopsOnlyWhenStuck, SoftBlocked
  <1>9. dying = <<>> /\ Tree(Live, parent, children, dying) /\ Stack(Live, parent, dying)
    BY DEF IInv, DyingStack, ProcessTree
  <1>10. ProcessTree'
    BY <1>9 DEF ProcessTree, tree, Live
  <1>11. DyingStack'
    BY <1>3, <1>9 DEF DyingStack, tree, Live
  <1> QED
    BY <1>4, <1>5, <1>6, <1>7, <1>8, <1>10, <1>11 DEF IInv
--------------------------------------------------------------------------
(* What the invariant says of a machine that is not beyond the model.      *)
LEMMA Facts ==
  ASSUME IInv, cpu # "tangled"
  PROVE  /\ free \in Seq(PCB) /\ ready \in Seq(PCB) /\ dying \in Seq(PCB)
         /\ asl \in Queues /\ current \in PCB \cup {NULL}
         /\ parent \in Parents /\ children \in Children
         /\ semAdd \in [PCB -> Sem \cup {NULL}] /\ value \in [Sem -> Int]
         /\ cpu \in {"user", "nuke"} <=> current # NULL
         /\ Partition(free, ready, asl, current)
         /\ processCount = Cardinality(Live) /\ processCount \in Nat
         /\ softBlockCount = Cardinality(Waiters(asl, KernelSem))
         /\ softBlockCount \in Nat
         /\ IsFiniteSet(Live) /\ Live \subseteq PCB
         /\ Tree(Live, parent, children, dying) /\ Stack(Live, parent, dying)
  <1>1. IsFiniteSet(Live) /\ Live \subseteq PCB
    BY NucleusAssumption, FS_Difference DEF Live
  <1>2. asl \in Queues
    BY DEF IInv, TypeOK, Queues
  <1>3. Cardinality(Live) \in Nat /\ Cardinality(Waiters(asl, KernelSem)) \in Nat
    BY <1>1, <1>2, WaitersFinite, FS_CardinalityType DEF Sem
  <1> QED
    BY <1>1, <1>2, <1>3 DEF IInv, TypeOK, OnePlace, Counts, SoftBlocked, ProcessTree,
                            DyingStack, Parents, Children

(* insertBlocked always finds a descriptor: each active one has a waiter   *)
(* of its own, and the process about to wait is none of them.              *)
LEMMA DescriptorLeft ==
  ASSUME NEW f \in Seq(PCB), NEW r \in Seq(PCB), NEW a \in Queues, NEW c \in PCB,
         Partition(f, r, a, c)
  PROVE  Cardinality({s \in Sem : a[s] # <<>>}) < MAXPROC
  <1> DEFINE A == {s \in Sem : a[s] # <<>>}
             T == PCB \ {c}
             g == [s \in A |-> Head(a[s])]
  <1>1. \A s \in A : Head(a[s]) \in Range(a[s]) /\ Head(a[s]) \in PCB
    BY MemberType DEF Queues
  <1>2. \A s \in A : Head(a[s]) # c
    BY <1>1 DEF Partition
  <1>3. \A s, t \in A : Head(a[s]) = Head(a[t]) => s = t
    BY <1>1 DEF Partition
  <1>4. g \in Injection(A, T)
    BY <1>1, <1>2, <1>3 DEF Injection, IsInjective
  <1>5. IsFiniteSet(T) /\ Cardinality(T) = MAXPROC - 1 /\ MAXPROC \in Nat
    BY NucleusAssumption, FS_RemoveElement, FS_CardinalityType DEF MAXPROC
  <1> HIDE DEF A, T, g
  <1>6. IsFiniteSet(A) /\ Cardinality(A) <= Cardinality(T)
    BY <1>4, <1>5, FS_Injection
  <1>7. Cardinality(A) \in Nat
    BY <1>6, FS_CardinalityType
  <1> QED
    BY <1>5, <1>6, <1>7 DEF A

(* SYSCALLs 4, 7 and 8 when the process has to wait.                       *)
LEMMA BlockKeeps ==
  ASSUME IInv, cpu = "user", NEW s \in Sem, value[s] - 1 < 0,
         value' = [value EXCEPT ![s] = @ - 1],
         BlockCurrent(s, IF s \in KernelSem THEN softBlockCount + 1 ELSE softBlockCount),
         UNCHANGED <<free, tree, processCount, dying>>
  PROVE  IInv'
  <1> DEFINE soft == IF s \in KernelSem THEN softBlockCount + 1 ELSE softBlockCount
             b == [asl EXCEPT ![s] = Append(@, current)]
  <1>1. /\ free \in Seq(PCB) /\ ready \in Seq(PCB) /\ asl \in Queues /\ current \in PCB
        /\ semAdd \in [PCB -> Sem \cup {NULL}] /\ value \in [Sem -> Int]
        /\ Partition(free, ready, asl, current)
        /\ softBlockCount = Cardinality(Waiters(asl, KernelSem)) /\ softBlockCount \in Nat
    BY Facts
  <1>2. asl' = b /\ semAdd' = [semAdd EXCEPT ![current] = s]
    <2>1. Cardinality(Active) < MAXPROC
      BY <1>1, DescriptorLeft DEF Active
    <2> QED
      BY <2>1 DEF BlockCurrent, InsertBlocked
  <1>3. /\ b[s] = Append(asl[s], current) /\ \A t \in Sem : t # s => b[t] = asl[t]
        /\ b \in Queues
    BY <1>1 DEF Queues
  <1> HIDE DEF b
  <1>4. softBlockCount' = soft /\ GetNewJob(ready, processCount, soft)
    BY DEF BlockCurrent
  <1>5. /\ Partition(free, ready, b, NULL)
        /\ \A S \in SUBSET Sem :
             Waiters(b, S) = IF s \in S THEN Waiters(asl, S) \cup {current}
                                        ELSE Waiters(asl, S)
    BY <1>3, <1>1, BlockMove
  <1>6. soft = Cardinality(Waiters(b, KernelSem)) /\ soft \in Int
    <2>1. current \notin Waiters(asl, KernelSem)
      BY <1>1 DEF Partition, Waiters, Sem
    <2>2. IsFiniteSet(Waiters(asl, KernelSem))
      BY <1>1, WaitersFinite DEF Sem
    <2>3. Waiters(b, KernelSem) = IF s \in KernelSem
            THEN Waiters(asl, KernelSem) \cup {current} ELSE Waiters(asl, KernelSem)
      BY <1>5 DEF Sem
    <2>4. Cardinality(Waiters(asl, KernelSem) \cup {current})
            = Cardinality(Waiters(asl, KernelSem)) + 1
      BY <2>1, <2>2, FS_AddElement
    <2> QED
      BY <1>1, <2>3, <2>4
  <1>7. /\ b[s] = Append(asl[s], current) /\ \A t \in Sem : t # s => b[t] = asl[t]
        /\ value'[s] = value[s] - 1 /\ \A t \in Sem : t # s => value'[t] = value[t]
        /\ value' \in [Sem -> Int] /\ semAdd' \in [PCB -> Sem \cup {NULL}]
    BY <1>3, <1>1, <1>2 DEF Queues
  <1>8. /\ Range(b[s]) = Range(asl[s]) \cup {current}
        /\ Len(b[s]) = Len(asl[s]) + 1 /\ Len(asl[s]) \in Nat
    BY <1>1, <1>7, AppendMembers DEF Queues
  <1> HIDE DEF soft
  <1>9. SemaphoreCount'
    <2>1. /\ \A t \in UserSem : Len(asl[t]) = IF value[t] < 0 THEN -value[t] ELSE 0
          /\ \A d \in DevSem : asl[d] # <<>> => Len(asl[d]) <= -value[d]
          /\ value[Clock] <= 0 /\ Len(asl[Clock]) <= -value[Clock]
      BY DEF IInv, SemaphoreCount
    <2>2. value[s] \in Int /\ Clock \in Sem /\ asl[s] \in Seq(PCB)
      BY <1>1 DEF Sem, KernelSem, Queues
    <2>3. s \in UserSem => Len(b[s]) = IF value'[s] < 0 THEN -value'[s] ELSE 0
      BY <1>7, <1>8, <2>1, <2>2
    <2>4. asl[s] = <<>> => Len(asl[s]) = 0
      OBVIOUS
    <2>5. s \in DevSem => Len(b[s]) <= -value'[s]
      BY <1>7, <1>8, <2>1, <2>2, <2>4
    <2>6. s = Clock => value'[s] <= 0 /\ Len(b[s]) <= -value'[s]
      BY <1>7, <1>8, <2>1, <2>2
    <2>7. \A t \in UserSem : Len(b[t]) = IF value'[t] < 0 THEN -value'[t] ELSE 0
      BY <1>7, <2>1, <2>3 DEF Sem
    <2>8. \A d \in DevSem : b[d] # <<>> => Len(b[d]) <= -value'[d]
      BY <1>7, <2>1, <2>5 DEF Sem, KernelSem
    <2>9. value'[Clock] <= 0 /\ Len(b[Clock]) <= -value'[Clock]
      BY <1>7, <2>1, <2>2, <2>6
    <2> QED
      BY <1>2, <2>7, <2>8, <2>9 DEF SemaphoreCount
  <1>10. WaitsWhereItSays'
    <2>1. \A t \in Sem : \A p \in Range(asl[t]) : semAdd[p] = t /\ p # current /\ p \in PCB
      BY <1>1, MemberType DEF IInv, WaitsWhereItSays, Partition, Queues
    <2>2. semAdd'[current] = s /\ \A p \in PCB : p # current => semAdd'[p] = semAdd[p]
      BY <1>1, <1>2
    <2>3. \A p \in Range(b[s]) : semAdd'[p] = s
      BY <1>8, <2>1, <2>2
    <2>4. \A t \in Sem : t # s => \A p \in Range(b[t]) : semAdd'[p] = t
      BY <1>7, <2>1, <2>2
    <2> QED
      BY <1>2, <2>3, <2>4 DEF WaitsWhereItSays
  <1> QED
    BY <1>3, <1>1, <1>2, <1>4, <1>5, <1>6, <1>7, <1>9, <1>10, Assembled

(* returnFromInterrupt, as Assembled wants it.                             *)
LEMMA Returned ==
  ASSUME IInv, cpu \in {"user", "wait"}, NEW q \in Seq(PCB), NEW a, NEW soft,
         Partition(free, q, a, current), ReturnFromInterrupt(q, soft)
  PROVE  \/ Partition(free, q, a, NULL) /\ GetNewJob(q, processCount, soft)
         \/ /\ cpu = "user" /\ cpu' = "user" /\ current' = current /\ ready' = q
            /\ Partition(free, q, a, current)
  <1>1. cpu = "user" <=> current # NULL
    BY Facts
  <1> QED
    BY <1>1 DEF ReturnFromInterrupt

(* SYSCALL 3 and the device interrupt, when somebody waits.                *)
LEMMA WakeKeeps ==
  ASSUME IInv, cpu \in {"user", "wait"}, NEW s \in UserSem \cup DevSem,
         asl[s] # <<>>, value[s] + 1 <= 0,
         value' = [value EXCEPT ![s] = @ + 1], Wake(s),
         softBlockCount' = IF s \in KernelSem THEN softBlockCount - 1
                                              ELSE softBlockCount,
         ReturnFromInterrupt(Append(ready, Head(asl[s])), softBlockCount'),
         UNCHANGED <<free, tree, processCount, dying>>
  PROVE  IInv'
  <1> DEFINE h == Head(asl[s])
             b == asl'
             q == Append(ready, h)
  <1>1. /\ free \in Seq(PCB) /\ ready \in Seq(PCB) /\ asl \in Queues
        /\ semAdd \in [PCB -> Sem \cup {NULL}] /\ value \in [Sem -> Int]
        /\ Partition(free, ready, asl, current)
        /\ softBlockCount = Cardinality(Waiters(asl, KernelSem)) /\ softBlockCount \in Nat
    BY Facts
  <1>2. s \in Sem /\ s # Clock /\ KernelSem \subseteq Sem /\ UserSem \subseteq Sem
    BY NucleusAssumption DEF Sem, KernelSem
  <1>3. /\ b[s] = Tail(asl[s]) /\ \A t \in Sem : t # s => b[t] = asl[t]
        /\ b \in Queues
        /\ semAdd' = [semAdd EXCEPT ![h] = NULL]
    BY <1>1, <1>2 DEF Wake, Queues
  <1> HIDE DEF b
  <1>4. /\ h \in PCB /\ q \in Seq(PCB) /\ Partition(free, q, b, current)
        /\ h \in Range(asl[s])
        /\ \A S \in SUBSET Sem :
             Waiters(b, S) = IF s \in S THEN Waiters(asl, S) \ {h} ELSE Waiters(asl, S)
    BY <1>1, <1>2, <1>3, WakeMove
  <1> HIDE DEF h, q
  <1>5. softBlockCount' = Cardinality(Waiters(b, KernelSem)) /\ softBlockCount' \in Int
    <2>1. s \in KernelSem => h \in Waiters(asl, KernelSem)
      BY <1>4 DEF Waiters
    <2>2. IsFiniteSet(Waiters(asl, KernelSem))
      BY <1>1, <1>2, WaitersFinite
    <2>3. Waiters(b, KernelSem) = IF s \in KernelSem
            THEN Waiters(asl, KernelSem) \ {h} ELSE Waiters(asl, KernelSem)
      BY <1>2, <1>4
    <2>4. h \in Waiters(asl, KernelSem) =>
            Cardinality(Waiters(asl, KernelSem) \ {h})
              = Cardinality(Waiters(asl, KernelSem)) - 1
      BY <2>2, FS_RemoveElement
    <2> QED
      BY <1>1, <2>1, <2>3, <2>4
  <1>6. /\ value'[s] = value[s] + 1 /\ \A t \in Sem : t # s => value'[t] = value[t]
        /\ value' \in [Sem -> Int] /\ semAdd' \in [PCB -> Sem \cup {NULL}]
    <2>1. value[s] + 1 \in Int
      BY <1>1, <1>2
    <2>2. semAdd' \in [PCB -> Sem \cup {NULL}]
      BY <1>1, <1>3
    <2> QED
      BY <1>1, <1>2, <2>1, <2>2
  <1>7. /\ Range(b[s]) = Range(asl[s]) \ {h}
        /\ Len(b[s]) = Len(asl[s]) - 1 /\ Len(asl[s]) \in Nat
    <2>1. asl[s] \in Seq(PCB) /\ IsInjective(asl[s])
      BY <1>1, <1>2 DEF Queues, Partition
    <2> QED
      BY <1>3, <2>1, TailMembers DEF h
  <1>8. SemaphoreCount'
    <2>1. /\ \A t \in UserSem : Len(asl[t]) = IF value[t] < 0 THEN -value[t] ELSE 0
          /\ \A d \in DevSem : asl[d] # <<>> => Len(asl[d]) <= -value[d]
          /\ value[Clock] <= 0 /\ Len(asl[Clock]) <= -value[Clock]
      BY DEF IInv, SemaphoreCount
    <2>2. value[s] \in Int /\ Clock \in Sem
      BY <1>1, <1>2 DEF Sem, KernelSem
    <2>3. s \in UserSem => Len(b[s]) = IF value'[s] < 0 THEN -value'[s] ELSE 0
      BY <1>6, <1>7, <2>1, <2>2
    <2>4. s \in DevSem => Len(b[s]) <= -value'[s]
      BY <1>6, <1>7, <2>1, <2>2
    <2>5. \A t \in UserSem : Len(b[t]) = IF value'[t] < 0 THEN -value'[t] ELSE 0
      BY <1>2, <1>3, <1>6, <2>1, <2>3
    <2>6. \A d \in DevSem : b[d] # <<>> => Len(b[d]) <= -value'[d]
      BY <1>3, <1>6, <2>1, <2>4 DEF Sem, KernelSem
    <2>7. value'[Clock] <= 0 /\ Len(b[Clock]) <= -value'[Clock]
      BY <1>2, <1>3, <1>6, <2>1, <2>2
    <2> QED
      BY <2>5, <2>6, <2>7 DEF SemaphoreCount, b
  <1>9. WaitsWhereItSays'
    <2>1. \A t \in Sem : \A p \in Range(asl[t]) : semAdd[p] = t /\ p \in PCB
      BY <1>1, MemberType DEF IInv, WaitsWhereItSays, Queues
    <2>2. \A p \in PCB : p # h => semAdd'[p] = semAdd[p]
      BY <1>1, <1>3
    <2>3. \A p \in Range(b[s]) : semAdd'[p] = s
      BY <1>2, <1>7, <2>1, <2>2
    <2>4. \A t \in Sem : t # s => h \notin Range(asl[t])
      BY <1>1, <1>2, <1>4 DEF Partition
    <2>5. \A t \in Sem : t # s => \A p \in Range(b[t]) : semAdd'[p] = t
      BY <1>3, <2>1, <2>2, <2>4
    <2> QED
      BY <2>3, <2>5 DEF WaitsWhereItSays, b
  <1>10. ReturnFromInterrupt(q, softBlockCount')
    BY DEF q, h
  <1> QED
    BY <1>3, <1>4, <1>5, <1>6, <1>8, <1>9, <1>10, Returned, Assembled DEF b

(* A semaphore operation that moves nobody.                                *)
LEMMA ValueKeeps ==
  ASSUME IInv, cpu \in {"user", "wait"}, NEW s \in UserSem \cup DevSem,
         asl[s] = <<>>, NEW v \in Int, s \in UserSem => v >= 0,
         value' = [value EXCEPT ![s] = v],
         ReturnFromInterrupt(ready, softBlockCount),
         UNCHANGED <<free, asl, semAdd, tree, processCount, softBlockCount, dying>>
  PROVE  IInv'
  <1>1. /\ ready \in Seq(PCB) /\ asl \in Queues
        /\ semAdd \in [PCB -> Sem \cup {NULL}] /\ value \in [Sem -> Int]
        /\ Partition(free, ready, asl, current)
        /\ softBlockCount = Cardinality(Waiters(asl, KernelSem)) /\ softBlockCount \in Nat
    BY Facts
  <1>2. s \in Sem /\ s # Clock /\ Clock \in Sem
    BY NucleusAssumption DEF Sem, KernelSem
  <1>3. /\ value'[s] = v /\ \A t \in Sem : t # s => value'[t] = value[t]
        /\ value' \in [Sem -> Int]
    BY <1>1, <1>2
  <1>4. SemaphoreCount'
    <2>1. /\ \A t \in UserSem : Len(asl[t]) = IF value[t] < 0 THEN -value[t] ELSE 0
          /\ \A d \in DevSem : asl[d] # <<>> => Len(asl[d]) <= -value[d]
          /\ value[Clock] <= 0 /\ Len(asl[Clock]) <= -value[Clock]
      BY DEF IInv, SemaphoreCount
    <2>2. Len(asl[s]) = 0
      OBVIOUS
    <2>3. \A t \in UserSem : Len(asl[t]) = IF value'[t] < 0 THEN -value'[t] ELSE 0
      BY <1>3, <2>1, <2>2 DEF Sem
    <2>4. \A d \in DevSem : asl[d] # <<>> => Len(asl[d]) <= -value'[d]
      BY <1>3, <2>1 DEF Sem, KernelSem
    <2>5. value'[Clock] <= 0 /\ Len(asl[Clock]) <= -value'[Clock]
      BY <1>2, <1>3, <2>1
    <2> QED
      BY <2>3, <2>4, <2>5 DEF SemaphoreCount
  <1>5. WaitsWhereItSays'
    BY DEF IInv, WaitsWhereItSays
  <1>6. asl' = asl /\ semAdd' = semAdd /\ softBlockCount' = softBlockCount
    OBVIOUS
  <1> QED
    BY <1>1, <1>3, <1>4, <1>5, <1>6, Returned, Assembled

(* SYSCALL 3.                                                              *)
LEMMA VerhogenKeeps ==
  ASSUME IInv, NEW s \in UserSem, Verhogen(s)
  PROVE  IInv'
  <1>1. /\ cpu = "user" /\ current # NULL /\ value \in [Sem -> Int] /\ asl \in Queues
    BY Facts DEF Verhogen
  <1>2. s \in Sem /\ s \notin KernelSem
    BY NucleusAssumption DEF Sem, KernelSem
  <1>3. value[s] \in Int /\ asl[s] \in Seq(PCB)
    BY <1>1, <1>2 DEF Queues
  <1>4. Len(asl[s]) = IF value[s] < 0 THEN -value[s] ELSE 0
    BY <1>1 DEF IInv, SemaphoreCount
  <1>5. CASE value[s] + 1 <= 0
    <2>1. asl[s] # <<>>
      BY <1>3, <1>4, <1>5
    <2>2. /\ Wake(s) /\ ready' = Append(ready, Head(asl[s])) /\ cpu' = cpu
          /\ UNCHANGED <<free, tree, current, processCount, softBlockCount, dying>>
      BY <1>5, <2>1 DEF Verhogen
    <2>3. ReturnFromInterrupt(Append(ready, Head(asl[s])), softBlockCount')
      BY <1>1, <2>2 DEF ReturnFromInterrupt
    <2> QED
      BY <1>1, <1>2, <1>5, <2>1, <2>2, <2>3, WakeKeeps DEF Verhogen
  <1>6. CASE ~(value[s] + 1 <= 0)
    <2>1. asl[s] = <<>> /\ value[s] + 1 \in Int /\ value[s] + 1 >= 0
      BY <1>3, <1>4, <1>6
    <2>2. /\ cpu' = cpu /\ value' = [value EXCEPT ![s] = value[s] + 1]
          /\ UNCHANGED <<queues, tree, current, processCount, softBlockCount, dying>>
      BY <1>6 DEF Verhogen
    <2>3. ReturnFromInterrupt(ready, softBlockCount)
      BY <1>1, <2>2 DEF ReturnFromInterrupt, queues
    <2> QED
      BY <1>1, <2>1, <2>2, <2>3, ValueKeeps DEF queues
  <1> QED
    BY <1>5, <1>6

(* SYSCALL 4.                                                              *)
LEMMA PasserenKeeps ==
  ASSUME IInv, NEW s \in UserSem, Passeren(s)
  PROVE  IInv'
  <1>1. /\ cpu = "user" /\ current # NULL /\ value \in [Sem -> Int] /\ asl \in Queues
    BY Facts DEF Passeren
  <1>2. s \in Sem /\ s \notin KernelSem
    BY NucleusAssumption DEF Sem, KernelSem
  <1>3. value[s] \in Int /\ asl[s] \in Seq(PCB)
    BY <1>1, <1>2 DEF Queues
  <1>4. CASE value[s] - 1 < 0
    BY <1>1, <1>2, <1>4, BlockKeeps DEF Passeren
  <1>5. CASE ~(value[s] - 1 < 0)
    <2>1. value[s] - 1 \in Int /\ value[s] - 1 >= 0 /\ ~(value[s] < 0)
      BY <1>3, <1>5
    <2>2. Len(asl[s]) = 0
      BY <1>1, <2>1 DEF IInv, SemaphoreCount
    <2>3. asl[s] = <<>>
      BY <1>3, <2>2
    <2>4. /\ value' = [value EXCEPT ![s] = value[s] - 1]
          /\ UNCHANGED <<free, asl, semAdd, ready, current, tree, processCount,
                         softBlockCount, dying, cpu>>
      BY <1>5 DEF Passeren
    <2>5. ReturnFromInterrupt(ready, softBlockCount)
      BY <1>1, <2>4 DEF ReturnFromInterrupt
    <2> QED
      BY <1>1, <2>1, <2>3, <2>4, <2>5, ValueKeeps
  <1> QED
    BY <1>4, <1>5

(* SYSCALL 7: the pseudo-clock semaphore is never above zero, so that the  *)
(* panic of the other branch is never reached.                             *)
LEMMA WaitForClockKeeps ==
  ASSUME IInv, WaitForClock
  PROVE  IInv'
  <1>1. cpu = "user" /\ value \in [Sem -> Int]
    BY Facts DEF WaitForClock
  <1>2. Clock \in Sem /\ Clock \in KernelSem
    BY DEF Sem, KernelSem
  <1>3. value[Clock] - 1 < 0
    BY <1>1, <1>2 DEF IInv, SemaphoreCount
  <1> QED
    BY <1>1, <1>2, <1>3, BlockKeeps DEF WaitForClock

(* SYSCALL 8.                                                              *)
LEMMA WaitForIOKeeps ==
  ASSUME IInv, NEW d \in DevSem, WaitForIO(d)
  PROVE  IInv'
  <1>1. /\ cpu = "user" /\ current # NULL /\ value \in [Sem -> Int] /\ asl \in Queues
    BY Facts DEF WaitForIO
  <1>2. d \in Sem /\ d \in KernelSem /\ d \notin UserSem
    BY NucleusAssumption DEF Sem, KernelSem
  <1>3. value[d] \in Int /\ asl[d] \in Seq(PCB)
    BY <1>1, <1>2 DEF Queues
  <1>4. CASE value[d] - 1 < 0
    BY <1>1, <1>2, <1>4, BlockKeeps DEF WaitForIO
  <1>5. CASE ~(value[d] - 1 < 0)
    <2>1. asl[d] # <<>> => Len(asl[d]) <= -value[d] /\ Len(asl[d]) > 0
      BY <1>1, <1>3 DEF IInv, SemaphoreCount
    <2>2. asl[d] = <<>> /\ value[d] - 1 \in Int
      BY <1>3, <1>5, <2>1
    <2>3. /\ value' = [value EXCEPT ![d] = value[d] - 1]
          /\ UNCHANGED <<free, asl, semAdd, ready, current, tree, processCount,
                         softBlockCount, dying, cpu>>
      BY <1>5 DEF WaitForIO
    <2>4. ReturnFromInterrupt(ready, softBlockCount)
      BY <1>1, <2>3 DEF ReturnFromInterrupt
    <2> QED
      BY <1>1, <1>2, <2>2, <2>3, <2>4, ValueKeeps
  <1> QED
    BY <1>4, <1>5

(* An interrupt from a device.                                             *)
LEMMA DeviceInterruptKeeps ==
  ASSUME IInv, NEW d \in DevSem, DeviceInterrupt(d)
  PROVE  IInv'
  <1>1. /\ cpu \in {"user", "wait"} /\ value \in [Sem -> Int] /\ asl \in Queues
    BY Facts DEF DeviceInterrupt
  <1>2. d \in Sem /\ d \in KernelSem /\ d \notin UserSem
    BY NucleusAssumption DEF Sem, KernelSem
  <1>3. value[d] \in Int /\ asl[d] \in Seq(PCB)
    BY <1>1, <1>2 DEF Queues
  <1>4. CASE value[d] + 1 <= 0 /\ asl[d] # <<>>
    BY <1>1, <1>2, <1>4, WakeKeeps DEF DeviceInterrupt
  <1>5. CASE ~(value[d] + 1 <= 0 /\ asl[d] # <<>>)
    <2>1. asl[d] # <<>> => Len(asl[d]) <= -value[d] /\ Len(asl[d]) > 0
      BY <1>1, <1>3 DEF IInv, SemaphoreCount
    <2>2. asl[d] = <<>> /\ value[d] + 1 \in Int
      BY <1>3, <1>5, <2>1
    <2>3. /\ value' = [value EXCEPT ![d] = value[d] + 1]
          /\ ReturnFromInterrupt(ready, softBlockCount)
          /\ UNCHANGED <<free, asl, semAdd, tree, processCount, softBlockCount, dying>>
      BY <1>5 DEF DeviceInterrupt
    <2> QED
      BY <1>1, <1>2, <2>2, <2>3, ValueKeeps
  <1> QED
    BY <1>4, <1>5

(* The end of a quantum.                                                   *)
LEMMA QuantumEndKeeps ==
  ASSUME IInv, QuantumEnd
  PROVE  IInv'
  <1>1. /\ cpu = "user" /\ free \in Seq(PCB) /\ ready \in Seq(PCB) /\ current \in PCB
        /\ asl \in Queues /\ value \in [Sem -> Int]
        /\ semAdd \in [PCB -> Sem \cup {NULL}]
        /\ Partition(free, ready, asl, current)
        /\ softBlockCount = Cardinality(Waiters(asl, KernelSem)) /\ softBlockCount \in Nat
    BY Facts DEF QuantumEnd
  <1>2. /\ asl' = asl /\ semAdd' = semAdd /\ softBlockCount' = softBlockCount
        /\ UNCHANGED <<free, tree, value, processCount, dying>>
        /\ GetNewJob(Append(ready, current), processCount, softBlockCount')
    BY DEF QuantumEnd
  <1>3. Append(ready, current) \in Seq(PCB)
    BY <1>1
  <1>4. Partition(free, Append(ready, current), asl', NULL)
    BY <1>1, <1>2, PreemptMove
  <1>5. SemaphoreCount' /\ WaitsWhereItSays'
    BY <1>1, <1>2 DEF IInv, SemaphoreCount, WaitsWhereItSays
  <1>6. /\ asl' \in Queues /\ semAdd' \in [PCB -> Sem \cup {NULL}]
        /\ value' \in [Sem -> Int] /\ softBlockCount' \in Int
        /\ softBlockCount' = Cardinality(Waiters(asl', KernelSem))
    BY <1>1, <1>2
  <1>7. cpu \in {"user", "wait"} /\ UNCHANGED <<free, tree, processCount, dying>>
    BY <1>1, <1>2
  <1> QED
    BY <1>2, <1>3, <1>4, <1>5, <1>6, <1>7, Assembled

(* The pseudo-clock tick.                                                  *)
LEMMA TickKeeps ==
  ASSUME IInv, Tick
  PROVE  IInv'
  <1> DEFINE w == asl[Clock]
             q == ready \o w
             b == asl'
  <1>1. /\ cpu \in {"user", "wait"} /\ free \in Seq(PCB) /\ ready \in Seq(PCB)
        /\ asl \in Queues /\ value \in [Sem -> Int]
        /\ semAdd \in [PCB -> Sem \cup {NULL}]
        /\ Partition(free, ready, asl, current)
        /\ softBlockCount = Cardinality(Waiters(asl, KernelSem)) /\ softBlockCount \in Nat
    BY Facts DEF Tick
  <1>2. Clock \in Sem /\ Clock \in KernelSem /\ KernelSem \subseteq Sem
        /\ Clock \notin UserSem \cup DevSem
    BY NucleusAssumption DEF Sem, KernelSem
  <1>3. /\ b = [asl EXCEPT ![Clock] = <<>>]
        /\ semAdd' = [p \in PCB |-> IF p \in Range(w) THEN NULL ELSE semAdd[p]]
        /\ value' = [value EXCEPT ![Clock] = 0]
        /\ softBlockCount' = softBlockCount - Len(w)
        /\ ReturnFromInterrupt(q, softBlockCount')
        /\ UNCHANGED <<free, tree, processCount, dying>>
    BY DEF Tick
  <1>4. /\ b[Clock] = <<>> /\ \A t \in Sem : t # Clock => b[t] = asl[t]
        /\ b \in Queues
    BY <1>1, <1>2, <1>3 DEF Queues
  <1> HIDE DEF b
  <1>5. /\ q \in Seq(PCB) /\ Partition(free, q, b, current)
        /\ \A S \in SUBSET Sem :
             Waiters(b, S) = IF Clock \in S THEN Waiters(asl, S) \ Range(w)
                                            ELSE Waiters(asl, S)
    BY <1>1, <1>2, <1>4, DrainMove
  <1>6. softBlockCount' = Cardinality(Waiters(b, KernelSem)) /\ softBlockCount' \in Int
    <2> DEFINE X == Waiters(asl, KernelSem)
    <2>1. Waiters(b, KernelSem) = X \ Range(w)
      BY <1>2, <1>5
    <2>2. IsFiniteSet(X) /\ X \cap Range(w) = Range(w)
      BY <1>1, <1>2, WaitersFinite DEF Waiters
    <2>3. w \in Seq(PCB) /\ IsInjective(w)
      BY <1>1, <1>2 DEF Queues, Partition
    <2>4. Cardinality(Range(w)) = Len(w) /\ Len(w) \in Nat
      BY <2>3, QueueCardinality
    <2>5. Cardinality(X \ Range(w)) = Cardinality(X) - Cardinality(X \cap Range(w))
      BY <2>2, FS_Difference
    <2> HIDE DEF X, w
    <2>6. Cardinality(X \ Range(w)) = Cardinality(X) - Len(w)
      BY <2>2, <2>4, <2>5
    <2>7. softBlockCount = Cardinality(X) /\ softBlockCount \in Nat
      BY <1>1 DEF X
    <2>8. softBlockCount' = softBlockCount - Len(w)
      BY <1>3
    <2> QED
      BY <2>1, <2>4, <2>6, <2>7, <2>8
  <1>7. /\ value'[Clock] = 0 /\ \A t \in Sem : t # Clock => value'[t] = value[t]
        /\ value' \in [Sem -> Int]
    BY <1>1, <1>2, <1>3
  <1>8. semAdd' \in [PCB -> Sem \cup {NULL}]
    BY <1>1, <1>3
  <1>9. SemaphoreCount'
    <2>1. /\ \A t \in UserSem : Len(asl[t]) = IF value[t] < 0 THEN -value[t] ELSE 0
          /\ \A d \in DevSem : asl[d] # <<>> => Len(asl[d]) <= -value[d]
      BY <1>1 DEF IInv, SemaphoreCount
    <2>2. \A t \in UserSem : Len(b[t]) = IF value'[t] < 0 THEN -value'[t] ELSE 0
      BY <1>2, <1>4, <1>7, <2>1 DEF Sem
    <2>3. \A d \in DevSem : b[d] # <<>> => Len(b[d]) <= -value'[d]
      BY <1>2, <1>4, <1>7, <2>1 DEF Sem, KernelSem
    <2>4. Len(b[Clock]) = 0
      BY <1>4
    <2> QED
      BY <1>7, <2>2, <2>3, <2>4 DEF SemaphoreCount, b
  <1>10. WaitsWhereItSays'
    <2>1. \A t \in Sem : \A p \in Range(asl[t]) : semAdd[p] = t /\ p \in PCB
      BY <1>1, MemberType DEF IInv, WaitsWhereItSays, Queues
    <2>2. \A t \in Sem : t # Clock => \A p \in Range(asl[t]) : p \notin Range(w)
      BY <1>1, <1>2 DEF Partition
    <2>3. \A t \in Sem : t # Clock => \A p \in Range(b[t]) : semAdd'[p] = t
      BY <1>3, <1>4, <2>1, <2>2
    <2>4. Range(b[Clock]) = {}
      BY <1>4, EmptyQueue
    <2> QED
      BY <2>3, <2>4 DEF WaitsWhereItSays, b
  <1> HIDE DEF q
  <1>11. ReturnFromInterrupt(q, softBlockCount')
    BY <1>3 DEF q
  <1> QED
    BY <1>1, <1>3, <1>4, <1>5, <1>6, <1>7, <1>8, <1>9, <1>10, <1>11,
       Returned, Assembled DEF b
--------------------------------------------------------------------------
(* SYSCALL 1.                                                              *)
LEMMA CreateProcessKeeps ==
  ASSUME IInv, CreateProcess
  PROVE  IInv'
  <1>1. /\ cpu = "user" /\ free \in Seq(PCB) /\ ready \in Seq(PCB) /\ dying = <<>>
        /\ current \in PCB /\ asl \in Queues /\ parent \in Parents /\ children \in Children
        /\ Partition(free, ready, asl, current) /\ Tree(Live, parent, children, <<>>)
        /\ processCount = Cardinality(Live) /\ processCount \in Nat
        /\ IsFiniteSet(Live) /\ Live \subseteq PCB
    BY Facts DEF CreateProcess, IInv, DyingStack
  <1>2. CASE free = <<>> /\ UNCHANGED vars
    BY <1>2 DEF vars, queues, tree, IInv, TypeOK, OnePlace, Counts, SemaphoreCount, NoFault,
       StopsOnlyWhenStuck, ProcessTree, DyingStack, WaitsWhereItSays, Live, SoftBlocked
  <1>3. CASE free # <<>>
    <2> DEFINE p == Head(free)
    <2>1. /\ parent' = [parent EXCEPT ![p] = current]
          /\ children' = [children EXCEPT ![p] = <<>>, ![current] = Cons(p, @)]
          /\ ready' = Append(ready, p) /\ free' = Tail(free)
          /\ processCount' = processCount + 1
          /\ UNCHANGED <<asl, semAdd, current, value, softBlockCount, dying, cpu>>
      BY <1>3 DEF CreateProcess
    <2>2. /\ p \in PCB /\ ready' \in Seq(PCB) /\ free' \in Seq(PCB)
          /\ Partition(free', ready', asl, current)
          /\ Range(free') = Range(free) \ {p} /\ p \in Range(free)
      BY <1>1, <1>3, <2>1, AllocMove
    <2>3. current \in Live /\ p \in PCB \ Live
      BY <1>1, <2>2 DEF Live, Partition
    <2>4. parent' \in Parents /\ children' \in Children
          /\ Tree(Live \cup {p}, parent', children', <<>>)
      BY <1>1, <2>1, <2>3, CreateTree
    <2> HIDE DEF p
    <2>5. Live' = Live \cup {p}
      BY <2>2, <2>3 DEF Live
    <2>6. processCount' = Cardinality(Live') /\ processCount' \in 0..MAXPROC
      <3>1. Cardinality(Live \cup {p}) = Cardinality(Live) + 1
        BY <1>1, <2>3, FS_AddElement
      <3>2. Live' \in SUBSET PCB
        BY <1>1, <2>2, <2>5
      <3>3. Cardinality(Live') <= MAXPROC /\ MAXPROC \in Nat
        BY <3>2, NucleusAssumption, FS_Subset, FS_CardinalityType DEF MAXPROC
      <3> QED
        BY <1>1, <2>1, <2>5, <3>1, <3>3
    <2>7. TypeOK'
      BY <2>1, <2>2, <2>4, <2>6 DEF IInv, TypeOK, Parents, Children
    <2>8. OnePlace' /\ Counts'
      BY <2>1, <2>2, <2>6, <1>1 DEF IInv, OnePlace, Counts, SoftBlocked
    <2>9. SemaphoreCount' /\ NoFault' /\ StopsOnlyWhenStuck' /\ WaitsWhereItSays'
      BY <1>1, <2>1 DEF IInv, SemaphoreCount, NoFault, StopsOnlyWhenStuck, WaitsWhereItSays
    <2>10. ProcessTree' /\ DyingStack'
      <3>1. Stack(Live', parent', dying)
        <4>1. Range(dying) = {} /\ IsInjective(dying) /\ ~ \E i \in 2..Len(dying) : TRUE
          BY <1>1, EmptyQueue
        <4> QED
          BY <4>1 DEF Stack
      <3> QED
        BY <1>1, <2>1, <2>4, <2>5, <3>1 DEF ProcessTree, DyingStack
    <2> QED
      BY <2>7, <2>8, <2>9, <2>10 DEF IInv
  <1> QED
    BY <1>2, <1>3 DEF CreateProcess

(* SYSCALL 2.                                                              *)
LEMMA TerminateProcessKeeps ==
  ASSUME IInv, TerminateProcess
  PROVE  IInv'
  <1>1. /\ cpu = "user" /\ current \in PCB /\ dying = <<>> /\ parent \in Parents
        /\ Partition(free, ready, asl, current) /\ Tree(Live, parent, children, <<>>)
        /\ free \in Seq(PCB)
    BY Facts DEF TerminateProcess, IInv, DyingStack
  <1>2. /\ dying' = <<current>> /\ cpu' = "nuke"
        /\ UNCHANGED <<free, ready, asl, semAdd, parent, children, current, value,
                       processCount, softBlockCount>>
    BY DEF TerminateProcess, queues, tree
  <1>3. current \in Live /\ Live' = Live
    BY <1>1, <1>2 DEF Live, Partition
  <1>4. dying' \in Seq(PCB) /\ Len(dying') = 1 /\ dying' # <<>> /\ dying'[1] = current
    BY <1>1, <1>2
  <1>5. IsInjective(dying') /\ Range(dying') = {current} /\ 2..Len(dying') = {}
    <2>1. DOMAIN dying' = {1}
      BY <1>2
    <2> QED
      BY <1>4, <2>1 DEF IsInjective, Range
  <1>6. TypeOK'
    BY <1>1, <1>2, <1>4 DEF IInv, TypeOK
  <1>7. OnePlace' /\ Counts' /\ SemaphoreCount' /\ NoFault' /\ StopsOnlyWhenStuck'
        /\ WaitsWhereItSays'
    BY <1>1, <1>2, <1>3 DEF IInv, OnePlace, Counts, SoftBlocked, SemaphoreCount, NoFault,
       StopsOnlyWhenStuck, WaitsWhereItSays
  <1>8. DyingStack'
    BY <1>2, <1>3, <1>4, <1>5 DEF DyingStack, Stack
  <1>9. ProcessTree'
    <2>1. \A x \in PCB : Up(<<>>, parent, x) = parent[x] /\ Up(dying', parent, x) = parent[x]
      <3>1. 2..Len(<<>>) = {}
        OBVIOUS
      <3> QED
        BY <1>5, <3>1 DEF Up
    <2>2. Live \subseteq PCB
      BY DEF Live
    <2>3. Tree(Live, parent, children, dying')
      BY <1>1, <2>1, <2>2 DEF Tree
    <2> QED
      BY <1>2, <1>3, <2>3 DEF ProcessTree
  <1> QED
    BY <1>6, <1>7, <1>8, <1>9 DEF IInv

(* The while loop of nukeItTilItPukes.                                     *)
LEMMA NukeChildKeeps ==
  ASSUME IInv, NukeChild
  PROVE  IInv'
  <1> DEFINE p == Last(dying)
             h == Head(children[p])
  <1>1. /\ cpu = "nuke" /\ dying \in Seq(PCB) /\ dying # <<>> /\ dying[1] = current
        /\ parent \in Parents /\ children \in Children /\ Live \in SUBSET PCB
        /\ Stack(Live, parent, dying) /\ Tree(Live, parent, children, dying)
    BY Facts DEF NukeChild, IInv, DyingStack
  <1>2. /\ children[p] # <<>> /\ dying' = Append(dying, h)
        /\ parent' = [parent EXCEPT ![h] = NULL]
        /\ children' = [children EXCEPT ![p] = Tail(@)]
        /\ UNCHANGED <<free, ready, asl, semAdd, current, value, processCount,
                       softBlockCount, cpu>>
    BY DEF NukeChild, queues
  <1>3. /\ h \in PCB /\ parent' \in Parents /\ children' \in Children
        /\ dying' \in Seq(PCB) /\ dying'[1] = dying[1]
        /\ Stack(Live, parent', dying') /\ Tree(Live, parent', children', dying')
    BY <1>1, <1>2, UnhookTree
  <1>4. Live' = Live /\ dying' # <<>>
    BY <1>1, <1>2, <1>3 DEF Live
  <1> HIDE DEF p, h
  <1>5. TypeOK'
    BY <1>2, <1>3 DEF IInv, TypeOK, Parents, Children
  <1>6. OnePlace' /\ Counts' /\ SemaphoreCount' /\ NoFault' /\ StopsOnlyWhenStuck'
        /\ WaitsWhereItSays'
    BY <1>1, <1>2, <1>4 DEF IInv, OnePlace, Counts, SoftBlocked, SemaphoreCount, NoFault,
       StopsOnlyWhenStuck, WaitsWhereItSays
  <1>7. DyingStack' /\ ProcessTree'
    BY <1>1, <1>2, <1>3, <1>4 DEF DyingStack, ProcessTree
  <1> QED
    BY <1>5, <1>6, <1>7 DEF IInv

(* The activation on top of the stack.                                     *)
LEMMA Deepest ==
  ASSUME IInv, cpu = "nuke"
  PROVE  /\ dying \in Seq(PCB) /\ dying # <<>> /\ Front(dying) \in Seq(PCB)
         /\ Last(dying) \in Live /\ dying[1] = current
         /\ Last(dying) # current => Len(dying) >= 2
         /\ Last(dying) = current => dying = <<current>>
  <1>1. /\ dying \in Seq(PCB) /\ dying # <<>> /\ dying[1] = current
        /\ Stack(Live, parent, dying)
    BY Facts DEF IInv, DyingStack
  <1>2. Len(dying) \in Nat /\ Len(dying) >= 1 /\ DOMAIN dying = 1..Len(dying)
        /\ Last(dying) = dying[Len(dying)]
    BY <1>1 DEF Last
  <1>3. Last(dying) \in Range(dying)
    BY <1>1, MemberType
  <1>4. Front(dying) \in Seq(PCB)
    BY <1>1, <1>2 DEF Front
  <1>5. ASSUME Last(dying) = current
        PROVE  dying = <<current>>
    <2>1. dying[1] = dying[Len(dying)] /\ 1 \in DOMAIN dying /\ Len(dying) \in DOMAIN dying
      BY <1>1, <1>2, <1>5
    <2>2. Len(dying) = 1
      BY <1>1, <2>1 DEF Stack, IsInjective
    <2> QED
      BY <1>1, <2>2
  <1>6. ASSUME Last(dying) # current
        PROVE  Len(dying) >= 2
    BY <1>1, <1>2, <1>6
  <1> QED
    BY <1>1, <1>3, <1>4, <1>5, <1>6 DEF Stack

(* freePcb and processCount--.                                             *)
LEMMA Freed ==
  ASSUME IInv, cpu # "tangled", NEW p \in Live,
         free' = Append(free, p), processCount' = processCount - 1
  PROVE  /\ free' \in Seq(PCB) /\ Live' = Live \ {p}
         /\ processCount' = Cardinality(Live') /\ processCount' \in 0..MAXPROC
  <1>1. /\ free \in Seq(PCB) /\ IsFiniteSet(Live) /\ Live \subseteq PCB
        /\ processCount = Cardinality(Live)
    BY Facts
  <1>2. free' \in Seq(PCB) /\ Range(free') = Range(free) \cup {p}
    BY <1>1, AppendMembers
  <1>3. Live' = Live \ {p}
    BY <1>2 DEF Live
  <1>4. Cardinality(Live \ {p}) = Cardinality(Live) - 1 /\ IsFiniteSet(Live \ {p})
    BY <1>1, FS_RemoveElement
  <1>5. Cardinality(Live \ {p}) \in Nat /\ Cardinality(Live) \in Nat
        /\ Cardinality(Live) <= MAXPROC /\ MAXPROC \in Nat
    BY <1>1, <1>4, NucleusAssumption, FS_CardinalityType, FS_Subset DEF MAXPROC
  <1> QED
    BY <1>1, <1>2, <1>3, <1>4, <1>5

(* An activation for a descendant, when p_semAdd tells the truth.          *)
LEMMA BuriedKeeps ==
  ASSUME IInv, cpu = "nuke", cpu' = "nuke", UNCHANGED <<tree, current, semAdd>>,
         Last(dying) # current, children[Last(dying)] = <<>>,
         free' = Append(free, Last(dying)), processCount' = processCount - 1,
         dying' = Front(dying), ready' \in Seq(PCB), asl' \in Queues,
         Partition(free', ready', asl', current), value' \in [Sem -> Int],
         softBlockCount' \in Int, softBlockCount' = Cardinality(Waiters(asl', KernelSem)),
         SemaphoreCount', \A s \in Sem : Range(asl'[s]) \subseteq Range(asl[s])
  PROVE  IInv'
  <1> DEFINE p == Last(dying)
  <1>1. /\ parent \in Parents /\ children \in Children /\ dying \in Seq(PCB)
        /\ Live \in SUBSET PCB /\ Len(dying) >= 2 /\ p \in Live /\ dying[1] = current
        /\ Stack(Live, parent, dying) /\ Tree(Live, parent, children, dying)
    BY Facts, Deepest
  <1>2. /\ dying' \in Seq(PCB) /\ dying' # <<>> /\ dying'[1] = dying[1]
        /\ Stack(Live \ {p}, parent, dying') /\ Tree(Live \ {p}, parent, children, dying')
    BY <1>1, BuryTree
  <1>3. /\ free' \in Seq(PCB) /\ Live' = Live \ {p}
        /\ processCount' = Cardinality(Live') /\ processCount' \in 0..MAXPROC
    BY <1>1, Freed
  <1>4. TypeOK'
    BY <1>2, <1>3 DEF IInv, TypeOK, tree, Queues
  <1>5. OnePlace' /\ Counts' /\ NoFault' /\ StopsOnlyWhenStuck'
    BY <1>3 DEF OnePlace, Counts, SoftBlocked, NoFault, StopsOnlyWhenStuck
  <1>6. ProcessTree' /\ DyingStack'
    BY <1>1, <1>2, <1>3 DEF ProcessTree, DyingStack, tree
  <1>7. WaitsWhereItSays'
    BY DEF IInv, WaitsWhereItSays
  <1> QED
    BY <1>4, <1>5, <1>6, <1>7 DEF IInv

(* An activation for a descendant.                                         *)
LEMMA NukeProgenyKeeps ==
  ASSUME IInv, NukeProgeny
  PROVE  IInv'
  <1> DEFINE p == Last(dying)
             s == semAdd[p]
  <1>1. /\ cpu = "nuke" /\ free \in Seq(PCB) /\ ready \in Seq(PCB) /\ asl \in Queues
        /\ semAdd \in [PCB -> Sem \cup {NULL}] /\ value \in [Sem -> Int]
        /\ Partition(free, ready, asl, current)
        /\ softBlockCount = Cardinality(Waiters(asl, KernelSem)) /\ softBlockCount \in Nat
    BY Facts DEF NukeProgeny
  <1>2. /\ children[p] = <<>> /\ p # current
        /\ LeaveReadyQueue(p) \/ LeaveSemaphore(p)
        /\ cpu' = IF p \in Range(ready') THEN "tangled" ELSE "nuke"
        /\ free' = Append(free, p) /\ processCount' = processCount - 1
        /\ dying' = Front(dying)
        /\ UNCHANGED <<tree, current, semAdd>>
    BY DEF NukeProgeny, Bury
  <1>3. p \in Live /\ p \in PCB /\ dying' \in Seq(PCB)
    BY <1>1, <1>2, Deepest DEF Live
  <1>4. p \in Range(ready) \/ \E t \in Sem : p \in Range(asl[t])
    BY <1>1, <1>2, <1>3 DEF Partition, Waiters, Live
  <1>5. free' \in Seq(PCB) /\ processCount' \in 0..MAXPROC
    BY <1>1, <1>2, <1>3, Freed
  <1> HIDE DEF p, s
  <1>6. CASE LeaveReadyQueue(p)
    <2>1. /\ semAdd[p] = NULL /\ ready' = RemoveFirst(ready, p)
          /\ UNCHANGED <<asl, value, softBlockCount>>
      BY <1>6 DEF LeaveReadyQueue
    <2>2. p \in Range(ready)
      BY <1>1, <1>4, <2>1, NucleusAssumption DEF IInv, WaitsWhereItSays, Sem, KernelSem
    <2>3. /\ ready' \in Seq(PCB) /\ Range(ready') = Range(ready) \ {p}
      BY <1>1, <2>1, RemoveMembers DEF Partition
    <2>4. cpu' = "nuke"
      BY <1>2, <2>3
    <2>5. Partition(free', ready', asl, current)
      BY <1>1, <1>2, <2>1, <2>2, BuryReadyMove
    <2>6. SemaphoreCount'
      BY <1>1, <2>1, <2>4 DEF IInv, SemaphoreCount
    <2>7. asl' = asl /\ softBlockCount' = softBlockCount /\ value' = value
      BY <2>1
    <2> QED
      BY <1>1, <1>2, <2>3, <2>4, <2>5, <2>6, <2>7, BuriedKeeps DEF p
  <1>7. CASE LeaveSemaphore(p)
    <2>1. /\ s # NULL /\ asl' = [asl EXCEPT ![s] = RemoveFirst(@, p)] /\ ready' = ready
          /\ IF s \in KernelSem
               THEN softBlockCount' = softBlockCount - 1 /\ value' = value
               ELSE value' = [value EXCEPT ![s] = @ + 1] /\ softBlockCount' = softBlockCount
      BY <1>7 DEF LeaveSemaphore, s
    <2>2. s \in Sem /\ asl[s] \in Seq(PCB) /\ IsInjective(asl[s])
          /\ KernelSem \subseteq Sem
      BY <1>1, <1>3, <2>1 DEF s, Queues, Partition, Sem
    <2>3. /\ RemoveFirst(asl[s], p) \in Seq(PCB)
          /\ Range(RemoveFirst(asl[s], p)) = Range(asl[s]) \ {p}
          /\ p \in Range(asl[s]) => Len(RemoveFirst(asl[s], p)) = Len(asl[s]) - 1
      BY <2>2, RemoveMembers
    <2>4. /\ asl' \in Queues /\ asl'[s] = RemoveFirst(asl[s], p)
          /\ \A t \in Sem : t # s => asl'[t] = asl[t]
      BY <1>1, <2>1, <2>2, <2>3 DEF Queues
    <2>5. softBlockCount' \in Int
      BY <1>1, <2>1
    <2>6. value' \in [Sem -> Int]
      BY <1>1, <2>1
    <2>7. CASE p \in Range(ready)
      <3>1. cpu' = "tangled"
        BY <1>2, <2>1, <2>7
      <3>2. TypeOK'
        BY <1>1, <1>2, <1>3, <1>5, <2>1, <2>4, <2>5, <2>6, <3>1
           DEF IInv, TypeOK, tree, Queues, Stopped
      <3> QED
        BY <3>1, <3>2 DEF IInv, OnePlace, Counts, SemaphoreCount, NoFault,
           StopsOnlyWhenStuck, ProcessTree, DyingStack, WaitsWhereItSays
    <2>8. CASE p \notin Range(ready)
      <3>1. cpu' = "nuke"
        BY <1>2, <2>1, <2>8
      <3>2. p \in Range(asl[s])
        BY <1>1, <1>4, <2>8 DEF IInv, WaitsWhereItSays, s
      <3>3. /\ Partition(free', ready', asl', current)
            /\ \A S \in SUBSET Sem :
                 Waiters(asl', S) = IF s \in S THEN Waiters(asl, S) \ {p}
                                               ELSE Waiters(asl, S)
        <4>1. /\ Partition(Append(free, p), ready, asl', current)
              /\ \A S \in SUBSET Sem :
                   Waiters(asl', S) = IF s \in S THEN Waiters(asl, S) \ {p}
                                                 ELSE Waiters(asl, S)
          BY <1>1, <2>2, <2>4, <3>2, BuryBlockedMove
        <4> QED
          BY <1>2, <2>1, <4>1
      <3>4. softBlockCount' = Cardinality(Waiters(asl', KernelSem))
        <4>1. s \in KernelSem => p \in Waiters(asl, KernelSem)
          BY <3>2 DEF Waiters
        <4>2. IsFiniteSet(Waiters(asl, KernelSem))
          BY <1>1, <2>2, WaitersFinite
        <4>3. Waiters(asl', KernelSem) = IF s \in KernelSem
                THEN Waiters(asl, KernelSem) \ {p} ELSE Waiters(asl, KernelSem)
          BY <2>2, <3>3
        <4>4. p \in Waiters(asl, KernelSem) =>
                Cardinality(Waiters(asl, KernelSem) \ {p})
                  = Cardinality(Waiters(asl, KernelSem)) - 1
          BY <4>2, FS_RemoveElement
        <4> QED
          BY <1>1, <2>1, <4>1, <4>3, <4>4
      <3>5. SemaphoreCount'
        <4>1. /\ \A t \in UserSem : Len(asl[t]) = IF value[t] < 0 THEN -value[t] ELSE 0
              /\ \A d \in DevSem : asl[d] # <<>> => Len(asl[d]) <= -value[d]
              /\ value[Clock] <= 0 /\ Len(asl[Clock]) <= -value[Clock]
          BY <1>1 DEF IInv, SemaphoreCount
        <4>2. /\ value[s] \in Int /\ Clock \in Sem /\ Clock \in KernelSem
              /\ Len(asl[s]) \in Nat /\ Len(asl[s]) >= 1 /\ asl[s] # <<>>
          <5>1. asl[s] # <<>>
            BY <3>2, EmptyQueue
          <5> QED
            BY <1>1, <2>2, <5>1 DEF Sem, KernelSem
        <4>3. Len(asl'[s]) = Len(asl[s]) - 1
          BY <2>3, <2>4, <3>2
        <4>4. /\ \A t \in KernelSem : value'[t] = value[t]
              /\ \A t \in UserSem : t # s => value'[t] = value[t]
              /\ s \in UserSem => value'[s] = value[s] + 1
          BY <1>1, <2>1, <2>2, NucleusAssumption DEF Sem, KernelSem
        <4>5. s \in UserSem => Len(asl'[s]) = IF value'[s] < 0 THEN -value'[s] ELSE 0
          BY <4>1, <4>2, <4>3, <4>4
        <4>6. \A t \in UserSem : Len(asl'[t]) = IF value'[t] < 0 THEN -value'[t] ELSE 0
          BY <2>4, <4>1, <4>4, <4>5 DEF Sem
        <4>7. s \in DevSem => Len(asl'[s]) <= -value'[s]
          BY <4>1, <4>2, <4>3, <4>4 DEF KernelSem
        <4>8. \A d \in DevSem : asl'[d] # <<>> => Len(asl'[d]) <= -value'[d]
          BY <2>4, <4>1, <4>4, <4>7 DEF Sem, KernelSem
        <4>9. s = Clock => Len(asl'[s]) <= -value'[s]
          BY <4>1, <4>2, <4>3, <4>4
        <4>10. value'[Clock] <= 0 /\ Len(asl'[Clock]) <= -value'[Clock]
          BY <2>4, <4>1, <4>2, <4>4, <4>9
        <4> QED
          BY <4>6, <4>8, <4>10 DEF SemaphoreCount
      <3>6. \A t \in Sem : Range(asl'[t]) \subseteq Range(asl[t])
        BY <2>3, <2>4
      <3> QED
        BY <1>1, <1>2, <2>1, <2>4, <2>5, <2>6, <3>1, <3>3, <3>4, <3>5, <3>6, BuriedKeeps
           DEF p
    <2> QED
      BY <2>7, <2>8
  <1> QED
    BY <1>2, <1>6, <1>7

(* The activation for the current process.                                 *)
LEMMA NukeCurrentKeeps ==
  ASSUME IInv, NukeCurrent
  PROVE  IInv'
  <1>1. /\ cpu = "nuke" /\ current = Last(dying) /\ children[current] = <<>>
        /\ IF parent[current] = NULL
             THEN parent' = parent /\ children' = children
             ELSE /\ children' = [children EXCEPT ![parent[current]] =
                                                    RemoveFirst(@, current)]
                  /\ parent' = [parent EXCEPT ![current] = NULL]
        /\ free' = Append(free, current) /\ processCount' = processCount - 1
        /\ dying' = Front(dying) /\ semAdd' = semAdd
        /\ GetNewJob(ready, processCount', softBlockCount)
        /\ UNCHANGED <<asl, value, softBlockCount>>
    BY DEF NukeCurrent, Bury, tree
  <1>2. /\ free \in Seq(PCB) /\ ready \in Seq(PCB) /\ asl \in Queues /\ current \in PCB
        /\ parent \in Parents /\ children \in Children
        /\ Partition(free, ready, asl, current) /\ Live \in SUBSET PCB
        /\ Tree(Live, parent, children, dying)
        /\ softBlockCount = Cardinality(Waiters(asl, KernelSem)) /\ softBlockCount \in Nat
    BY <1>1, Facts
  <1>3. dying = <<current>> /\ current \in Live
    BY <1>1, Deepest
  <1>4. dying' = <<>>
    BY <1>1, <1>2, <1>3 DEF Front
  <1>5. parent' \in Parents /\ children' \in Children
        /\ Tree(Live \ {current}, parent', children', <<>>)
    BY <1>1, <1>2, <1>3, BuryCurrentTree
  <1>6. /\ free' \in Seq(PCB) /\ Live' = Live \ {current}
        /\ processCount' = Cardinality(Live') /\ processCount' \in 0..MAXPROC
    BY <1>1, <1>3, Freed
  <1>7. Partition(free', ready, asl, NULL) /\ processCount' \in Nat
    BY <1>1, <1>2, <1>6, BuryCurrentMove
  <1>8. /\ ready' \in Seq(PCB) /\ current' \in PCB \cup {NULL}
        /\ cpu' \in {"user", "wait", "halt", "panic"}
        /\ cpu' = "user" <=> current' # NULL
        /\ Partition(free', ready', asl, current')
        /\ cpu' # "user" => ready' = <<>> /\ current' = NULL
        /\ cpu' = "halt" => processCount' = 0
        /\ cpu' = "panic" => processCount' > 0 /\ softBlockCount = 0
        /\ cpu' = "wait" => softBlockCount > 0
    <2> DEFINE f == free'
               procs == processCount'
    <2>1. /\ f \in Seq(PCB) /\ procs \in Nat /\ Partition(f, ready, asl, NULL)
          /\ GetNewJob(ready, procs, softBlockCount)
      BY <1>1, <1>6, <1>7
    <2> HIDE DEF f, procs
    <2>2. /\ ready' \in Seq(PCB) /\ current' \in PCB \cup {NULL}
          /\ cpu' \in {"user", "wait", "halt", "panic"}
          /\ cpu' = "user" <=> current' # NULL
          /\ Partition(f, ready', asl, current')
          /\ cpu' # "user" => ready' = <<>> /\ current' = NULL
          /\ cpu' = "halt" => procs = 0
          /\ cpu' = "panic" => procs > 0 /\ softBlockCount = 0
          /\ cpu' = "wait" => softBlockCount > 0
      BY <1>2, <2>1, Dispatched
    <2> QED
      BY <2>2 DEF f, procs
  <1>9. TypeOK'
    <2>1. dying' \in Seq(PCB) /\ asl' = asl /\ value' = value /\ semAdd' = semAdd
          /\ softBlockCount' = softBlockCount
      BY <1>1, <1>4
    <2>2. /\ cpu' \in {"user", "wait", "nuke"} \cup Stopped
          /\ cpu' \in {"user", "nuke"} <=> current' # NULL
      BY <1>8 DEF Stopped
    <2> QED
      BY <1>5, <1>6, <1>8, <2>1, <2>2 DEF IInv, TypeOK, Parents, Children
  <1>10. OnePlace' /\ Counts' /\ SemaphoreCount' /\ NoFault' /\ WaitsWhereItSays'
    BY <1>1, <1>2, <1>6, <1>8 DEF IInv, OnePlace, Counts, SoftBlocked, SemaphoreCount, NoFault,
       WaitsWhereItSays
  <1>11. StopsOnlyWhenStuck'
    <2>1. IsFiniteSet(Live') /\ IsFiniteSet(Waiters(asl, KernelSem))
      BY <1>2, <1>6, NucleusAssumption, FS_Subset, WaitersFinite DEF Sem
    <2>2. /\ Cardinality(Live') = 0 <=> Live' = {}
          /\ Cardinality(Waiters(asl, KernelSem)) = 0 <=> Waiters(asl, KernelSem) = {}
      BY <2>1, FS_EmptySet
    <2>3. cpu' = "panic" =>
            PCB \ Range(free') = Waiters(asl, UserSem) \cup Waiters(asl, KernelSem)
      BY <1>2, <1>6, <1>8, AllWaiting
    <2>4. Live' = PCB \ Range(free')
      BY DEF Live
    <2>5. cpu' = "halt" => Live' = {}
      BY <1>6, <1>8, <2>2
    <2>6. cpu' = "panic" => Live' # {} /\ Live' = Waiters(asl, UserSem)
      BY <1>2, <1>6, <1>8, <2>2, <2>3, <2>4
    <2>7. cpu' = "wait" => ready' = <<>> /\ Waiters(asl, KernelSem) # {}
      BY <1>2, <1>8, <2>2
    <2> QED
      BY <1>1, <2>5, <2>6, <2>7 DEF StopsOnlyWhenStuck, SoftBlocked
  <1>12. DyingStack' /\ ProcessTree'
    <2>1. Stack(Live', parent', <<>>)
      <3>1. Range(<<>>) = {} /\ IsInjective(<<>>) /\ 2..Len(<<>>) = {}
        BY EmptyQueue
      <3> QED
        BY <3>1 DEF Stack
    <2> QED
      BY <1>4, <1>5, <1>6, <1>8, <2>1 DEF DyingStack, ProcessTree
  <1> QED
    BY <1>9, <1>10, <1>11, <1>12 DEF IInv
--------------------------------------------------------------------------
(* main leaves every block but the first on the free list.                 *)
LEMMA InitKeeps == Init => IInv
  <1> SUFFICES ASSUME Init PROVE IInv
    OBVIOUS
  <1>1. MAXPROC \in Nat /\ IsFiniteSet(PCB) /\ MAXPROC # 0
    BY NucleusAssumption, FS_CardinalityType, FS_EmptySet DEF MAXPROC
  <1>2. PICK procTable \in Bijection(1..MAXPROC, PCB) :
          /\ free = Tail(procTable) /\ current = Head(procTable) /\ ready = <<>>
          /\ asl = [s \in Sem |-> <<>>] /\ parent = [p \in PCB |-> NULL]
          /\ children = [p \in PCB |-> <<>>] /\ semAdd = [p \in PCB |-> NULL]
          /\ value \in [Sem -> 0..MaxInit] /\ \A s \in KernelSem : value[s] = 0
          /\ processCount = 1 /\ softBlockCount = 0 /\ dying = <<>> /\ cpu = "user"
    BY DEF Init
  <1>3. /\ procTable \in [1..MAXPROC -> PCB] /\ \A x \in PCB : \E i \in 1..MAXPROC : procTable[i] = x
        /\ \A i, j \in 1..MAXPROC : procTable[i] = procTable[j] => i = j
    BY DEF Bijection, Injection, Surjection, IsInjective
  <1>4. procTable \in Seq(PCB) /\ Len(procTable) = MAXPROC /\ procTable # <<>>
    BY <1>1, <1>3
  <1>5. IsInjective(procTable) /\ Range(procTable) = PCB
    BY <1>3 DEF IsInjective, Range
  <1>6. /\ free \in Seq(PCB) /\ IsInjective(free) /\ Range(free) = PCB \ {current}
        /\ current \in PCB
    BY <1>2, <1>4, <1>5, TailMembers, MemberType
  <1>7. /\ \A s \in Sem : asl[s] = <<>> /\ Range(asl[s]) = {} /\ IsInjective(asl[s])
        /\ Range(ready) = {} /\ IsInjective(ready)
        /\ \A x \in PCB : Range(children[x]) = {} /\ IsInjective(children[x])
        /\ Range(dying) = {} /\ IsInjective(dying)
    BY <1>2, EmptyQueue
  <1>8. Live = {current} /\ Waiters(asl, KernelSem) = {}
    BY <1>6, <1>7 DEF Live, Waiters, Sem
  <1>9. Cardinality(Live) = 1 /\ Cardinality(Waiters(asl, KernelSem)) = 0
    <2>1. Cardinality({current}) = 1
      BY FS_Singleton
    <2> QED
      BY <1>8, <2>1, FS_EmptySet
  <1>10. TypeOK
    <2>1. value \in [Sem -> Int]
      BY <1>2 DEF NucleusAssumption
    <2>2. processCount \in 0..MAXPROC /\ softBlockCount \in Int
      BY <1>1, <1>2
    <2>3. ready \in Seq(PCB) /\ dying \in Seq(PCB) /\ asl \in [Sem -> Seq(PCB)]
          /\ children \in [PCB -> Seq(PCB)]
      BY <1>2
    <2>4. parent \in [PCB -> PCB \cup {NULL}] /\ semAdd \in [PCB -> Sem \cup {NULL}]
      BY <1>2
    <2>5. current # NULL
      BY <1>6, NucleusAssumption
    <2> QED
      BY <1>2, <1>6, <2>1, <2>2, <2>3, <2>4, <2>5 DEF TypeOK
  <1>11. OnePlace
    BY <1>6, <1>7 DEF OnePlace, Partition
  <1>12. Counts
    BY <1>2, <1>9 DEF Counts, SoftBlocked
  <1>13. SemaphoreCount
    <2>1. \A s \in Sem : Len(asl[s]) = 0 /\ asl[s] = <<>>
      BY <1>7
    <2>2. UserSem \subseteq Sem /\ DevSem \subseteq Sem /\ Clock \in Sem /\ Clock \in KernelSem
      BY DEF Sem, KernelSem
    <2>3. \A s \in UserSem : value[s] \in 0..MaxInit
      BY <1>2, <2>2
    <2>4. \A s \in UserSem : ~(value[s] < 0)
      BY <2>3, NucleusAssumption
    <2>5. value[Clock] = 0
      BY <1>2, <2>2
    <2> QED
      BY <2>1, <2>2, <2>4, <2>5 DEF SemaphoreCount
  <1>14. NoFault /\ StopsOnlyWhenStuck /\ WaitsWhereItSays
    BY <1>2, <1>7 DEF NoFault, StopsOnlyWhenStuck, WaitsWhereItSays
  <1>15. 2..Len(dying) = {}
    BY <1>2
  <1>16. ProcessTree
    <2>1. parent[current] = NULL /\ \A p \in PCB : Up(dying, parent, p) = NULL
      BY <1>2, <1>6, <1>15 DEF Up
    <2>2. \A x, y \in PCB : y \in Range(children[x]) <=> parent[y] = x
      BY <1>2, <1>7, NucleusAssumption
    <2>3. \A S \in SUBSET Live : S # {} => \E p \in S : Up(dying, parent, p) \notin S
      BY <1>6, <1>8, <2>1, NucleusAssumption
    <2>4. \A c \in PCB : parent[c] = NULL
      BY <1>2
    <2> QED
      BY <1>7, <1>8, <2>2, <2>3, <2>4 DEF ProcessTree, Tree
  <1>17. DyingStack
    BY <1>2, <1>7, <1>15 DEF DyingStack, Stack
  <1> QED
    BY <1>10, <1>11, <1>12, <1>13, <1>14, <1>16, <1>17 DEF IInv

(* Every step of the nucleus keeps its invariant.                          *)
LEMMA NextKeeps == IInv /\ [Next]_vars => IInv'
  <1> SUFFICES ASSUME IInv, [Next]_vars PROVE IInv'
    OBVIOUS
  <1>1. CASE UNCHANGED vars
    BY <1>1 DEF vars, queues, tree, IInv, TypeOK, OnePlace, Counts, SemaphoreCount, NoFault,
       StopsOnlyWhenStuck, ProcessTree, DyingStack, WaitsWhereItSays, Live, SoftBlocked
  <1>2. CASE CreateProcess
    BY <1>2, CreateProcessKeeps
  <1>3. CASE TerminateProcess
    BY <1>3, TerminateProcessKeeps
  <1>4. CASE NukeChild
    BY <1>4, NukeChildKeeps
  <1>5. CASE NukeProgeny
    BY <1>5, NukeProgenyKeeps
  <1>6. CASE NukeCurrent
    BY <1>6, NukeCurrentKeeps
  <1>7. CASE \E s \in UserSem : Verhogen(s)
    BY <1>7, VerhogenKeeps
  <1>8. CASE \E s \in UserSem : Passeren(s)
    BY <1>8, PasserenKeeps
  <1>9. CASE WaitForClock
    BY <1>9, WaitForClockKeeps
  <1>10. CASE \E d \in DevSem : WaitForIO(d)
    BY <1>10, WaitForIOKeeps
  <1>11. CASE Tick
    BY <1>11, TickKeeps
  <1>12. CASE QuantumEnd
    BY <1>12, QuantumEndKeeps
  <1>13. CASE \E d \in DevSem : DeviceInterrupt(d)
    BY <1>13, DeviceInterruptKeeps
  <1>14. CASE Rest
    BY <1>1, <1>14 DEF Rest
  <1> QED
    BY <1>1, <1>2, <1>3, <1>4, <1>5, <1>6, <1>7, <1>8, <1>9, <1>10, <1>11, <1>12,
       <1>13, <1>14 DEF Next

(* IInv holds of the nucleus for every number of process blocks and        *)
(* semaphores.                                                             *)
THEOREM Invariance == Spec => []IInv
  BY InitKeeps, NextKeeps, PTL DEF Spec

(* The variables keep their types and the counters their bounds.           *)
THEOREM TypeCorrect == Spec => []TypeOK
  <1>1. IInv => TypeOK
    BY DEF IInv
  <1> QED
    BY <1>1, Invariance, PTL

(* No process block is ever lost or in two places: for all the handlers    *)
(* that move one, whatever they did before.                                *)
THEOREM NoBlockLost == Spec => []OnePlace
  <1>1. IInv => OnePlace
    BY DEF IInv
  <1> QED
    BY <1>1, Invariance, PTL

(* processCount and softBlockCount, by which getNewJob decides, are the    *)
(* numbers of live and of soft-blocked processes.                          *)
THEOREM CountsAgree == Spec => []Counts
  <1>1. IInv => Counts
    BY DEF IInv
  <1> QED
    BY <1>1, Invariance, PTL

(* A semaphore below zero counts its waiters.                              *)
THEOREM SemaphoresCount == Spec => []SemaphoreCount
  <1>1. IInv => SemaphoreCount
    BY DEF IInv
  <1> QED
    BY <1>1, Invariance, PTL

(* VERHOGEN always finds the waiter that it dereferences without a check,  *)
(* and getNewJob never falls through.                                      *)
THEOREM NeverFaults == Spec => []NoFault
  <1>1. IInv => NoFault
    BY DEF IInv
  <1> QED
    BY <1>1, Invariance, PTL

(* HALT, PANIC and WAIT come only when nothing can run any more, when the  *)
(* processes wait for one another, and when an interrupt will wake one.    *)
THEOREM StopsRightly == Spec => []StopsOnlyWhenStuck
  <1>1. IInv => StopsOnlyWhenStuck
    BY DEF IInv
  <1> QED
    BY <1>1, Invariance, PTL

(* The live processes form one tree, in the middle of a death as well.     *)
THEOREM OneTree == Spec => []ProcessTree
  <1>1. IInv => ProcessTree
    BY DEF IInv
  <1> QED
    BY <1>1, Invariance, PTL
--------------------------------------------------------------------------
(* What the invariant says of sem.                                         *)
LEMMA SemFacts ==
  ASSUME sem \in UserSem, IInv, cpu # "tangled"
  PROVE  /\ sem \in Sem /\ sem \in UserSem /\ sem \notin KernelSem
         /\ value[sem] \in Int /\ asl[sem] \in Seq(PCB) /\ value \in [Sem -> Int]
         /\ asl \in Queues
         /\ Len(asl[sem]) = IF value[sem] < 0 THEN -value[sem] ELSE 0
         /\ value[sem] >= 0 <=> asl[sem] = <<>>
  <1>1. sem \in Sem /\ sem \in UserSem /\ sem \notin KernelSem
    BY NucleusAssumption DEF Sem, KernelSem
  <1>2. value \in [Sem -> Int] /\ asl \in Queues
    BY Facts
  <1>3. value[sem] \in Int /\ asl[sem] \in Seq(PCB)
    BY <1>1, <1>2 DEF Queues
  <1>4. Len(asl[sem]) = IF value[sem] < 0 THEN -value[sem] ELSE 0
    BY <1>1 DEF IInv, SemaphoreCount
  <1>5. asl[sem] = <<>> <=> Len(asl[sem]) = 0
    BY <1>3
  <1> QED
    BY <1>1, <1>2, <1>3, <1>4, <1>5

(* A step that leaves the integer and the queue of sem alone.              *)
LEMMA Untouched ==
  ASSUME value'[sem] = value[sem], asl'[sem] = asl[sem]
  PROVE  UNCHANGED Abstract!semaphore
  BY DEF Abstract!semaphore

(* SYSCALL 3.                                                              *)
LEMMA VerhogenImplements ==
  ASSUME sem \in UserSem, IInv, NEW s \in UserSem, Verhogen(s)
  PROVE  Abstract!Next \/ UNCHANGED Abstract!semaphore
  <1>1. /\ sem \in Sem /\ value[sem] \in Int /\ asl[sem] \in Seq(PCB)
        /\ value \in [Sem -> Int] /\ asl \in Queues
        /\ value[sem] >= 0 <=> asl[sem] = <<>>
    BY SemFacts DEF Verhogen
  <1>2. /\ value' = [value EXCEPT ![s] = @ + 1]
        /\ IF value[s] + 1 <= 0 /\ asl[s] # <<>>
             THEN asl' = [asl EXCEPT ![s] = Tail(@)] ELSE asl' = asl
    BY DEF Verhogen, Wake, queues
  <1>3. CASE s # sem
    BY <1>1, <1>2, <1>3, Untouched DEF Queues
  <1>4. CASE s = sem
    <2>1. value'[sem] = value[sem] + 1
      BY <1>1, <1>2, <1>4
    <2>2. CASE value[sem] + 1 <= 0
      <3>1. asl[sem] # <<>> /\ asl'[sem] = Tail(asl[sem])
        BY <1>1, <1>2, <1>4, <2>2 DEF Queues
      <3> QED
        BY <1>1, <2>1, <2>2, <3>1 DEF Abstract!Next, Abstract!V
    <2>3. CASE ~(value[sem] + 1 <= 0)
      <3>1. asl[sem] = <<>> /\ asl'[sem] = asl[sem] /\ value[sem] >= 0
        BY <1>1, <1>2, <1>4, <2>3
      <3> QED
        BY <1>1, <2>1, <3>1 DEF Abstract!Next, Abstract!V
    <2> QED
      BY <2>2, <2>3
  <1> QED
    BY <1>3, <1>4

(* SYSCALL 4.                                                              *)
LEMMA PasserenImplements ==
  ASSUME sem \in UserSem, IInv, NEW s \in UserSem, Passeren(s)
  PROVE  Abstract!Next \/ UNCHANGED Abstract!semaphore
  <1>1. /\ sem \in Sem /\ value[sem] \in Int /\ asl[sem] \in Seq(PCB)
        /\ value \in [Sem -> Int] /\ asl \in Queues
        /\ value[sem] >= 0 <=> asl[sem] = <<>>
    BY SemFacts DEF Passeren
  <1>2. /\ free \in Seq(PCB) /\ ready \in Seq(PCB) /\ current \in PCB
        /\ Partition(free, ready, asl, current)
    BY Facts DEF Passeren
  <1>3. /\ value' = [value EXCEPT ![s] = @ - 1]
        /\ IF value[s] - 1 < 0
             THEN asl' = [asl EXCEPT ![s] = Append(@, current)] ELSE asl' = asl
    <2>1. Cardinality(Active) < MAXPROC
      BY <1>1, <1>2, DescriptorLeft DEF Active
    <2> QED
      BY <2>1 DEF Passeren, BlockCurrent, InsertBlocked
  <1>4. CASE s # sem
    BY <1>1, <1>3, <1>4, Untouched DEF Queues
  <1>5. CASE s = sem
    <2>1. value'[sem] = value[sem] - 1
      BY <1>1, <1>3, <1>5
    <2>2. CASE value[sem] - 1 < 0
      <3>1. asl'[sem] = Append(asl[sem], current)
        BY <1>1, <1>3, <1>5, <2>2 DEF Queues
      <3>2. current \notin Range(asl[sem])
        BY <1>1, <1>2 DEF Partition
      <3>3. Abstract!P(current)
        BY <1>1, <2>1, <2>2, <3>1, <3>2 DEF Abstract!P, Abstract!Range, Range
      <3> QED
        BY <1>2, <3>3 DEF Abstract!Next
    <2>3. CASE ~(value[sem] - 1 < 0)
      <3>1. asl'[sem] = asl[sem]
        BY <1>3, <1>5, <2>3
      <3>2. Abstract!P(current)
        BY <1>1, <2>1, <2>3, <3>1 DEF Abstract!P
      <3> QED
        BY <1>2, <3>2 DEF Abstract!Next
    <2> QED
      BY <2>2, <2>3
  <1> QED
    BY <1>4, <1>5

(* The death of a descendant.  One that p_semAdd places on sem without     *)
(* being there still increments the integer: a permit more, or a debt less *)
(* that leaves no permit.                                                  *)
LEMMA NukeProgenyImplements ==
  ASSUME sem \in UserSem, IInv, NukeProgeny
  PROVE  Abstract!Next \/ UNCHANGED Abstract!semaphore
  <1> DEFINE p == Last(dying)
             s == semAdd[p]
  <1>1. /\ sem \in Sem /\ value[sem] \in Int /\ asl[sem] \in Seq(PCB)
        /\ value \in [Sem -> Int] /\ asl \in Queues /\ sem \notin KernelSem
        /\ value[sem] >= 0 <=> asl[sem] = <<>>
    BY SemFacts DEF NukeProgeny
  <1>2. (LeaveReadyQueue(p) \/ LeaveSemaphore(p)) /\ p \in PCB
    BY Deepest DEF NukeProgeny, Live
  <1> HIDE DEF p, s
  <1>3. CASE LeaveReadyQueue(p)
    BY <1>3, Untouched DEF LeaveReadyQueue
  <1>4. CASE LeaveSemaphore(p)
    <2>1. /\ asl' = [asl EXCEPT ![s] = RemoveFirst(@, p)]
          /\ IF s \in KernelSem THEN value' = value ELSE value' = [value EXCEPT ![s] = @ + 1]
      BY <1>4 DEF LeaveSemaphore, s
    <2>2. CASE s # sem
      BY <1>1, <2>1, <2>2, Untouched DEF Queues
    <2>3. CASE s = sem
      <3>1. asl'[sem] = RemoveFirst(asl[sem], p) /\ value'[sem] = value[sem] + 1
        BY <1>1, <2>1, <2>3 DEF Queues
      <3>2. CASE p \in Range(asl[sem])
        <4>1. asl[sem] # <<>>
          BY <3>2, EmptyQueue
        <4>2. value[sem] < 0
          BY <1>1, <4>1
        <4>3. Abstract!RemoveFirst(asl[sem], p) = RemoveFirst(asl[sem], p)
          <5> DEFINE k == SelectInSeq(asl[sem], LAMBDA v : v = p)
          <5>1. Abstract!SelectInSeq(asl[sem], LAMBDA v : v = p) = k
            BY DEF Abstract!SelectInSeq, SelectInSeq, Abstract!Min, Min
          <5>2. Abstract!RemoveAt(asl[sem], k) = RemoveAt(asl[sem], k)
            BY DEF Abstract!RemoveAt, RemoveAt
          <5> QED
            BY <5>1, <5>2 DEF Abstract!RemoveFirst, RemoveFirst
        <4>4. Abstract!Leave(p)
          BY <1>1, <3>1, <3>2, <4>2, <4>3 DEF Abstract!Leave, Abstract!Range, Range
        <4> QED
          BY <1>2, <4>4 DEF Abstract!Next
      <3>3. CASE p \notin Range(asl[sem])
        <4>1. asl'[sem] = asl[sem]
          BY <1>1, <3>1, <3>3, RemoveMembers
        <4>2. CASE value[sem] >= 0
          BY <1>1, <3>1, <4>1, <4>2 DEF Abstract!Next, Abstract!V
        <4>3. CASE ~(value[sem] >= 0)
          BY <1>1, <3>1, <4>1, <4>3 DEF Abstract!semaphore
        <4> QED
          BY <4>2, <4>3
      <3> QED
        BY <3>2, <3>3
    <2> QED
      BY <2>2, <2>3
  <1> QED
    BY <1>2, <1>3, <1>4

(* SYSCALLs 7 and 8, the tick and the device interrupt concern the         *)
(* semaphores of semaphoreArray.                                           *)
LEMMA KernelUntouched ==
  ASSUME sem \in UserSem, IInv,
         \/ WaitForClock \/ \E d \in DevSem : WaitForIO(d)
         \/ Tick \/ \E d \in DevSem : DeviceInterrupt(d)
  PROVE  UNCHANGED Abstract!semaphore
  <1>1. sem \in Sem /\ sem \notin KernelSem /\ value \in [Sem -> Int] /\ asl \in Queues
    BY SemFacts DEF WaitForClock, WaitForIO, Tick, DeviceInterrupt
  <1>2. \E d \in KernelSem : /\ \E v : value' = [value EXCEPT ![d] = v]
                             /\ \E q : asl' = asl \/ asl' = [asl EXCEPT ![d] = q]
    <2>1. CASE WaitForClock
      BY <2>1 DEF WaitForClock, BlockCurrent, InsertBlocked, KernelSem
    <2>2. CASE \E d \in DevSem : WaitForIO(d)
      BY <2>2 DEF WaitForIO, BlockCurrent, InsertBlocked, KernelSem
    <2>3. CASE Tick
      BY <2>3 DEF Tick, KernelSem
    <2>4. CASE \E d \in DevSem : DeviceInterrupt(d)
      BY <2>4 DEF DeviceInterrupt, Wake, KernelSem
    <2> QED
      BY <2>1, <2>2, <2>3, <2>4
  <1>3. value'[sem] = value[sem] /\ asl'[sem] = asl[sem]
    BY <1>1, <1>2 DEF Queues
  <1> QED
    BY <1>3, Untouched

(* Every step of the nucleus is one of sem or a stutter.                   *)
LEMMA NextImplements ==
  ASSUME sem \in UserSem, IInv, [Next]_vars
  PROVE  [Abstract!Next]_Abstract!semaphore
  <1>1. CASE asl' = asl /\ value' = value
    BY <1>1, Untouched
  <1>2. CASE \E s \in UserSem : Verhogen(s)
    BY <1>2, VerhogenImplements
  <1>3. CASE \E s \in UserSem : Passeren(s)
    BY <1>3, PasserenImplements
  <1>4. CASE NukeProgeny
    BY <1>4, NukeProgenyImplements
  <1>5. CASE \/ WaitForClock \/ \E d \in DevSem : WaitForIO(d)
             \/ Tick \/ \E d \in DevSem : DeviceInterrupt(d)
    BY <1>5, KernelUntouched
  <1>6. CASE UNCHANGED vars \/ Rest
    BY <1>1, <1>6 DEF vars, queues, Rest
  <1>7. CASE CreateProcess \/ TerminateProcess \/ NukeChild \/ NukeCurrent \/ QuantumEnd
    BY <1>1, <1>7 DEF CreateProcess, TerminateProcess, NukeChild, NukeCurrent, QuantumEnd,
       vars, queues
  <1> QED
    BY <1>2, <1>3, <1>4, <1>5, <1>6, <1>7 DEF Next

(* The nucleus implements the abstract semaphore: a P passes only with a   *)
(* permit, a V serves the oldest waiter, a killed waiter takes no permit.  *)
THEOREM SemaphoreImplemented ==
  ASSUME sem \in UserSem
  PROVE  Spec => ImplementsSemaphore
  <1>1. Init => Abstract!Init
    <2> SUFFICES ASSUME Init PROVE Abstract!Init
      OBVIOUS
    <2>1. sem \in Sem /\ asl = [s \in Sem |-> <<>>] /\ value \in [Sem -> 0..MaxInit]
      BY DEF Init, Sem
    <2>2. asl[sem] = <<>> /\ value[sem] \in Nat
      BY <2>1, NucleusAssumption
    <2> QED
      BY <2>2 DEF Abstract!Init
  <1>2. IInv /\ [Next]_vars => [Abstract!Next]_Abstract!semaphore
    BY NextImplements
  <1> QED
    BY <1>1, <1>2, Invariance, PTL DEF Spec, ImplementsSemaphore, Abstract!Spec

--------------------------------------------------------------------------
(* The exception handlers of Traps.tla refine the nucleus, whose theorems  *)
(* then hold of them, and keep a process in user mode away from it.        *)

(* Every step of the handlers is a step of the nucleus or leaves it alone. *)
LEMMA StepIsNucleus == TrapNext => [Next]_vars
<1> SUFFICES ASSUME TrapNext PROVE Next \/ UNCHANGED vars
  OBVIOUS
<1>1. CASE Create
  BY <1>1 DEF Create, Next
<1>2. CASE Terminate
  BY <1>2 DEF Terminate, Next
<1>3. CASE SemaphoreCall
  BY <1>3 DEF SemaphoreCall, Next
<1>4. CASE GetCpuTime
  BY <1>4 DEF GetCpuTime
<1>5. CASE InputOutput
  BY <1>5 DEF InputOutput, Next
<1>6. ASSUME NEW t, Sesv(t) PROVE Next \/ UNCHANGED vars
  BY <1>6 DEF Sesv, Die, Next
<1>7. ASSUME NEW t, PassUpOrDie(t) PROVE Next \/ UNCHANGED vars
  BY <1>7 DEF PassUpOrDie, Die, Next
<1>8. CASE ProgTrpHandler \/ TlbHandler \/ PrivilegedCall \/ UnknownCall
  BY <1>8, <1>7 DEF ProgTrpHandler, TlbHandler, PrivilegedCall, UnknownCall
<1>9. CASE EnterUserMode
  BY <1>9 DEF EnterUserMode
<1>10. CASE Death
  BY <1>10 DEF Death, Next
<1>11. CASE Interrupt
  BY <1>11 DEF Interrupt, Next
<1>12. CASE Rest
  BY <1>12 DEF Rest
<1>. QED
  BY <1>1, <1>2, <1>3, <1>4, <1>5, <1>6, <1>8, <1>9, <1>10, <1>11, <1>12
  DEF TrapNext

(* The handlers implement the nucleus: around its state they add the mode, *)
(* the vectors and a1, and no behaviour.                                   *)
THEOREM TrapsRefineNucleus == TrapSpec => ImplementsNucleus
<1>1. TrapInit => Init
  BY DEF TrapInit
<1>2. [TrapNext]_trapVars => [Next]_vars
  BY StepIsNucleus DEF trapVars
<1>. QED
  BY <1>1, <1>2, PTL DEF TrapSpec, ImplementsNucleus, Spec

(* What is proved of the nucleus holds among its handlers: no block lost,  *)
(* exact counters, semaphores that count, no null process, a stop only     *)
(* when stuck.                                                             *)
THEOREM TrapsKeepInvariant ==
  TrapSpec => [](OnePlace /\ Counts /\ SemaphoreCount /\ NoFault /\ StopsOnlyWhenStuck)
<1>1. TrapSpec => Spec
  BY TrapsRefineNucleus DEF ImplementsNucleus
<1>. QED
  BY <1>1, NoBlockLost, CountsAgree, SemaphoresCount, NeverFaults, StopsRightly, PTL

(* A process in user mode gets nothing from the kernel but its death, and  *)
(* becomes privileged only through a vector.                               *)
THEOREM UserModeHarmless == TrapSpec => UserModeContained
<1>. DEFINE Contained ==
       /\ \/ UNCHANGED vars
          \/ TerminateProcess
          \/ Tick \/ QuantumEnd \/ \E d \in DevSem : DeviceInterrupt(d)
       /\ mode'[current] = "system" => vec[current] # {}
<1>1. ASSUME [TrapNext]_trapVars, cpu = "user", mode[current] = "user"
      PROVE  Contained
  <2>1. "user" # "system" /\ "user" # "nuke" /\ cpu \notin Stopped
    BY <1>1 DEF Stopped
  <2>2. ~Gate
    BY <1>1, <2>1 DEF Gate
  <2>3. CASE UNCHANGED trapVars
    BY <2>3, <1>1, <2>1 DEF trapVars
  <2>4. ASSUME NEW t, PassUpOrDie(t) PROVE Contained
    BY <2>4, <1>1, <2>1 DEF PassUpOrDie, Die
  <2>5. CASE ProgTrpHandler \/ TlbHandler \/ PrivilegedCall \/ UnknownCall
    BY <2>5, <2>4 DEF ProgTrpHandler, TlbHandler, PrivilegedCall, UnknownCall
  <2>6. ~Death
    BY <1>1, <2>1 DEF Death, NukeChild, NukeProgeny, NukeCurrent
  <2>7. CASE Interrupt
    BY <2>7, <1>1, <2>1 DEF Interrupt
  <2>8. ~Rest
    BY <2>1 DEF Rest
  <2>. QED
    BY <1>1, <2>2, <2>3, <2>5, <2>6, <2>7, <2>8
    DEF TrapNext, Create, Terminate, SemaphoreCall, GetCpuTime, InputOutput,
        Sesv, EnterUserMode
<1>2. [TrapNext]_trapVars =>
        [cpu = "user" /\ mode[current] = "user" => Contained]_trapVars
  BY <1>1
<1>. QED
  BY <1>2, PTL DEF TrapSpec, UserModeContained

(* The running process is a block, and not one of the free ones.           *)
LEMMA RunningIsLive ==
  ASSUME IInv, cpu = "user"
  PROVE  current \in PCB /\ current \notin Range(free)
<1>1. cpu # "tangled" /\ cpu \in {"user", "nuke"}
  OBVIOUS
<1>2. current \in PCB
  BY <1>1 DEF IInv, TypeOK
<1>3. current \notin Range(free)
  BY <1>1 DEF IInv, OnePlace, Partition
<1>. QED
  BY <1>2, <1>3

(* Most steps leave the free list alone.                                   *)
LEMMA FreeListKept ==
  ASSUME SemaphoreCall \/ InputOutput \/ Interrupt
  PROVE  free' = free
<1>1. ASSUME NEW s, Verhogen(s) \/ Passeren(s) PROVE free' = free
  BY <1>1 DEF Verhogen, Passeren, queues
<1>2. ASSUME NEW d, WaitForIO(d) \/ DeviceInterrupt(d) PROVE free' = free
  BY <1>2 DEF WaitForIO, DeviceInterrupt
<1>3. CASE WaitForClock \/ Tick \/ QuantumEnd
  BY <1>3 DEF WaitForClock, Tick, QuantumEnd
<1>. QED
  BY <1>1, <1>2, <1>3 DEF SemaphoreCall, InputOutput, Interrupt

LEMMA DieKeeps ==
  ASSUME TrapTypeOK, Die
  PROVE  TrapTypeOK'
  BY DEF Die, TerminateProcess, queues, TrapTypeOK

LEMMA PassUpKeeps ==
  ASSUME IInv, TrapTypeOK, NEW t, PassUpOrDie(t)
  PROVE  TrapTypeOK'
<1>1. CASE Die
  BY <1>1, DieKeeps
<1>2. CASE /\ \E m \in Mode : mode' = [mode EXCEPT ![current] = m]
           /\ LeaveA1("own") /\ UNCHANGED <<vars, vec>>
  BY <1>2 DEF TrapTypeOK, LeaveA1, vars, queues
<1>. QED
  BY <1>1, <1>2 DEF PassUpOrDie

LEMMA SesvKeeps ==
  ASSUME IInv, TrapTypeOK, NEW t \in Trap \cup {3}, Sesv(t)
  PROVE  TrapTypeOK'
<1>1. CASE Die
  BY <1>1, DieKeeps
<1>2. CASE /\ Unset(t) # {}
           /\ vec' = [vec EXCEPT ![current] = @ \cup {Min(Unset(t))}]
           /\ LeaveA1("call")
           /\ UNCHANGED <<vars, mode>>
  <2>1. current \in PCB /\ current \notin Range(free)
    BY RunningIsLive DEF Sesv, Gate
  <2>2. Min(Unset(t)) \in Trap
    <3>1. Unset(t) \in SUBSET {0, 1, 2}
      BY DEF Unset, Trap, TLBTRAP, PROGTRAP, SYSTRAP
    <3>2. \E x \in Unset(t) : \A y \in Unset(t) : x <= y
      <4>1. CASE 0 \in Unset(t)
        BY <3>1, <4>1
      <4>2. CASE 0 \notin Unset(t) /\ 1 \in Unset(t)
        BY <3>1, <4>2
      <4>3. CASE Unset(t) = {2}
        BY <4>3
      <4>. QED
        BY <1>2, <3>1, <4>1, <4>2, <4>3
    <3>3. Min(Unset(t)) \in Unset(t)
      BY <3>2 DEF Min
    <3>. QED
      BY <3>3 DEF Unset
  <2>3. free' = free /\ mode' = mode
    BY <1>2 DEF vars, queues
  <2>4. vec' \in [PCB -> SUBSET Trap]
    BY <1>2, <2>1, <2>2 DEF TrapTypeOK
  <2>5. \A p \in Range(free') : vec'[p] = {}
    <3>1. \A p \in Range(free) : p \in PCB
      BY MemberType DEF IInv, TypeOK
    <3>. QED
      BY <1>2, <2>1, <2>3, <3>1 DEF TrapTypeOK
  <2>6. a1' \in [PCB -> {"own", "call", "result"}]
    BY <1>2 DEF TrapTypeOK, LeaveA1
  <2>. QED
    BY <2>3, <2>4, <2>5, <2>6 DEF TrapTypeOK
<1>. QED
  BY <1>1, <1>2 DEF Sesv

(* allocPcb clears the vectors of the block it takes.                      *)
LEMMA CreateKeeps ==
  ASSUME IInv, TrapTypeOK, Create
  PROVE  TrapTypeOK'
<1>1. \/ free = <<>> /\ LeaveA1("call")
      \/ a1' = [a1 EXCEPT ![current] = "call", ![Head(free)] = "own"]
  BY DEF Create
<1>2. a1' \in [PCB -> {"own", "call", "result"}]
  BY <1>1 DEF TrapTypeOK, LeaveA1
<1>3. CASE free = <<>>
  <2>1. UNCHANGED <<free, mode, vec>>
    BY <1>3 DEF Create, CreateProcess, vars, queues
  <2>. QED
    BY <1>2, <2>1 DEF TrapTypeOK
<1>4. CASE free # <<>>
  <2>. DEFINE h == Head(free)
  <2>1. free \in Seq(PCB) /\ h \in PCB
    BY <1>4 DEF IInv, TypeOK
  <2>2. /\ free' = Tail(free) /\ vec' = [vec EXCEPT ![h] = {}]
        /\ \E m \in Mode : mode' = [mode EXCEPT ![h] = m]
    BY <1>4 DEF Create, CreateProcess, Washed
  <2>. HIDE DEF h
  <2>3. Range(Tail(free)) \subseteq Range(free)
    BY <1>4, <2>1, TailMembers
  <2>4. \A p \in Range(free) : p \in PCB
    BY <2>1, MemberType
  <2>. QED
    BY <1>2, <2>1, <2>2, <2>3, <2>4 DEF TrapTypeOK
<1>. QED
  BY <1>3, <1>4

(* So does freePcb.                                                        *)
LEMMA DeathKeeps ==
  ASSUME IInv, TrapTypeOK, Death
  PROVE  TrapTypeOK'
<1>1. UNCHANGED <<mode, a1>> /\ cpu = "nuke"
  BY DEF Death, NukeChild, NukeProgeny, NukeCurrent
<1>2. CASE NukeChild /\ UNCHANGED vec
  BY <1>1, <1>2 DEF NukeChild, queues, TrapTypeOK
<1>3. CASE (NukeProgeny \/ NukeCurrent) /\ vec' = Washed(vec, Last(dying))
  <2>. DEFINE d == Last(dying)
  <2>1. dying \in Seq(PCB) /\ dying # <<>>
    BY <1>1 DEF IInv, TypeOK, DyingStack
  <2>2. d \in PCB
    BY <2>1, MemberType
  <2>3. free' = Append(free, d)
    BY <1>3 DEF NukeProgeny, NukeCurrent, Bury
  <2>4. vec' = [vec EXCEPT ![d] = {}]
    BY <1>3 DEF Washed
  <2>. HIDE DEF d
  <2>5. free \in Seq(PCB)
    BY DEF IInv, TypeOK
  <2>6. Range(free') = Range(free) \cup {d}
    BY <2>2, <2>3, <2>5, AppendMembers
  <2>7. \A p \in Range(free) : p \in PCB
    BY <2>5, MemberType
  <2>. QED
    BY <1>1, <2>2, <2>4, <2>6, <2>7 DEF TrapTypeOK
<1>. QED
  BY <1>2, <1>3 DEF Death

(* The variables of the handlers keep their types, and no free block has   *)
(* vectors: whoever allocPcb gives it to starts without handlers, after    *)
(* every SYSCALL 5 and every death.                                        *)
THEOREM FreeBlocksAreWashed == TrapSpec => []TrapTypeOK
<1>1. TrapInit => TrapTypeOK
  <2>. SUFFICES ASSUME TrapInit PROVE TrapTypeOK
    OBVIOUS
  <2>1. \A p \in Range(free) : p \in PCB
    BY InitKeeps, MemberType DEF TrapInit, IInv, TypeOK
  <2>. QED
    BY <2>1 DEF TrapInit, TrapTypeOK, Mode
<1>2. IInv /\ TrapTypeOK /\ [TrapNext]_trapVars => TrapTypeOK'
  <2>. SUFFICES ASSUME IInv, TrapTypeOK, [TrapNext]_trapVars PROVE TrapTypeOK'
    OBVIOUS
  <2>1. ASSUME free' = free, UNCHANGED <<mode, vec>>, a1' \in [PCB -> {"own", "call", "result"}]
        PROVE  TrapTypeOK'
    BY <2>1 DEF TrapTypeOK
  <2>2. ASSUME NEW what \in {"own", "call", "result"}, LeaveA1(what)
        PROVE  a1' \in [PCB -> {"own", "call", "result"}]
    BY <2>2 DEF TrapTypeOK, LeaveA1
  <2>3. CASE Create
    BY <2>3, CreateKeeps
  <2>4. CASE Terminate
    BY <2>1, <2>2, <2>4 DEF Terminate, TerminateProcess, queues
  <2>5. CASE SemaphoreCall
    BY <2>1, <2>2, <2>5, FreeListKept DEF SemaphoreCall
  <2>6. CASE GetCpuTime
    BY <2>1, <2>2, <2>6 DEF GetCpuTime, vars, queues
  <2>7. CASE InputOutput
    BY <2>1, <2>2, <2>7, FreeListKept DEF InputOutput
  <2>8. ASSUME NEW t \in Trap \cup {3}, Sesv(t) PROVE TrapTypeOK'
    BY <2>8, SesvKeeps
  <2>9. CASE ProgTrpHandler \/ TlbHandler \/ PrivilegedCall \/ UnknownCall
    BY <2>9, PassUpKeeps DEF ProgTrpHandler, TlbHandler, PrivilegedCall, UnknownCall
  <2>10. CASE EnterUserMode
    BY <2>10 DEF EnterUserMode, vars, queues, TrapTypeOK, Mode
  <2>11. CASE Death
    BY <2>11, DeathKeeps
  <2>12. CASE Interrupt
    <3>1. UNCHANGED <<mode, vec>>
      BY <2>12 DEF Interrupt
    <3>2. a1' \in [PCB -> {"own", "call", "result"}]
      BY <2>12 DEF Interrupt, Deliver, TrapTypeOK
    <3>. QED
      BY <2>1, <2>12, <3>1, <3>2, FreeListKept
  <2>13. CASE UNCHANGED trapVars \/ (Rest /\ UNCHANGED <<mode, vec, a1>>)
    BY <2>13 DEF trapVars, Rest, vars, queues, TrapTypeOK
  <2>. QED
    BY <2>3, <2>4, <2>5, <2>6, <2>7, <2>8, <2>9, <2>10, <2>11, <2>12, <2>13 DEF TrapNext
<1>3. TrapSpec => []IInv
  BY TrapsRefineNucleus, Invariance DEF ImplementsNucleus
<1>. QED
  BY <1>1, <1>2, <1>3, PTL DEF TrapSpec
==========================================================================
