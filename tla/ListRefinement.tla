-------------------------- MODULE ListRefinement -------------------------
(***************************************************************************)
(* The linked structures do what their abstract specifications promise,    *)
(* for any number of blocks, descriptors and nodes.  ListProofs.tla has    *)
(* the sequences that the links spell and what each call makes of them.    *)
(* Here it is shown that these are the sequences of the refinement         *)
(* mappings, before and after each call.                                   *)
(***************************************************************************)
EXTENDS MCLists, ListProofs

(* What the loop of outProcQ passes is what the links spell.               *)
FifoAgrees ==
  \A c : QueueLists(p_next, p_prev, tp, c) => \A q \in Queue : Queues!Contents(q) = c[q]

LEMMA FifoSpelled == FifoAgrees
  BY QueueContents DEF FifoAgrees

(* A call that makes b of queue q, to the mapping.                         *)
LEMMA FifoBecomes ==
  ASSUME NEW c, QueueLists(p_next, p_prev, tp, c), NEW q \in Queue, NEW b,
         QueueBecomes(c, q, b)
  PROVE  fifo' = [fifo EXCEPT ![q] = b]
  <1> DEFINE d == [s \in Queue |-> IF s = q THEN b ELSE c[s]]
  <1>1. QueueLists(p_next', p_prev', tp', d)
    BY DEF QueueBecomes
  <1>2. FifoAgrees'
    BY FifoSpelled, PTL
  <1> HIDE DEF d
  <1>3. \A s \in Queue : Queues!Contents(s)' = d[s]
    BY <1>1, <1>2 DEF FifoAgrees
  <1>4. \A s \in Queue : Queues!Contents(s) = c[s]
    BY FifoSpelled DEF FifoAgrees
  <1> QED
    BY <1>3, <1>4 DEF fifo, d

(* What the sequences of the queues are in the mapping.                    *)
LEMMA FifoFacts ==
  ASSUME NEW c, QueueLists(p_next, p_prev, tp, c), NEW q \in Queue
  PROVE  /\ fifo[q] = c[q] /\ c[q] \in Seq(Blocks) /\ IsInjective(c[q])
         /\ Fifo!Range(fifo[q]) = Range(c[q])
  <1>1. fifo[q] = c[q]
    BY FifoSpelled DEF FifoAgrees, fifo
  <1>2. Ring(Blocks, p_next, p_prev, c[q])
    BY QueueFacts
  <1> QED
    BY <1>1, <1>2 DEF Ring, Twined, Fifo!Range, Range

(* The removal of the k-th block, to the mapping.                          *)
LEMMA FifoLeft ==
  ASSUME NEW c, QueueLists(p_next, p_prev, tp, c), NEW q \in Queue, NEW k \in 1..Len(c[q]),
         NEW p, QueueLeft(c, q, k, p)
  PROVE  /\ fifo' = [fifo EXCEPT ![q] = RemoveAt(fifo[q], k)] /\ p \in Range(c[q])
         /\ RemoveAt(fifo[q], k) = Fifo!RemoveFirst(fifo[q], p)
  <1>1. fifo[q] = c[q] /\ c[q] \in Seq(Blocks) /\ IsInjective(c[q])
    BY FifoFacts
  <1>2. p = c[q][k] /\ QueueBecomes(c, q, RemoveAt(c[q], k))
    BY DEF QueueLeft
  <1>3. fifo' = [fifo EXCEPT ![q] = RemoveAt(c[q], k)]
    BY <1>2, FifoBecomes
  <1>4. RemoveFirst(c[q], p) = RemoveAt(c[q], k)
    BY <1>1, <1>2, RemoveFirstAt
  <1>5. Fifo!RemoveFirst(c[q], p) = RemoveFirst(c[q], p)
    BY DEF Fifo!RemoveFirst, Fifo!RemoveAt, Fifo!SelectInSeq, Fifo!Min,
           RemoveFirst, RemoveAt, SelectInSeq, Min
  <1>6. p \in Range(c[q])
    BY <1>1, <1>2, MemberType
  <1> QED
    BY <1>1, <1>3, <1>4, <1>5, <1>6

(* removeProcQ, and allocPcb on the free list.                             *)
LEMMA FifoDequeues ==
  ASSUME NEW c, QueueLists(p_next, p_prev, tp, c), NEW q \in Queue,
         \/ c[q] = <<>> /\ q_ret' = Nil /\ UNCHANGED <<p_next, p_prev, tp>>
         \/ c[q] # <<>> /\ QueueLeft(c, q, 1, q_ret')
  PROVE  Fifo!Dequeue(q)
  <1>1. fifo[q] = c[q] /\ c[q] \in Seq(Blocks) /\ IsInjective(c[q])
    BY FifoFacts
  <1>2. CASE c[q] = <<>>
    <2>1. q_ret' = Nil /\ UNCHANGED <<p_next, p_prev, tp>>
      BY <1>2
    <2>2. fifo' = fifo
      BY <2>1 DEF fifo, Queues!Contents, Queues!Walk
    <2> QED
      BY <1>1, <1>2, <2>1, <2>2 DEF Fifo!Dequeue
  <1>3. CASE c[q] # <<>>
    <2>1. QueueLeft(c, q, 1, q_ret')
      BY <1>3
    <2>2. RemoveAt(c[q], 1) = Tail(c[q]) /\ Head(c[q]) = c[q][1] /\ 1 \in 1..Len(c[q])
      BY <1>1, <1>3, HeadRemoved
    <2>3. q_ret' = Head(c[q])
      BY <2>1, <2>2 DEF QueueLeft
    <2>4. fifo' = [fifo EXCEPT ![q] = RemoveAt(fifo[q], 1)]
      <3>1. PICK p : p = q_ret'
        OBVIOUS
      <3>2. QueueLeft(c, q, 1, p)
        BY <2>1, <3>1
      <3> QED
        BY <2>2, <3>2, FifoLeft
    <2> QED
      BY <1>1, <1>3, <2>2, <2>3, <2>4 DEF Fifo!Dequeue
  <1> QED
    BY <1>2, <1>3

(* Every call on the process queues does what FifoQueues says.             *)
LEMMA FifoStep == QueueInv /\ Queues!Next => Fifo!Next
  <1> SUFFICES ASSUME QueueInv, Queues!Next PROVE Fifo!Next
    OBVIOUS
  <1>1. PICK c : QueueLists(p_next, p_prev, tp, c)
    BY DEF QueueInv, Queued
  <1>2. pcbList_h \in Queue
    BY QueueTable
  <1>3. ASSUME NEW q \in Queue, NEW p \in Blocks, Queues!InsertProcQ(q, p)
        PROVE  Fifo!Enqueue(q, p)
    <2>1. /\ QueueBecomes(c, q, Append(c[q], p)) /\ q_ret' = q_ret
          /\ \A r \in Queue : p \notin Range(c[r])
      BY <1>1, <1>3, QueueInsert
    <2>2. fifo' = [fifo EXCEPT ![q] = Append(c[q], p)]
      BY <1>1, <2>1, FifoBecomes
    <2>3. \A r \in Queue : p \notin Fifo!Range(fifo[r])
      BY <1>1, <2>1, FifoFacts
    <2>4. fifo[q] = c[q]
      BY <1>1, FifoFacts
    <2> QED
      BY <2>1, <2>2, <2>3, <2>4 DEF Fifo!Enqueue
  <1>4. ASSUME NEW q \in Queue, NEW p \in Blocks, Queues!OutProcQ(q, p)
        PROVE  Fifo!Take(q, p)
    <2>1. fifo[q] = c[q] /\ Fifo!Range(fifo[q]) = Range(c[q]) /\ c[q] \in Seq(Blocks)
      BY <1>1, FifoFacts
    <2>2. CASE p \notin Range(c[q]) /\ q_ret' = Nil /\ UNCHANGED <<p_next, p_prev, tp>>
      <3>1. fifo' = fifo
        BY <2>2 DEF fifo, Queues!Contents, Queues!Walk
      <3>2. Fifo!RemoveFirst(fifo[q], p) = fifo[q]
        <4>1. ~ \E i \in 1..Len(c[q]) : c[q][i] = p
          BY <2>1, <2>2, MemberType
        <4> QED
          BY <2>1, <4>1 DEF Fifo!RemoveFirst
      <3>3. fifo' = [fifo EXCEPT ![q] = fifo[q]]
        BY <3>1 DEF fifo
      <3> QED
        BY <2>1, <2>2, <3>2, <3>3 DEF Fifo!Take
    <2>3. ASSUME q_ret' = p, NEW k \in 1..Len(c[q]), QueueLeft(c, q, k, p)
          PROVE  Fifo!Take(q, p)
      <3>1. /\ fifo' = [fifo EXCEPT ![q] = RemoveAt(fifo[q], k)] /\ p \in Range(c[q])
            /\ RemoveAt(fifo[q], k) = Fifo!RemoveFirst(fifo[q], p)
        BY <1>1, <2>3, FifoLeft
      <3> QED
        BY <2>1, <2>3, <3>1 DEF Fifo!Take
    <2> QED
      BY <1>1, <1>4, <2>2, <2>3, QueueOut
  <1>5. CASE Queues!AllocPcb
    <2>1. tp[pcbList_h] = Nil <=> c[pcbList_h] = <<>>
      BY <1>1, <1>2, QueueHead
    <2>2. tp[pcbList_h] = Nil => UNCHANGED <<p_next, p_prev, tp>> /\ q_ret' = Nil
      BY <1>5 DEF Queues!AllocPcb
    <2>3. tp[pcbList_h] # Nil => QueueLeft(c, pcbList_h, 1, q_ret')
      BY <1>1, <1>5, QueueAlloc
    <2>4. Fifo!Dequeue(pcbList_h)
      BY <1>1, <1>2, <2>1, <2>2, <2>3, FifoDequeues
    <2> QED
      BY <1>2, <2>4 DEF Fifo!Next
  <1>6. ASSUME NEW p \in Blocks, Queues!FreePcb(p) PROVE Fifo!Next
    <2>1. Queues!InsertProcQ(pcbList_h, p)
      BY <1>6 DEF Queues!FreePcb
    <2> QED
      BY <1>2, <1>3, <2>1 DEF Fifo!Next
  <1>7. ASSUME NEW q \in Queue, Queues!RemoveProcQ(q) PROVE Fifo!Dequeue(q)
    BY <1>1, <1>7, QueueRemove, FifoDequeues
  <1>8. ASSUME NEW q \in Queue, Queues!HeadProcQ(q) PROVE Fifo!Peek(q)
    <2>1. fifo' = fifo /\ q_ret' = IF tp[q] = Nil THEN Nil ELSE p_next[tp[q]]
      BY <1>8 DEF Queues!HeadProcQ, fifo, Queues!Contents, Queues!Walk
    <2>2. /\ tp[q] = Nil <=> c[q] = <<>>
          /\ tp[q] # Nil => p_next[tp[q]] = c[q][1]
      BY <1>1, QueueHead
    <2>3. fifo[q] = c[q] /\ c[q] \in Seq(Blocks)
      BY <1>1, FifoFacts
    <2>4. c[q] # <<>> => Head(c[q]) = c[q][1]
      BY <2>3
    <2> QED
      BY <2>1, <2>2, <2>3, <2>4 DEF Fifo!Peek
  <1> QED
    BY <1>3, <1>4, <1>5, <1>6, <1>7, <1>8 DEF Queues!Next, Fifo!Next

(* At first the free list has all the blocks, in any order.                *)
LEMMA FifoStart == Init => Fifo!Init
  <1> SUFFICES ASSUME Init PROVE Fifo!Init
    OBVIOUS
  <1>1. /\ Cardinality(Blocks) \in Nat \ {0} /\ IsFiniteSet(Blocks) /\ pcbList_h \in Queue
        /\ Fifo!Cardinality(Blocks) = Cardinality(Blocks)
    BY QueueTable DEF Fifo!Cardinality, Cardinality
  <1>2. CASE under # "queues"
    <2>1. tp = [q \in Queue |-> Nil] /\ q_ret = Nil
      BY <1>2 DEF Init
    <2>2. \A q \in Queue : Queues!Contents(q) = <<>>
      BY <2>1 DEF Queues!Contents
    <2>3. fifo = [q \in Queue |-> <<>>]
      BY <2>2 DEF fifo
    <2> QED
      BY <2>1, <2>3 DEF Fifo!Init
  <1>3. CASE under = "queues"
    <2>1. Queues!Init
      BY <1>3 DEF Init
    <2>2. PICK t \in [1..Cardinality(Blocks) -> Blocks] :
            /\ IsInjective(t) /\ t \in Seq(Blocks)
            /\ QueueLists(p_next, p_prev, tp, [q \in Queue |-> IF q = pcbList_h THEN t ELSE <<>>])
      BY <2>1, QueueSetUp
    <2>3. fifo = [q \in Queue |-> IF q = pcbList_h THEN t ELSE <<>>]
      BY <2>2, FifoSpelled DEF FifoAgrees, fifo
    <2>4. t \in Fifo!SetToSeqs(Blocks)
      BY <1>1, <2>2 DEF Fifo!SetToSeqs, IsInjective
    <2> QED
      BY <2>1, <2>3, <2>4, QueueSetUp DEF Fifo!Init
  <1> QED
    BY <1>2, <1>3

(* The links of pcb.c implement first in, first out queues: what           *)
(* insertProcQ and freePcb put in comes out once, in order, by removeProcQ *)
(* and allocPcb, whatever outProcQ has taken out of the middle before.     *)
THEOREM QueuesImplemented == Spec => QueuesAreFifo
  <1>1. Init => Fifo!Init
    BY FifoStart
  <1>2. LInv /\ [Next]_vars => [under = "queues" => Fifo!Next]_queues
    <2> SUFFICES ASSUME LInv, Next, under = "queues", queues' # queues PROVE Fifo!Next
      BY DEF vars
    <2>1. QueueInv
      BY DEF LInv
    <2>2. Queues!Next
      BY DEF Next, QueueStep, TreeStep, SemdStep, VirtStep, DelayStep
    <2> QED
      BY <2>1, <2>2, FifoStep
  <1> QED
    BY <1>1, <1>2, Invariance, PTL DEF Spec, QueuesAreFifo
--------------------------------------------------------------------------
(* The list of delays.                                                     *)

Sleeper == [wake : Nat, proc : Nat]

(* Who sleeps until when, in the nodes a.                                  *)
Rows(a) == [i \in 1..Len(a) |-> [wake |-> d_wakeTime[a[i]], proc |-> d_procID[a[i]]]]

(* What follows the head of the list is what the links spell.              *)
DelayAgrees ==
  \A a, f : DelayLists(d_next, activeDelaydList_h, delaydFree_h, a, f) => delayed = Rows(a)

LEMMA DelayedSpelled == DelayAgrees
  <1> SUFFICES ASSUME NEW a, NEW f, DelayLists(d_next, activeDelaydList_h, delaydFree_h, a, f)
               PROVE  delayed = Rows(a)
    BY DEF DelayAgrees
  <1>1. Delays!From(activeDelaydList_h) = a
    BY DelaySpelled
  <1> QED
    BY <1>1 DEF delayed, Delays!Listed, Rows

(* As many sleep as the list has nodes; all nodes do when none is free.    *)
LEMMA RowsFacts ==
  ASSUME NEW a, NEW f, DelayInv, DelayLists(d_next, activeDelaydList_h, delaydFree_h, a, f)
  PROVE  /\ a \in Seq(DNode) /\ Len(a) \in Nat
         /\ Rows(a) \in Seq(Sleeper) /\ Len(Rows(a)) = Len(a)
         /\ Rows(a) = <<>> <=> a = <<>>
         /\ Len(a) <= DelayNodes /\ (Len(a) = DelayNodes <=> f = <<>>)
  <1>1. /\ a \in Seq(DNode) /\ IsInjective(a) /\ f \in Seq(DNode) /\ IsInjective(f)
        /\ Range(a) \cap Range(f) = {} /\ Range(a) \cup Range(f) = DNode
    BY DEF DelayLists, Spells
  <1>2. d_wakeTime \in [DNode -> Nat] /\ d_procID \in [DNode -> Nat]
    BY DEF DelayInv
  <1>3. Rows(a) \in Seq(Sleeper) /\ Len(Rows(a)) = Len(a)
    <2>1. \A i \in 1..Len(a) : a[i] \in DNode
      BY <1>1
    <2>2. Rows(a) \in [1..Len(a) -> Sleeper] /\ Len(a) \in Nat
      BY <1>1, <1>2, <2>1 DEF Rows, Sleeper
    <2> HIDE DEF Sleeper
    <2> QED
      BY <2>2
  <1>4. Len(a) + Len(f) = DelayNodes
    <2>1. /\ IsFiniteSet(Range(a)) /\ Cardinality(Range(a)) = Len(a)
          /\ IsFiniteSet(Range(f)) /\ Cardinality(Range(f)) = Len(f)
      BY <1>1, QueueCardinality
    <2>2. Cardinality(Range(a) \cup Range(f)) =
            Cardinality(Range(a)) + Cardinality(Range(f)) - Cardinality(Range(a) \cap Range(f))
      BY <2>1, FS_Union
    <2>3. Cardinality({}) = 0
      BY FS_EmptySet
    <2>4. Len(a) \in Nat /\ Len(f) \in Nat
      BY <1>1
    <2>5. Cardinality(DNode) = Len(a) + Len(f) - 0
      BY <1>1, <2>1, <2>2, <2>3
    <2> QED
      BY <2>4, <2>5, DelayTable
  <1>5. Len(f) = 0 <=> f = <<>>
    BY <1>1, EmptySeq
  <1>6. Len(a) \in Nat /\ Len(f) \in Nat /\ DelayNodes \in Nat
    BY <1>1, DelayTable
  <1>7. Rows(a) = <<>> <=> a = <<>>
    <2>1. Len(a) = 0 <=> a = <<>>
      BY <1>1, EmptySeq
    <2>2. Len(Rows(a)) = 0 <=> Rows(a) = <<>>
      BY <1>3, EmptySeq
    <2> QED
      BY <1>3, <2>1, <2>2
  <1> QED
    BY <1>1, <1>3, <1>4, <1>5, <1>6, <1>7

(* Where the search of insertDelay ends the newcomer fits behind the head, *)
(* and in the whole list when it is not to wake before the head.           *)
LEMMA PlaceFits ==
  ASSUME NEW a \in Seq(DNode), Rows(a) \in Seq(Sleeper), Len(Rows(a)) = Len(a),
         d_wakeTime \in [DNode -> Nat], Ordered(d_wakeTime, a),
         NEW t \in Nat, NEW p \in Nat, NEW k, DelayPlace(a, t, k)
  PROVE  LET d == [wake |-> t, proc |-> p] IN
         /\ k \in 1..(Len(a) + 1) /\ (a # <<>> => k \in 2..(Len(a) + 1))
         /\ Delayed!Fits(Rows(a), 2, d, k)
         /\ a = <<>> \/ d_wakeTime[a[1]] <= t => Delayed!Fits(Rows(a), 1, d, k)
  <1> DEFINE d == [wake |-> t, proc |-> p]
  <1>1. /\ k \in 1..(Len(a) + 1) /\ (a # <<>> => k >= 2)
        /\ \A j \in 2..(k - 1) : d_wakeTime[a[j]] < t
        /\ \A j \in k..Len(a) : t <= d_wakeTime[a[j]]
    BY PlaceOrdered
  <1>2. Len(a) \in Nat /\ d.wake = t /\ \A j \in 1..Len(a) : d_wakeTime[a[j]] \in Nat
    OBVIOUS
  <1>3. \A j \in 1..Len(a) : Rows(a)[j].wake = d_wakeTime[a[j]]
    BY DEF Rows
  <1> HIDE DEF d
  <1>4. \A j \in k..Len(Rows(a)) : d.wake <= Rows(a)[j].wake
    BY <1>1, <1>2, <1>3
  <1>5. \A j \in 2..(k - 1) : Rows(a)[j].wake <= d.wake
    BY <1>1, <1>2, <1>3
  <1>6. ASSUME a = <<>> \/ d_wakeTime[a[1]] <= t, NEW j \in 1..(k - 1)
        PROVE  Rows(a)[j].wake <= d.wake
    <2>1. j \in 1..Len(a) /\ a # <<>>
      BY <1>1, <1>2
    <2>2. CASE j = 1
      BY <1>2, <1>3, <1>6, <2>1, <2>2
    <2>3. CASE j # 1
      BY <1>1, <1>5, <2>3
    <2> QED
      BY <2>2, <2>3
  <1>7. a # <<>> => k \in 2..(Len(a) + 1)
    BY <1>1, <1>2
  <1> QED
    BY <1>1, <1>4, <1>5, <1>6, <1>7 DEF Delayed!Fits, d

(* The node that insertDelay wove in, to the mapping.                      *)
LEMMA RowsWoven ==
  ASSUME NEW a, NEW f, DelayInv, DelayLists(d_next, activeDelaydList_h, delaydFree_h, a, f),
         NEW n, NEW t \in Nat, NEW p \in Nat, NEW k, DelayWoven(a, n, t, p, k)
  PROVE  delayed' = InsertAt(Rows(a), k, [wake |-> t, proc |-> p])
  <1> DEFINE d == [wake |-> t, proc |-> p]
  <1>1. PICK b, g : /\ DelayLists(d_next', activeDelaydList_h', delaydFree_h', b, g)
                    /\ Without(DNode, b, a, k) /\ b[k] = n
    BY DEF DelayWoven
  <1>2. DelayAgrees'
    BY DelayedSpelled, PTL
  <1> DEFINE r == [i \in 1..Len(b) |-> [wake |-> d_wakeTime'[b[i]], proc |-> d_procID'[b[i]]]]
  <1>3. delayed' = r
    BY <1>1, <1>2 DEF DelayAgrees, Rows
  <1>4. /\ n \in DNode \ Range(a)
        /\ d_wakeTime' = [d_wakeTime EXCEPT ![n] = t] /\ d_procID' = [d_procID EXCEPT ![n] = p]
        /\ d_wakeTime \in [DNode -> Nat] /\ d_procID \in [DNode -> Nat]
    BY DEF DelayWoven, DelayInv
  <1>5. /\ b \in Seq(DNode) /\ a \in Seq(DNode) /\ Len(b) = Len(a) + 1 /\ k \in 1..Len(b)
        /\ \A i \in 1..(k - 1) : a[i] = b[i]
        /\ \A i \in k..Len(a) : a[i] = b[i + 1]
    BY <1>1 DEF Without
  <1>6. Rows(a) \in Seq(Sleeper) /\ Len(Rows(a)) = Len(a)
    BY RowsFacts
  <1>7. r \in Seq(Sleeper) /\ Len(r) = Len(b)
    <2>1. \A i \in 1..Len(b) : d_wakeTime'[b[i]] \in Nat /\ d_procID'[b[i]] \in Nat
      BY <1>4, <1>5
    <2>2. r \in [1..Len(b) -> Sleeper] /\ Len(b) \in Nat
      BY <1>5, <2>1 DEF Sleeper
    <2> HIDE DEF r, Sleeper
    <2> QED
      BY <2>2
  <1>8. r[k] = d
    BY <1>1, <1>4, <1>5
  <1>9. \A i \in 1..Len(a) : a[i] \in DNode /\ a[i] # n
    <2>1. \A i \in 1..Len(a) : a[i] \in DNode /\ a[i] \in Range(a)
      BY <1>5, MemberType
    <2> QED
      BY <1>4, <2>1
  <1>10. \A i \in 1..Len(a) :
           [wake |-> d_wakeTime'[a[i]], proc |-> d_procID'[a[i]]] = Rows(a)[i]
    BY <1>4, <1>9 DEF Rows
  <1>11. \A i \in 1..(k - 1) : Rows(a)[i] = r[i]
    <2> SUFFICES ASSUME NEW i \in 1..(k - 1) PROVE Rows(a)[i] = r[i]
      OBVIOUS
    <2>1. i \in 1..Len(a) /\ i \in 1..Len(b) /\ a[i] = b[i]
      BY <1>5
    <2> QED
      BY <1>10, <2>1
  <1>12. \A i \in k..Len(a) : Rows(a)[i] = r[i + 1]
    <2> SUFFICES ASSUME NEW i \in k..Len(a) PROVE Rows(a)[i] = r[i + 1]
      OBVIOUS
    <2>1. i \in 1..Len(a) /\ i + 1 \in 1..Len(b) /\ a[i] = b[i + 1]
      BY <1>5
    <2> QED
      BY <1>10, <2>1
  <1> HIDE DEF r, d
  <1>13. Without(Sleeper, r, Rows(a), k)
    BY <1>5, <1>6, <1>7, <1>11, <1>12 DEF Without
  <1>14. r = InsertAt(Rows(a), k, r[k])
    BY <1>13, WithoutInserts
  <1> QED
    BY <1>3, <1>8, <1>14 DEF d

(* Every call on the delay list does what DelayList says.                  *)
LEMMA DelayedStep ==
  ASSUME DelayInv, Delays!Next
  PROVE  Delayed!Next \/ \E w \in Time, p \in ProcID : BehindHead(w, p)
  <1>1. PICK a, f : /\ DelayLists(d_next, activeDelaydList_h, delaydFree_h, a, f)
                    /\ Ordered(d_wakeTime, a)
    BY DEF DelayInv
  <1>2. /\ a \in Seq(DNode) /\ Len(a) \in Nat
        /\ Rows(a) \in Seq(Sleeper) /\ Len(Rows(a)) = Len(a)
        /\ Rows(a) = <<>> <=> a = <<>>
        /\ Len(a) = DelayNodes <=> f = <<>>
    BY <1>1, RowsFacts
  <1>3. delayed = Rows(a)
    BY <1>1, DelayedSpelled DEF DelayAgrees
  <1>4. ASSUME UNCHANGED <<d_next, activeDelaydList_h, delaydFree_h, d_wakeTime, d_procID>>
        PROVE  delayed' = delayed
    BY <1>4 DEF delayed, Delays!Listed, Delays!From, Delays!Linked, Delays!Walk
  <1>5. a # <<>> => Head(Rows(a)) = [wake |-> d_wakeTime[a[1]], proc |-> d_procID[a[1]]]
    <2> SUFFICES ASSUME a # <<>>
                 PROVE  Head(Rows(a)) = [wake |-> d_wakeTime[a[1]], proc |-> d_procID[a[1]]]
      OBVIOUS
    <2>1. 1 \in 1..Len(a)
      BY <1>2
    <2>2. Head(Rows(a)) = Rows(a)[1]
      BY <1>2
    <2> QED
      BY <2>1, <2>2 DEF Rows
  <1>6. CASE Delays!RemoveDelay
    <2>1. /\ UNCHANGED <<d_wakeTime, d_procID>>
          /\ IF a = <<>>
               THEN /\ d_ret' = Delays!FAILURE
                    /\ UNCHANGED <<d_next, activeDelaydList_h, delaydFree_h>>
               ELSE /\ d_ret' = d_procID[a[1]]
                    /\ \E g : DelayLists(d_next', activeDelaydList_h', delaydFree_h', Tail(a), g)
      BY <1>1, <1>6, DelayRemove
    <2>2. CASE a = <<>>
      BY <1>2, <1>3, <1>4, <2>1, <2>2 DEF Delayed!Next, Delayed!Wake, Delayed!FAILURE, Delays!FAILURE
    <2>3. CASE a # <<>>
      <3>1. delayed' = Tail(Rows(a))
        <4>1. DelayAgrees'
          BY DelayedSpelled, PTL
        <4>2. delayed' = Rows(Tail(a))
          BY <2>1, <2>3, <4>1 DEF DelayAgrees, Rows
        <4>3. /\ Tail(a) \in Seq(DNode) /\ Len(Tail(a)) = Len(a) - 1
              /\ \A i \in 1..(Len(a) - 1) : Tail(a)[i] = a[i + 1]
          BY <1>2, <2>3
        <4>4. /\ Tail(Rows(a)) \in Seq(Sleeper) /\ Len(Tail(Rows(a))) = Len(a) - 1
              /\ \A i \in 1..(Len(a) - 1) : Tail(Rows(a))[i] = Rows(a)[i + 1]
          BY <1>2, <2>3
        <4>5. \A i \in 1..(Len(a) - 1) : Rows(Tail(a))[i] = Tail(Rows(a))[i]
          BY <1>2, <4>3, <4>4 DEF Rows
        <4>6. Rows(Tail(a)) = [i \in 1..(Len(a) - 1) |-> Rows(Tail(a))[i]]
          BY <4>3 DEF Rows
        <4>7. Tail(Rows(a)) = [i \in 1..(Len(a) - 1) |-> Tail(Rows(a))[i]]
          <5> DEFINE v == Tail(Rows(a))
          <5>1. v \in Seq(Sleeper) /\ Len(v) = Len(a) - 1
            BY <4>4
          <5> HIDE DEF v
          <5>2. v = [i \in 1..Len(v) |-> v[i]]
            BY <5>1
          <5> QED
            BY <5>1, <5>2 DEF v
        <4> QED
          BY <4>2, <4>5, <4>6, <4>7
      <3> QED
        BY <1>2, <1>3, <1>5, <2>1, <2>3, <3>1 DEF Delayed!Next, Delayed!Wake
    <2> QED
      BY <2>2, <2>3
  <1>7. CASE Delays!HeadDelaydTime
    <2>1. /\ UNCHANGED <<d_next, activeDelaydList_h, delaydFree_h, d_wakeTime, d_procID>>
          /\ d_ret' = IF activeDelaydList_h = 0 THEN -1 ELSE d_wakeTime[activeDelaydList_h]
      BY <1>7 DEF Delays!HeadDelaydTime, Delays!lists, Delays!fields, Delays!NULL, Delays!FAILURE
    <2>2. activeDelaydList_h = 0 <=> a = <<>>
      BY <1>1, FirstOf, DelayTable DEF DelayLists
    <2>3. a # <<>> => activeDelaydList_h = a[1]
      BY <1>1 DEF DelayLists, First
    <2> QED
      BY <1>2, <1>3, <1>4, <1>5, <2>1, <2>2, <2>3 DEF Delayed!Next, Delayed!Look, Delayed!FAILURE
  <1>8. ASSUME NEW t \in Time, NEW p \in ProcID, Delays!InsertDelay(t, p)
        PROVE  Delayed!Sleep(t, p) \/ BehindHead(t, p)
    <2> DEFINE d == [wake |-> t, proc |-> p]
    <2>1. t \in Nat /\ p \in Nat
      BY ListsAssumption DEF Delays!AdlAssumption
    <2>2. IF f = <<>>
            THEN /\ d_ret' = 0
                 /\ UNCHANGED <<d_next, activeDelaydList_h, delaydFree_h, d_wakeTime, d_procID>>
            ELSE d_ret' = 1 /\ \E n, k : DelayPlace(a, t, k) /\ DelayWoven(a, n, t, p, k)
      BY <1>1, <1>8, DelayInsert
    <2>3. CASE f = <<>>
      BY <1>2, <1>3, <1>4, <2>2, <2>3 DEF Delayed!Sleep, Delayed!FALSE_
    <2>4. CASE f # <<>>
      <3>1. PICK n, k : DelayPlace(a, t, k) /\ DelayWoven(a, n, t, p, k)
        BY <2>2, <2>4
      <3>2. delayed' = InsertAt(Rows(a), k, d)
        BY <1>1, <2>1, <3>1, RowsWoven
      <3>3. d_wakeTime \in [DNode -> Nat]
        BY DEF DelayInv
      <3>4. /\ k \in 1..(Len(a) + 1) /\ (a # <<>> => k \in 2..(Len(a) + 1))
            /\ Delayed!Fits(Rows(a), 2, d, k)
            /\ a = <<>> \/ d_wakeTime[a[1]] <= t => Delayed!Fits(Rows(a), 1, d, k)
        BY <1>1, <1>2, <2>1, <3>1, <3>3, PlaceFits
      <3>5. Len(delayed) < DelayNodes
        <4>1. Len(a) # DelayNodes /\ Len(a) <= DelayNodes
          BY <1>1, <1>2, <2>4, RowsFacts
        <4> QED
          BY <1>2, <1>3, <4>1, DelayTable
      <3>6. d_ret' = 1
        BY <2>2, <2>4
      <3> HIDE DEF d
      <3>7. delayed' = Delayed!InsertAt(delayed, k, d)
        BY <1>3, <3>2 DEF Delayed!InsertAt, InsertAt
      <3>8. CASE a = <<>> \/ d_wakeTime[a[1]] <= t
        <4>1. Delayed!Enter(1, d)
          BY <1>2, <1>3, <3>4, <3>5, <3>6, <3>7, <3>8 DEF Delayed!Enter, Delayed!TRUE_
        <4> QED
          BY <4>1 DEF Delayed!Sleep, d
      <3>9. CASE a # <<>> /\ ~ (d_wakeTime[a[1]] <= t)
        <4>1. Delayed!Enter(2, d)
          BY <1>2, <1>3, <3>4, <3>5, <3>6, <3>7, <3>9 DEF Delayed!Enter, Delayed!TRUE_
        <4>2. delayed # <<>> /\ t < delayed[1].wake
          <5>1. 1 \in 1..Len(a) /\ a[1] \in DNode
            BY <1>2, <3>9
          <5>2. delayed[1].wake = d_wakeTime[a[1]]
            BY <1>3, <5>1 DEF Rows
          <5>3. d_wakeTime[a[1]] \in Nat
            BY <3>3, <5>1
          <5> QED
            BY <1>2, <1>3, <2>1, <3>9, <5>2, <5>3
        <4> QED
          BY <4>1, <4>2 DEF BehindHead, d
      <3> QED
        BY <3>8, <3>9
    <2> QED
      BY <2>3, <2>4
  <1> QED
    BY <1>6, <1>7, <1>8 DEF Delays!Next, Delayed!Next

(* At first nobody sleeps.                                                 *)
LEMMA DelayedStart == Delays!Init => Delayed!Init
  <1> SUFFICES ASSUME Delays!Init PROVE Delayed!Init
    OBVIOUS
  <1>1. DelayInv /\ activeDelaydList_h = 0 /\ d_ret = 0
    BY DelayInit DEF Delays!Init, Delays!NULL, Delays!FALSE_
  <1>2. PICK a, f : DelayLists(d_next, activeDelaydList_h, delaydFree_h, a, f)
    BY <1>1 DEF DelayInv
  <1>3. a = <<>>
    <2>1. Spells(DNode, d_next, a, 0) /\ First(a, 0) = 0 /\ 0 \notin DNode
      BY <1>1, <1>2, DelayTable DEF DelayLists
    <2> QED
      BY <2>1, FirstOf
  <1>4. delayed = Rows(a) /\ (Rows(a) = <<>> <=> a = <<>>)
    BY <1>1, <1>2, RowsFacts, DelayedSpelled DEF DelayAgrees
  <1> QED
    BY <1>1, <1>3, <1>4 DEF Delayed!Init, Delayed!FALSE_

(* The links of adl.c implement a list of sleepers: insertDelay gives each *)
(* that is not to wake before the head its proper place, and any other the *)
(* proper place behind the head; removeDelay takes the head, and a delay   *)
(* is refused only when as many sleep as there are nodes.                  *)
THEOREM DelaysImplemented == Spec => DelaysAreListed
  <1> DEFINE Step == Delayed!Next \/ \E w \in Time, p \in ProcID : BehindHead(w, p)
  <1>1. Init => Delayed!Init
    BY DelayedStart DEF Init
  <1>2. LInv /\ [Next]_vars => [under = "delays" => Step]_delays
    <2> SUFFICES ASSUME LInv, Next, under = "delays", delays' # delays PROVE Step
      BY DEF vars
    <2>1. DelayInv
      BY DEF LInv
    <2>2. Delays!Next
      BY DEF Next, QueueStep, TreeStep, SemdStep, VirtStep, DelayStep
    <2> QED
      BY <2>1, <2>2, DelayedStep
  <1> QED
    BY <1>1, <1>2, Invariance, PTL DEF Spec, DelaysAreListed
==========================================================================
