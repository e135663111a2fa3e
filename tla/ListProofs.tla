---------------------------- MODULE ListProofs ---------------------------
(***************************************************************************)
(* The links of the five structures of Lists.tla, for any number of blocks,*)
(* descriptors and nodes.  What a structure keeps in its links is written  *)
(* as sequences of nodes that the links spell: the invariant of each says  *)
(* that there are such sequences, and one lemma for each of its operations *)
(* says which sequences are there after it.  What linking a node in or out *)
(* does to a sequence is in QueueLemmas.tla.                               *)
(***************************************************************************)
EXTENDS Lists, QueueLemmas

--------------------------------------------------------------------------
(* The delay list.                                                         *)

DNode == Delays!Node

(* a is the active list and f the free stack; every node is on one.        *)
DelayLists(next, head, free, a, f) ==
  /\ next \in [DNode -> DNode \cup {0}]
  /\ Spells(DNode, next, a, 0) /\ head = First(a, 0)
  /\ Spells(DNode, next, f, 0) /\ free = First(f, 0)
  /\ Range(a) \cap Range(f) = {} /\ Range(a) \cup Range(f) = DNode

(* Behind the first, the nodes of a are in the order of their keys.        *)
Ordered(key, a) == \A i, j \in 2..Len(a) : i < j => key[a[i]] <= key[a[j]]

DelayInv ==
  /\ d_wakeTime \in [DNode -> Nat] /\ d_procID \in [DNode -> Nat]
  /\ \E a, f : /\ DelayLists(d_next, activeDelaydList_h, delaydFree_h, a, f)
               /\ Ordered(d_wakeTime, a)

(* Where insertDelay puts a node that is to wake at t.                     *)
DelayPlace(a, t, k) ==
  \/ a = <<>> /\ k = 1
  \/ \E i \in 1..Len(a) : k = i + 1 /\ StopsAt(a, i, d_wakeTime, t)

(* Node n for p, to wake at t, has become the k-th of a.                   *)
DelayWoven(a, n, t, p, k) ==
  /\ n \in DNode \ Range(a)
  /\ d_wakeTime' = [d_wakeTime EXCEPT ![n] = t] /\ d_procID' = [d_procID EXCEPT ![n] = p]
  /\ \E b, g : /\ DelayLists(d_next', activeDelaydList_h', delaydFree_h', b, g)
               /\ Without(DNode, b, a, k) /\ b[k] = n

(* The table of the delay list.                                            *)
LEMMA DelayTable ==
  /\ DelayNodes \in Nat \ {0} /\ DNode = 1..DelayNodes /\ 0 \notin DNode
  /\ IsFiniteSet(DNode) /\ Cardinality(DNode) = DelayNodes
  <1>1. DelayNodes \in Nat \ {0}
    BY ListsAssumption DEF Delays!AdlAssumption
  <1>2. DNode = 1..DelayNodes
    BY DEF DNode, Delays!Node
  <1> QED
    BY <1>1, <1>2, FS_Interval

(* initADL.                                                                *)
LEMMA DelayInit == Delays!Init => DelayInv
  <1> SUFFICES ASSUME Delays!Init PROVE DelayInv
    OBVIOUS
  <1> DEFINE f == [i \in 1..DelayNodes |-> DelayNodes + 1 - i]
  <1>1. /\ d_next = [n \in DNode |-> n - 1] /\ delaydFree_h = DelayNodes
        /\ activeDelaydList_h = 0
    BY DEF Delays!Init, Delays!NULL, DNode
  <1>2. f \in Seq(DNode) /\ Len(f) = DelayNodes /\ f # <<>> /\ f[1] = DelayNodes
    BY DelayTable
  <1>3. IsInjective(f)
    BY DelayTable DEF IsInjective
  <1>4. Range(f) = DNode
    <2>1. ASSUME NEW n \in DNode PROVE n \in Range(f)
      <3>1. DelayNodes + 1 - n \in DOMAIN f /\ f[DelayNodes + 1 - n] = n
        BY DelayTable
      <3> QED
        BY <3>1 DEF Range
    <2>2. Range(f) \subseteq DNode
      BY DelayTable DEF Range
    <2> QED
      BY <2>1, <2>2
  <1>5. ASSUME NEW i \in 1..DelayNodes
        PROVE  d_next[f[i]] = IF i < DelayNodes THEN f[i + 1] ELSE 0
    BY <1>1, DelayTable
  <1> HIDE DEF f
  <1>6. Spells(DNode, d_next, f, 0)
    BY <1>2, <1>3, <1>5 DEF Spells
  <1>7. Spells(DNode, d_next, <<>>, 0) /\ Range(<<>>) = {}
    BY EmptyQueue DEF Spells
  <1>8. d_next \in [DNode -> DNode \cup {0}]
    BY <1>1, DelayTable
  <1>9. DelayLists(d_next, activeDelaydList_h, delaydFree_h, <<>>, f)
    BY <1>1, <1>2, <1>4, <1>6, <1>7, <1>8 DEF DelayLists, First
  <1>10. d_wakeTime \in [DNode -> Nat] /\ d_procID \in [DNode -> Nat]
    BY DEF Delays!Init, DNode
  <1>11. Ordered(d_wakeTime, <<>>)
    BY DEF Ordered
  <1> QED
    BY <1>9, <1>10, <1>11 DEF DelayInv

(* removeDelay: the head goes to the free stack.                           *)
LEMMA DelayRemove ==
  ASSUME NEW a, NEW f, DelayLists(d_next, activeDelaydList_h, delaydFree_h, a, f),
         Delays!RemoveDelay
  PROVE  /\ UNCHANGED <<d_wakeTime, d_procID>>
         /\ IF a = <<>>
              THEN /\ d_ret' = Delays!FAILURE
                   /\ UNCHANGED <<d_next, activeDelaydList_h, delaydFree_h>>
              ELSE /\ d_ret' = d_procID[a[1]]
                   /\ \E g : DelayLists(d_next', activeDelaydList_h', delaydFree_h', Tail(a), g)
  <1>1. DelayLists(d_next, activeDelaydList_h, delaydFree_h, a, f)
    OBVIOUS
  <1>4. /\ Spells(DNode, d_next, a, 0) /\ activeDelaydList_h = First(a, 0)
        /\ Spells(DNode, d_next, f, 0) /\ delaydFree_h = First(f, 0)
        /\ 0 \notin DNode
    BY <1>1, DelayTable DEF DelayLists
  <1> DEFINE n == activeDelaydList_h
  <1>2. CASE n = 0
    <2>1. a = <<>>
      BY <1>2, <1>4, FirstOf
    <2>2. /\ UNCHANGED <<d_next, activeDelaydList_h, delaydFree_h, d_wakeTime, d_procID>>
          /\ d_ret' = Delays!FAILURE
      BY <1>2 DEF Delays!RemoveDelay, Delays!lists, Delays!fields, Delays!NULL
    <2> QED
      BY <2>1, <2>2
  <1>3. CASE n # 0
    <2>1. /\ activeDelaydList_h' = d_next[n] /\ delaydFree_h' = n
          /\ d_next' = [d_next EXCEPT ![n] = delaydFree_h]
          /\ UNCHANGED <<d_wakeTime, d_procID>> /\ d_ret' = d_procID[n]
      BY <1>3 DEF Delays!RemoveDelay, Delays!fields, Delays!NULL
    <2>2. a # <<>> /\ n = a[1] /\ n \in Range(a) /\ n \in DNode /\ 0 \notin DNode
      BY <1>3, <1>4, FirstOf
    <2> DEFINE b == Tail(a)
               g == InsertAt(f, 1, n)
    <2>3. /\ Spells(DNode, d_next, b, 0) /\ First(b, 0) = d_next[n]
          /\ Range(b) = Range(a) \ {n}
      <3>1. /\ Spells(DNode, d_next, Tail(a), 0) /\ First(Tail(a), 0) = d_next[a[1]]
            /\ Range(Tail(a)) = Range(a) \ {a[1]}
        BY <1>4, <2>2, SpellsPop, Zenon
      <3> QED
        BY <2>2, <3>1
    <2> HIDE DEF b, n
    <2>4. d_next'[n] = delaydFree_h /\ \A x \in DNode \ {n} : d_next'[x] = d_next[x]
      BY <1>1, <2>1, <2>2 DEF DelayLists
    <2>5. n \notin Range(f) /\ Range(a) \subseteq DNode /\ Range(f) \subseteq DNode
      BY <1>1, <2>2 DEF DelayLists
    <2>6. Spells(DNode, d_next', b, 0)
      BY <2>3, <2>4, <2>5, SpellsKept
    <2>7. /\ Spells(DNode, d_next', g, 0) /\ First(g, 0) = n
          /\ Range(g) = Range(f) \cup {n}
      BY <1>4, <2>2, <2>4, <2>5, SpellsPush
    <2> HIDE DEF g
    <2>8. d_next' \in [DNode -> DNode \cup {0}]
      <3>1. delaydFree_h \in DNode \cup {0}
        BY <1>4, FirstOf
      <3> QED
        BY <1>1, <2>1, <2>2, <3>1 DEF DelayLists
    <2>9. DelayLists(d_next', activeDelaydList_h', delaydFree_h', b, g)
      BY <1>1, <2>1, <2>2, <2>3, <2>6, <2>7, <2>8 DEF DelayLists
    <2> QED
      BY <2>1, <2>2, <2>9 DEF b
  <1> QED
    BY <1>2, <1>3

(* insertDelay: a free node is woven in where the search ended.            *)
LEMMA DelayInsert ==
  ASSUME NEW a, NEW f, DelayLists(d_next, activeDelaydList_h, delaydFree_h, a, f),
         NEW t, NEW p, Delays!InsertDelay(t, p)
  PROVE  IF f = <<>>
           THEN /\ d_ret' = 0
                /\ UNCHANGED <<d_next, activeDelaydList_h, delaydFree_h, d_wakeTime, d_procID>>
           ELSE d_ret' = 1 /\ \E n, k : DelayPlace(a, t, k) /\ DelayWoven(a, n, t, p, k)
  <1>1. DelayLists(d_next, activeDelaydList_h, delaydFree_h, a, f)
    OBVIOUS
  <1>2. /\ Spells(DNode, d_next, a, 0) /\ activeDelaydList_h = First(a, 0)
        /\ Spells(DNode, d_next, f, 0) /\ delaydFree_h = First(f, 0)
        /\ 0 \notin DNode /\ Range(a) \cap Range(f) = {} /\ Range(a) \cup Range(f) = DNode
        /\ d_next \in [DNode -> DNode \cup {0}]
    BY <1>1, DelayTable DEF DelayLists
  <1> DEFINE n == delaydFree_h
  <1>3. CASE n = 0
    <2>1. f = <<>>
      BY <1>2, <1>3, FirstOf
    <2>2. /\ UNCHANGED <<d_next, activeDelaydList_h, delaydFree_h, d_wakeTime, d_procID>>
          /\ d_ret' = 0
      BY <1>3 DEF Delays!InsertDelay, Delays!lists, Delays!fields, Delays!NULL, Delays!FALSE_
    <2> QED
      BY <2>1, <2>2
  <1>4. CASE n # 0
    <2> DEFINE g == Tail(f)
    <2>1. /\ delaydFree_h' = d_next[n]
          /\ IF activeDelaydList_h = 0
               THEN /\ activeDelaydList_h' = n
                    /\ d_next' = [d_next EXCEPT ![n] = 0]
               ELSE LET prev == Delays!FindPreviousDelayd(t) IN
                    /\ d_next' = [d_next EXCEPT ![n] = d_next[prev], ![prev] = n]
                    /\ activeDelaydList_h' = activeDelaydList_h
          /\ d_wakeTime' = [d_wakeTime EXCEPT ![n] = t] /\ d_procID' = [d_procID EXCEPT ![n] = p]
          /\ d_ret' = 1
      BY <1>4 DEF Delays!InsertDelay, Delays!NULL, Delays!TRUE_
    <2>2. f # <<>> /\ n = f[1] /\ n \in Range(f) /\ n \in DNode
      BY <1>2, <1>4, FirstOf
    <2>3. /\ Spells(DNode, d_next, g, 0) /\ First(g, 0) = d_next[f[1]]
          /\ Range(g) = Range(f) \ {f[1]}
      <3>1. Spells(DNode, d_next, f, 0) /\ f # <<>>
        BY <1>2, <2>2
      <3> QED
        BY <3>1, SpellsPop, Zenon
    <2> HIDE DEF g, n
    <2>4. n \notin Range(a) /\ n \notin Range(g) /\ d_next[n] \in DNode \cup {0}
      BY <1>2, <2>2, <2>3
    <2>5. CASE activeDelaydList_h = 0
      <3> DEFINE b == InsertAt(<<>>, 1, n)
      <3>1. a = <<>>
        BY <1>2, <2>5, FirstOf
      <3>2. d_next'[n] = 0 /\ \A x \in DNode \ {n} : d_next'[x] = d_next[x]
        BY <1>2, <2>1, <2>2, <2>5
      <3>3. First(<<>>, 0) = 0 /\ Range(<<>>) = {}
        BY EmptyQueue DEF First
      <3>4. /\ Spells(DNode, d_next', b, 0) /\ First(b, 0) = n
            /\ Range(b) = Range(<<>>) \cup {n}
        <4>1. /\ Spells(DNode, d_next, <<>>, 0) /\ n \in DNode /\ n \notin Range(<<>>)
              /\ d_next'[n] = First(<<>>, 0) /\ \A y \in Range(<<>>) : d_next'[y] = d_next[y]
          BY <1>2, <2>2, <3>1, <3>2, <3>3
        <4> QED
          BY <4>1, SpellsPush
      <3>12. Without(DNode, b, a, 1) /\ b[1] = n
        <4>1. <<>> \in Seq(DNode) /\ 1 \in 1..(Len(<<>>) + 1)
          OBVIOUS
        <4>2. Without(DNode, b, <<>>, 1) /\ b[1] = n
          BY <2>2, <4>1, WithoutInserted, Zenon
        <4> QED
          BY <3>1, <4>2
      <3> HIDE DEF b
      <3>5. Spells(DNode, d_next', g, 0)
        BY <1>2, <2>3, <2>4, <3>2, SpellsKept
      <3>6. d_next' \in [DNode -> DNode \cup {0}]
        BY <1>2, <2>1, <2>5
      <3>7. DelayLists(d_next', activeDelaydList_h', delaydFree_h', b, g)
        BY <1>2, <2>1, <2>2, <2>3, <2>4, <2>5, <3>1, <3>3, <3>4, <3>5, <3>6 DEF DelayLists
      <3>8. DelayPlace(a, t, 1) /\ DelayWoven(a, n, t, p, 1)
        BY <2>1, <2>2, <2>4, <3>1, <3>7, <3>12 DEF DelayPlace, DelayWoven
      <3> QED
        BY <2>1, <2>2, <3>8
    <2>6. CASE activeDelaydList_h # 0
      <3>1. a # <<>> /\ activeDelaydList_h = a[1]
        BY <1>2, <2>6, FirstOf
      <3>2. PICK k \in 1..Len(a) : /\ Delays!FindPreviousDelayd(t) = a[k]
                                   /\ StopsAt(a, k, d_wakeTime, t)
        <4>1. Delays!FindPreviousDelayd(t) =
                Search(DNode, d_next, 0, d_wakeTime, t)[a[1]]
          BY <3>1 DEF Delays!FindPreviousDelayd, Search, IsSearch, DNode, Delays!NULL
        <4>2. Finds(DNode, d_next, 0, d_wakeTime, t, a)
          <5>1. TwoLists(DNode, d_next, 0, a, f) /\ a # <<>> /\ 0 \notin DNode
            BY <1>2, <3>1 DEF TwoLists
          <5> QED
            BY <5>1, SearchFinds
        <4> QED
          BY <4>1, <4>2 DEF StopsAt, Finds
      <3> DEFINE b == InsertAt(a, k + 1, n)
      <3>3. a[k] \in Range(a) /\ a[k] \in DNode /\ a[k] # n
        BY <1>2, <2>4, FirstOf
      <3>4. d_next' = [d_next EXCEPT ![n] = d_next[a[k]], ![a[k]] = n]
            /\ activeDelaydList_h' = activeDelaydList_h
        BY <2>1, <2>6, <3>2
      <3>5. /\ d_next'[a[k]] = n /\ d_next'[n] = d_next[a[k]]
            /\ \A x \in DNode \ {n, a[k]} : d_next'[x] = d_next[x]
        BY <1>2, <2>2, <3>3, <3>4
      <3>6. \A y \in Range(a) \ {a[k]} : d_next'[y] = d_next[y]
        BY <1>2, <2>4, <3>5
      <3>7. /\ Spells(DNode, d_next', b, 0) /\ Range(b) = Range(a) \cup {n}
            /\ Without(DNode, b, a, k + 1) /\ b[k + 1] = n
        <4>1. /\ Spells(DNode, d_next, a, 0) /\ n \in DNode /\ n \notin Range(a)
              /\ d_next'[a[k]] = n /\ d_next'[n] = d_next[a[k]]
          BY <1>2, <2>2, <2>4, <3>5
        <4> QED
          BY <3>2, <3>6, <4>1, SpellsWeave
      <3> HIDE DEF b
      <3>8. First(b, 0) = First(a, 0)
        <4>1. a \in Seq(DNode) /\ Len(a) \in Nat /\ 1 \in 1..((k + 1) - 1)
          BY <1>2 DEF Spells
        <4>2. b[1] = a[1] /\ b # <<>>
          BY <3>7, <4>1 DEF Without
        <4> QED
          BY <3>1, <4>2 DEF First
      <3>9. Spells(DNode, d_next', g, 0)
        <4>1. \A x \in Range(g) : d_next'[x] = d_next[x]
          BY <1>2, <2>3, <2>4, <3>3, <3>5
        <4> QED
          BY <2>3, <4>1, SpellsKept
      <3>10. d_next' \in [DNode -> DNode \cup {0}]
        BY <1>2, <2>2, <3>3, <3>4
      <3>11. DelayLists(d_next', activeDelaydList_h', delaydFree_h', b, g)
        <4>1. Range(b) \cap Range(g) = {} /\ Range(b) \cup Range(g) = DNode
          BY <1>2, <2>2, <2>3, <2>4, <3>7
        <4> QED
          BY <1>2, <2>1, <2>2, <2>3, <3>4, <3>7, <3>8, <3>9, <3>10, <4>1 DEF DelayLists
      <3>12. DelayPlace(a, t, k + 1) /\ DelayWoven(a, n, t, p, k + 1)
        BY <2>1, <2>2, <2>4, <3>2, <3>7, <3>11 DEF DelayPlace, DelayWoven
      <3> QED
        BY <2>1, <2>2, <3>12
    <2> QED
      BY <2>5, <2>6
  <1> QED
    BY <1>3, <1>4

(* What removeDelay leaves is still in order behind its first.             *)
LEMMA OrderedTail ==
  ASSUME NEW a \in Seq(DNode), a # <<>>, NEW key, Ordered(key, a)
  PROVE  Ordered(key, Tail(a))
  <1> SUFFICES ASSUME NEW i \in 2..Len(Tail(a)), NEW j \in 2..Len(Tail(a)), i < j
               PROVE  key[Tail(a)[i]] <= key[Tail(a)[j]]
    BY DEF Ordered
  <1>1. /\ Len(Tail(a)) = Len(a) - 1 /\ Len(a) \in Nat
        /\ \A m \in 1..(Len(a) - 1) : Tail(a)[m] = a[m + 1]
    OBVIOUS
  <1>2. /\ Tail(a)[i] = a[i + 1] /\ Tail(a)[j] = a[j + 1] /\ i + 1 < j + 1
        /\ i + 1 \in 2..Len(a) /\ j + 1 \in 2..Len(a)
    BY <1>1
  <1> QED
    BY <1>2 DEF Ordered

(* Where the search ended, all before but the head wake earlier and all    *)
(* behind do not.                                                          *)
LEMMA PlaceOrdered ==
  ASSUME NEW a \in Seq(DNode), d_wakeTime \in [DNode -> Nat], Ordered(d_wakeTime, a),
         NEW t \in Nat, NEW k, DelayPlace(a, t, k)
  PROVE  /\ k \in 1..(Len(a) + 1) /\ (a # <<>> => k >= 2)
         /\ \A j \in 2..(k - 1) : d_wakeTime[a[j]] < t
         /\ \A j \in k..Len(a) : t <= d_wakeTime[a[j]]
  <1>1. Len(a) \in Nat /\ \A j \in 1..Len(a) : d_wakeTime[a[j]] \in Nat
    OBVIOUS
  <1>2. CASE a = <<>> /\ k = 1
    BY <1>2
  <1>3. ASSUME NEW i \in 1..Len(a), k = i + 1, StopsAt(a, i, d_wakeTime, t)
        PROVE  /\ k \in 2..(Len(a) + 1)
               /\ \A j \in 2..(k - 1) : d_wakeTime[a[j]] < t
               /\ \A j \in k..Len(a) : t <= d_wakeTime[a[j]]
    <2>1. /\ i < Len(a) => ~ (d_wakeTime[a[i + 1]] < t)
          /\ \A j \in 1..(i - 1) : d_wakeTime[a[j + 1]] < t
      BY <1>3 DEF StopsAt
    <2>2. ASSUME NEW j \in 2..(k - 1) PROVE d_wakeTime[a[j]] < t
      <3>1. PICK m \in 1..(i - 1) : m + 1 = j
        <4>1. (j - 1) \in 1..(i - 1) /\ (j - 1) + 1 = j
          BY <1>3
        <4> QED
          BY <4>1
      <3> QED
        BY <2>1, <3>1
    <2>3. ASSUME NEW j \in k..Len(a) PROVE t <= d_wakeTime[a[j]]
      <3>1. t <= d_wakeTime[a[k]] /\ k \in 2..Len(a) /\ j \in 2..Len(a)
        BY <1>1, <1>3, <2>1
      <3>2. CASE j = k
        BY <3>1, <3>2
      <3>3. CASE k < j
        <4>1. d_wakeTime[a[k]] <= d_wakeTime[a[j]]
          BY <3>1, <3>3 DEF Ordered
        <4>2. d_wakeTime[a[k]] \in Nat /\ d_wakeTime[a[j]] \in Nat
          BY <1>1, <3>1
        <4> QED
          BY <3>1, <4>1, <4>2
      <3> QED
        BY <1>1, <1>3, <3>2, <3>3
    <2> QED
      BY <1>1, <1>3, <2>2, <2>3
  <1>4. DelayPlace(a, t, k) => (a = <<>> /\ k = 1)
                                 \/ \E i \in 1..Len(a) : k = i + 1 /\ StopsAt(a, i, d_wakeTime, t)
    BY DEF DelayPlace
  <1> QED
    BY <1>1, <1>2, <1>3, <1>4

(* insertDelay keeps the order behind the head.                            *)
LEMMA OrderedInsert ==
  ASSUME NEW a, NEW b, NEW k, Without(DNode, b, a, k), NEW n \in DNode \ Range(a), b[k] = n,
         d_wakeTime \in [DNode -> Nat], Ordered(d_wakeTime, a),
         NEW t \in Nat, DelayPlace(a, t, k), d_wakeTime' = [d_wakeTime EXCEPT ![n] = t]
  PROVE  Ordered(d_wakeTime', b)
  <1>1. /\ b \in Seq(DNode) /\ a \in Seq(DNode) /\ Len(b) = Len(a) + 1 /\ k \in 1..Len(b)
        /\ Len(a) \in Nat
        /\ \A i \in 1..(k - 1) : b[i] = a[i]
        /\ \A i \in k..Len(a) : b[i + 1] = a[i]
    BY DEF Without
  <1>2. /\ a # <<>> => k >= 2
        /\ \A j \in 2..(k - 1) : d_wakeTime[a[j]] < t
        /\ \A j \in k..Len(a) : t <= d_wakeTime[a[j]]
    BY <1>1, PlaceOrdered
  <1>3. \A j \in 1..Len(a) : /\ d_wakeTime'[a[j]] = d_wakeTime[a[j]]
                             /\ d_wakeTime[a[j]] \in Nat
    <2>1. \A j \in 1..Len(a) : a[j] \in DNode /\ a[j] \in Range(a)
      BY <1>1, MemberType
    <2> QED
      BY <2>1
  <1>4. d_wakeTime'[b[k]] = t
    OBVIOUS
  <1> DEFINE up(i) == IF i < k THEN i ELSE i - 1
  <1>5. ASSUME NEW i \in 2..Len(b), i # k
        PROVE  /\ b[i] = a[up(i)] /\ up(i) \in 1..Len(a)
               /\ d_wakeTime'[b[i]] = d_wakeTime[a[up(i)]]
    <2>1. CASE i < k
      <3>1. up(i) = i
        BY <2>1
      <3>2. i \in 1..(k - 1) /\ i \in 1..Len(a)
        BY <1>1, <2>1
      <3>3. b[i] = a[i]
        BY <1>1, <3>2
      <3> QED
        BY <1>3, <3>1, <3>2, <3>3
    <2>2. CASE i > k
      <3>1. PICK m \in k..Len(a) : m + 1 = i
        <4>1. (i - 1) \in k..Len(a) /\ (i - 1) + 1 = i
          BY <1>1, <2>2
        <4> QED
          BY <4>1
      <3>2. b[m + 1] = a[m] /\ m \in 1..Len(a)
        BY <1>1
      <3>3. up(i) = m
        BY <1>1, <2>2, <3>1
      <3> QED
        BY <1>3, <3>1, <3>2, <3>3
    <2>3. i \in Nat /\ k \in Nat
      BY <1>1
    <2> QED
      BY <1>5, <2>1, <2>2, <2>3
  <1>6. ASSUME NEW i \in 2..Len(b), NEW j \in 2..Len(b), i < j
        PROVE  d_wakeTime'[b[i]] <= d_wakeTime'[b[j]]
    <2>1. k >= 2 /\ k \in Nat /\ i \in Nat /\ j \in Nat
      BY <1>1, <1>2, <1>6
    <2>2. CASE j = k
      <3>1. i \in 2..(k - 1) /\ i \in 1..Len(a) /\ up(i) = i
        BY <1>1, <1>6, <2>2
      <3>2. d_wakeTime[a[i]] < t /\ d_wakeTime'[b[i]] = d_wakeTime[a[i]]
        BY <1>2, <1>5, <2>1, <3>1
      <3> QED
        BY <1>3, <1>4, <2>2, <3>1, <3>2
    <2>3. CASE i = k
      <3>1. up(j) \in k..Len(a)
        BY <1>1, <1>6, <2>1, <2>3
      <3>2. t <= d_wakeTime[a[up(j)]] /\ d_wakeTime'[b[j]] = d_wakeTime[a[up(j)]]
        BY <1>2, <1>5, <1>6, <2>3, <3>1
      <3> QED
        BY <1>4, <2>3, <3>2
    <2>4. CASE i # k /\ j # k
      <3>1. /\ d_wakeTime'[b[i]] = d_wakeTime[a[up(i)]]
            /\ d_wakeTime'[b[j]] = d_wakeTime[a[up(j)]]
        BY <1>5, <2>4
      <3>2. up(i) \in 2..Len(a) /\ up(j) \in 2..Len(a) /\ up(i) < up(j)
        BY <1>1, <1>6, <2>1, <2>4
      <3> HIDE DEF up
      <3> QED
        BY <3>1, <3>2 DEF Ordered
    <2> QED
      BY <2>2, <2>3, <2>4
  <1> QED
    BY <1>6 DEF Ordered

(* Every call on the delay list.                                           *)
LEMMA DelayStepKeeps == DelayInv /\ [Delays!Next]_delays => DelayInv'
  <1> SUFFICES ASSUME DelayInv, [Delays!Next]_delays PROVE DelayInv'
    OBVIOUS
  <1>1. ASSUME UNCHANGED <<d_next, activeDelaydList_h, delaydFree_h, d_wakeTime, d_procID>>
        PROVE  DelayInv'
    BY <1>1 DEF DelayInv
  <1>2. PICK a, f : /\ DelayLists(d_next, activeDelaydList_h, delaydFree_h, a, f)
                    /\ Ordered(d_wakeTime, a)
    BY DEF DelayInv
  <1>3. /\ d_wakeTime \in [DNode -> Nat] /\ d_procID \in [DNode -> Nat]
        /\ a \in Seq(DNode)
    BY <1>2 DEF DelayInv, DelayLists, Spells
  <1>4. CASE Delays!RemoveDelay
    <2>1. /\ UNCHANGED <<d_wakeTime, d_procID>>
          /\ IF a = <<>>
               THEN UNCHANGED <<d_next, activeDelaydList_h, delaydFree_h>>
               ELSE \E g : DelayLists(d_next', activeDelaydList_h', delaydFree_h', Tail(a), g)
      BY <1>2, <1>4, DelayRemove
    <2>2. CASE a = <<>>
      BY <1>1, <2>1, <2>2
    <2>3. CASE a # <<>>
      <3>1. Ordered(d_wakeTime, Tail(a))
        BY <1>2, <1>3, <2>3, OrderedTail
      <3> QED
        BY <1>3, <2>1, <2>3, <3>1 DEF DelayInv
    <2> QED
      BY <2>2, <2>3
  <1>5. ASSUME NEW t \in Time, NEW p \in ProcID, Delays!InsertDelay(t, p) PROVE DelayInv'
    <2>1. t \in Nat /\ p \in Nat
      BY ListsAssumption DEF Delays!AdlAssumption
    <2>2. CASE f = <<>>
      BY <1>1, <1>2, <1>5, <2>2, DelayInsert
    <2>3. CASE f # <<>>
      <3>1. PICK n, k : DelayPlace(a, t, k) /\ DelayWoven(a, n, t, p, k)
        BY <1>2, <1>5, <2>3, DelayInsert
      <3>2. d_wakeTime' \in [DNode -> Nat] /\ d_procID' \in [DNode -> Nat]
        BY <1>3, <2>1, <3>1 DEF DelayWoven
      <3>3. PICK b, g : /\ DelayLists(d_next', activeDelaydList_h', delaydFree_h', b, g)
                        /\ Without(DNode, b, a, k) /\ b[k] = n
        BY <3>1 DEF DelayWoven
      <3>4. Ordered(d_wakeTime', b)
        <4>1. n \in DNode \ Range(a) /\ d_wakeTime' = [d_wakeTime EXCEPT ![n] = t]
          BY <3>1 DEF DelayWoven
        <4> QED
          BY <1>2, <1>3, <2>1, <3>1, <3>3, <4>1, OrderedInsert
      <3> QED
        BY <3>2, <3>3, <3>4 DEF DelayInv
    <2> QED
      BY <2>2, <2>3
  <1>6. UNCHANGED delays \/ Delays!HeadDelaydTime
          => UNCHANGED <<d_next, activeDelaydList_h, delaydFree_h, d_wakeTime, d_procID>>
    BY DEF delays, Delays!HeadDelaydTime, Delays!lists, Delays!fields
  <1> QED
    BY <1>1, <1>4, <1>5, <1>6 DEF Delays!Next

(* What the links lead to from both heads.                                 *)
LEMMA DelaySpelled ==
  ASSUME NEW a, NEW f, DelayLists(d_next, activeDelaydList_h, delaydFree_h, a, f)
  PROVE  Delays!From(activeDelaydList_h) = a /\ Delays!From(delaydFree_h) = f
  <1>1. /\ Spells(DNode, d_next, a, 0) /\ activeDelaydList_h = First(a, 0)
        /\ Spells(DNode, d_next, f, 0) /\ delaydFree_h = First(f, 0)
    BY DEF DelayLists
  <1>2. ASSUME NEW q, Spells(DNode, d_next, q, 0)
        PROVE  Delays!From(First(q, 0)) = q
    <2>1. Len(q) <= DelayNodes /\ DelayNodes \in Nat
      BY <1>2, NoLonger, DelayTable DEF Spells
    <2>2. Linked(d_next, First(q, 0), 0, DelayNodes) = q
      BY <1>2, <2>1, DelayTable, LinkedSpells
    <2>3. Delays!From(First(q, 0)) = Linked(d_next, First(q, 0), 0, DelayNodes)
      BY DEF Delays!From, Delays!Linked, Linked, Delays!Walk, Walk, Delays!NULL
    <2> QED
      BY <2>2, <2>3
  <1> QED
    BY <1>1, <1>2

(* The two lists are all the nodes.                                        *)
LEMMA DelayNoLeak == DelayInv => Delays!NoLeak
  <1> SUFFICES ASSUME DelayInv PROVE Delays!NoLeak
    OBVIOUS
  <1>1. PICK a, f : DelayLists(d_next, activeDelaydList_h, delaydFree_h, a, f)
    BY DEF DelayInv
  <1>2. Delays!Active = Range(a) /\ Delays!Free = Range(f)
    BY <1>1, DelaySpelled DEF Delays!Active, Delays!Free, Delays!Range, Range
  <1> QED
    BY <1>1, <1>2 DEF DelayLists, Delays!NoLeak, DNode

--------------------------------------------------------------------------
(* The list of virtual semaphores.                                         *)

VNode == Virts!Node

(* q is the circle and f the free stack; every node is on one.             *)
VirtLists(next, prev, head, free, q, f) ==
  /\ next \in [VNode -> VNode \cup {0}] /\ prev \in [VNode -> VNode \cup {0}]
  /\ Ring(VNode, next, prev, q) /\ head = First(q, 0)
  /\ Spells(VNode, next, f, 0) /\ free = First(f, 0)
  /\ Range(q) \cap Range(f) = {} /\ Range(q) \cup Range(f) = VNode

VirtInv ==
  torn \/ \E q, f : VirtLists(vs_next, vs_prev, virtSemd_h, virtSemdFree_h, q, f)

(* The table of the virtual semaphore list.                                *)
LEMMA VirtTable ==
  /\ VirtNodes \in Nat \ {0} /\ VNode = 1..VirtNodes /\ 0 \notin VNode
  /\ IsFiniteSet(VNode) /\ Cardinality(VNode) = VirtNodes
  <1>1. VirtNodes \in Nat \ {0}
    BY ListsAssumption DEF Virts!AvslAssumption
  <1>2. VNode = 1..VirtNodes
    BY DEF VNode, Virts!Node
  <1> QED
    BY <1>1, <1>2, FS_Interval

(* initAVSL.                                                               *)
LEMMA VirtInit == Virts!Init => VirtInv
  <1> SUFFICES ASSUME Virts!Init PROVE VirtInv
    OBVIOUS
  <1>1. /\ vs_next = [n \in VNode |-> n - 1] /\ vs_prev = [n \in VNode |-> 0]
        /\ virtSemd_h = 0 /\ virtSemdFree_h = VirtNodes
    BY DEF Virts!Init, Virts!NULL, VNode
  <1>2. \A n \in 1..VirtNodes : vs_next[n] = n - 1
    BY <1>1, VirtTable
  <1>3. PICK f : Spells(VNode, vs_next, f, 0) /\ First(f, 0) = VirtNodes /\ Range(f) = VNode
    BY <1>2, VirtTable, StackOfAll
  <1>4. vs_next \in [VNode -> VNode \cup {0}] /\ vs_prev \in [VNode -> VNode \cup {0}]
    BY <1>1, VirtTable
  <1>5. VirtLists(vs_next, vs_prev, virtSemd_h, virtSemdFree_h, <<>>, f)
    BY <1>1, <1>3, <1>4, EmptyList DEF VirtLists
  <1> QED
    BY <1>5 DEF VirtInv

(* What the invariant says before a call.                                  *)
LEMMA VirtFacts ==
  ASSUME NEW next, NEW prev, NEW head, NEW free, NEW q, NEW f,
         VirtLists(next, prev, head, free, q, f)
  PROVE  /\ Ring(VNode, next, prev, q) /\ Spells(VNode, next, f, 0)
         /\ q \in Seq(VNode) /\ IsInjective(q) /\ Len(q) \in Nat
         /\ \A i \in 1..Len(q) : q[i] \in Range(q)
         /\ Range(q) \subseteq VNode /\ Range(f) \subseteq VNode
         /\ head = 0 <=> q = <<>>
         /\ q # <<>> => head = q[1] /\ 1 \in 1..Len(q) /\ Len(q) \in 1..Len(q)
         /\ free = 0 <=> f = <<>>
         /\ f # <<>> => free = f[1] /\ f[1] \in Range(f)
         /\ free \in VNode \cup {0}
  <1>1. /\ Ring(VNode, next, prev, q) /\ head = First(q, 0)
        /\ Spells(VNode, next, f, 0) /\ free = First(f, 0) /\ 0 \notin VNode
    BY VirtTable DEF VirtLists
  <1>2. Spells(VNode, next, q, q[1])
    BY <1>1, TwinedSpells DEF Ring
  <1>3. q \in Seq(VNode) /\ IsInjective(q) /\ Len(q) \in Nat
    BY <1>2 DEF Spells
  <1>4. /\ First(q, 0) = 0 <=> q = <<>>
        /\ q # <<>> => First(q, 0) = q[1] /\ 1 \in 1..Len(q) /\ Len(q) \in Nat \ {0}
        /\ Range(q) \subseteq VNode
        /\ \A i \in 1..Len(q) : q[i] \in Range(q)
    BY <1>1, <1>2, FirstOf
  <1>5. /\ First(f, 0) = 0 <=> f = <<>>
        /\ f # <<>> => First(f, 0) = f[1] /\ f[1] \in Range(f) /\ f[1] \in VNode
        /\ Range(f) \subseteq VNode
    BY <1>1, FirstOf
  <1> QED
    BY <1>1, <1>3, <1>4, <1>5

(* vInsertBlocked: a free node becomes the last of the circle.             *)
LEMMA VirtInsert ==
  ASSUME NEW q, NEW f, NEW s, NEW p, ~ torn,
         VirtLists(vs_next, vs_prev, virtSemd_h, virtSemdFree_h, q, f),
         Virts!VInsertBlocked(s, p)
  PROVE  VirtInv'
  <1>1. /\ Ring(VNode, vs_next, vs_prev, q) /\ Spells(VNode, vs_next, f, 0)
        /\ q \in Seq(VNode) /\ IsInjective(q) /\ Len(q) \in Nat
        /\ \A i \in 1..Len(q) : q[i] \in Range(q)
        /\ Range(q) \subseteq VNode /\ Range(f) \subseteq VNode
        /\ virtSemd_h = 0 <=> q = <<>>
        /\ q # <<>> => virtSemd_h = q[1] /\ 1 \in 1..Len(q) /\ Len(q) \in 1..Len(q)
        /\ virtSemdFree_h = 0 <=> f = <<>>
        /\ f # <<>> => virtSemdFree_h = f[1] /\ f[1] \in Range(f)
    BY VirtFacts
  <1>2. /\ vs_next \in [VNode -> VNode \cup {0}] /\ vs_prev \in [VNode -> VNode \cup {0}]
        /\ Range(q) \cap Range(f) = {} /\ Range(q) \cup Range(f) = VNode
    BY DEF VirtLists
  <1> DEFINE n == virtSemdFree_h
  <1>3. CASE n = 0
    <2>1. UNCHANGED <<vs_next, vs_prev, virtSemd_h, virtSemdFree_h>>
      BY <1>3 DEF Virts!VInsertBlocked, Virts!links, Virts!heads, Virts!NULL
    <2> QED
      BY <2>1 DEF VirtInv
  <1>4. CASE n # 0
    <2> DEFINE g == Tail(f)
               r == Append(q, n)
    <2>1. virtSemdFree_h' = vs_next[n] /\ Virts!Weave(n)
      BY <1>4 DEF Virts!VInsertBlocked, Virts!NULL
    <2>2. f # <<>> /\ n = f[1] /\ n \in Range(f) /\ n \in VNode /\ n \notin Range(q)
      BY <1>1, <1>2, <1>4
    <2>3. /\ Spells(VNode, vs_next, g, 0) /\ First(g, 0) = vs_next[f[1]]
          /\ Range(g) = Range(f) \ {f[1]}
      <3>1. Spells(VNode, vs_next, f, 0) /\ f # <<>>
        BY <1>1, <2>2
      <3> QED
        BY <3>1, SpellsPop, Zenon
    <2>4. r \in Seq(VNode) /\ Range(r) = Range(q) \cup {n} /\ r # <<>>
          /\ (q # <<>> => r[1] = q[1]) /\ (q = <<>> => r[1] = n)
      BY <1>1, <2>2, AppendEnds
    <2> HIDE DEF g, n, r
    <2>5. /\ q = <<>> => /\ vs_next' = [vs_next EXCEPT ![n] = n]
                         /\ vs_prev' = [vs_prev EXCEPT ![n] = n]
                         /\ virtSemd_h' = n
          /\ q # <<>> => /\ vs_next' = [vs_next EXCEPT ![n] = q[1], ![vs_prev[q[1]]] = n]
                         /\ vs_prev' = [vs_prev EXCEPT ![n] = vs_prev[q[1]], ![q[1]] = n]
                         /\ virtSemd_h' = q[1]
      BY <1>1, <2>1 DEF Virts!Weave, Virts!NULL
    <2>6. q # <<>> => /\ vs_prev[q[1]] = q[Len(q)] /\ q[1] \in Range(q) /\ q[Len(q)] \in Range(q)
                      /\ q[1] \in VNode /\ q[Len(q)] \in VNode
      BY <1>1 DEF Ring, Twined
    <2>7. /\ q = <<>> => vs_next'[n] = n /\ vs_prev'[n] = n
          /\ q # <<>> => /\ vs_next'[n] = q[1] /\ vs_prev'[q[1]] = n
                         /\ vs_next'[q[Len(q)]] = n /\ vs_prev'[n] = q[Len(q)]
          /\ \A y \in VNode \ {n} : /\ y # q[Len(q)] => vs_next'[y] = vs_next[y]
                                    /\ y # q[1] => vs_prev'[y] = vs_prev[y]
          /\ vs_next' \in [VNode -> VNode \cup {0}] /\ vs_prev' \in [VNode -> VNode \cup {0}]
      BY <1>2, <2>2, <2>5, <2>6
    <2>8. Ring(VNode, vs_next', vs_prev', r)
      <3>1. \A y \in Range(q) : /\ y # q[Len(q)] => vs_next'[y] = vs_next[y]
                                /\ y # q[1] => vs_prev'[y] = vs_prev[y]
        BY <1>1, <2>2, <2>7
      <3> QED
        BY <1>1, <2>2, <2>7, <3>1, RingJoin DEF r
    <2>9. Spells(VNode, vs_next', g, 0)
      <3>1. \A x \in Range(g) : vs_next'[x] = vs_next[x]
        <4>1. ASSUME NEW x \in Range(g) PROVE x \in VNode \ {n} /\ x \notin Range(q)
          BY <1>1, <1>2, <2>2, <2>3
        <4>2. q # <<>> => q[Len(q)] \in Range(q)
          BY <2>6
        <4>3. q = <<>> => \A x \in VNode \ {n} : vs_next'[x] = vs_next[x]
          BY <1>2, <2>5
        <4> QED
          BY <2>7, <4>1, <4>2, <4>3
      <3> QED
        BY <2>3, <3>1, SpellsKept
    <2>10. VirtLists(vs_next', vs_prev', virtSemd_h', virtSemdFree_h', r, g)
      <3>1. Range(r) \cap Range(g) = {} /\ Range(r) \cup Range(g) = VNode
        BY <1>2, <2>2, <2>3, <2>4
      <3>2. virtSemd_h' = First(r, 0)
        BY <2>4, <2>5 DEF First
      <3> QED
        BY <2>1, <2>2, <2>3, <2>7, <2>8, <2>9, <3>1, <3>2 DEF VirtLists
    <2> QED
      BY <2>10 DEF VirtInv
  <1> QED
    BY <1>3, <1>4

(* A node that left the circle goes onto the free stack.                   *)
LEMMA VirtFreed ==
  ASSUME NEW q, NEW f, NEW n, NEW r, NEW next, NEW prev, NEW head, NEW free, NEW next2, NEW prev2,
         VirtLists(next, prev, head, free, q, f), n \in Range(q),
         Range(r) = Range(q) \ {n}, Ring(VNode, next2, prev2, r),
         next2 \in [VNode -> VNode \cup {0}], prev2 \in [VNode -> VNode \cup {0}],
         next2[n] = free, \A x \in Range(f) : next2[x] = next[x]
  PROVE  VirtLists(next2, prev2, First(r, 0), n, r, InsertAt(f, 1, n))
  <1>1. /\ Spells(VNode, next, f, 0) /\ n \in VNode /\ n \notin Range(f)
        /\ next2[n] = First(f, 0) /\ \A y \in Range(f) : next2[y] = next[y]
        /\ Range(q) \cap Range(f) = {} /\ Range(q) \cup Range(f) = VNode
    BY DEF VirtLists
  <1> DEFINE g == InsertAt(f, 1, n)
  <1>2. /\ Spells(VNode, next2, g, 0) /\ First(g, 0) = n /\ Range(g) = Range(f) \cup {n}
    BY <1>1, SpellsPush
  <1> HIDE DEF g
  <1>3. Range(r) \cap Range(g) = {} /\ Range(r) \cup Range(g) = VNode
    BY <1>1, <1>2
  <1>4. VirtLists(next2, prev2, First(r, 0), n, r, g)
    BY <1>2, <1>3 DEF VirtLists
  <1> QED
    BY <1>4 DEF g

(* vRemoveBlocked of the only node.                                        *)
LEMMA VirtRemoveOnly ==
  ASSUME NEW q, NEW f, NEW s,
         VirtLists(vs_next, vs_prev, virtSemd_h, virtSemdFree_h, q, f),
         Virts!RemoveOnly(s)
  PROVE  VirtInv'
  <1>1. /\ Ring(VNode, vs_next, vs_prev, q) /\ q \in Seq(VNode) /\ IsInjective(q) /\ Len(q) \in Nat
        /\ \A i \in 1..Len(q) : q[i] \in Range(q)
        /\ Range(q) \subseteq VNode /\ virtSemdFree_h \in VNode \cup {0}
        /\ virtSemd_h = 0 <=> q = <<>>
        /\ q # <<>> => virtSemd_h = q[1] /\ 1 \in 1..Len(q) /\ Len(q) \in 1..Len(q)
    BY VirtFacts
  <1>2. /\ vs_next \in [VNode -> VNode \cup {0}] /\ vs_prev \in [VNode -> VNode \cup {0}]
        /\ Range(q) \cap Range(f) = {} /\ Range(q) \cup Range(f) = VNode
    BY DEF VirtLists
  <1> DEFINE n == virtSemd_h
  <1>3. /\ n # 0 /\ vs_next[n] = n /\ virtSemd_h' = 0
        /\ vs_next' = [vs_next EXCEPT ![n] = virtSemdFree_h] /\ virtSemdFree_h' = n
        /\ vs_prev' = [vs_prev EXCEPT ![n] = 0]
    BY DEF Virts!RemoveOnly, Virts!Release, Virts!NULL
  <1>4. q # <<>> /\ n = q[1] /\ n \in Range(q) /\ n \in VNode
    BY <1>1, <1>3
  <1> HIDE DEF n
  <1>5. Len(q) = 1
    <2>1. vs_next[q[1]] = IF 1 < Len(q) THEN q[1 + 1] ELSE q[1]
      BY <1>1, <1>4 DEF Ring, Twined
    <2>2. 1 < Len(q) => q[1 + 1] # q[1]
      BY <1>1 DEF IsInjective
    <2>3. vs_next[q[1]] = q[1] /\ q[1] \in VNode
      BY <1>3, <1>4
    <2>4. ~ (1 < Len(q))
      BY <2>1, <2>2, <2>3
    <2>5. 1 \in 1..Len(q)
      BY <1>1, <1>4
    <2>6. Len(q) \in Nat
      BY <1>1
    <2>7. \A m \in Nat : ~ (1 < m) /\ 1 \in 1..m => m = 1
      OBVIOUS
    <2> QED
      BY <2>4, <2>5, <2>6, <2>7, Zenon
  <1>6. Range(<<>>) = Range(q) \ {n}
    <2>1. \A x \in Range(q) : x = q[1]
      BY <1>1, <1>5 DEF Range
    <2> QED
      BY <1>4, <2>1, EmptyQueue
  <1>7. /\ vs_next'[n] = virtSemdFree_h /\ \A x \in Range(f) : vs_next'[x] = vs_next[x]
        /\ vs_next' \in [VNode -> VNode \cup {0}] /\ vs_prev' \in [VNode -> VNode \cup {0}]
    BY <1>1, <1>2, <1>3, <1>4
  <1>8. Ring(VNode, vs_next', vs_prev', <<>>)
    BY EmptyList
  <1>9. VirtLists(vs_next', vs_prev', First(<<>>, 0), n, <<>>, InsertAt(f, 1, n))
    BY <1>4, <1>6, <1>7, <1>8, VirtFreed
  <1>10. First(<<>>, 0) = 0
    BY EmptyList
  <1> QED
    BY <1>3, <1>9, <1>10 DEF VirtInv

(* What Avsl.tla reads off the links.                                      *)
LEMMA VirtCircle ==
  ASSUME NEW q, NEW f, VirtLists(vs_next, vs_prev, virtSemd_h, virtSemdFree_h, q, f)
  PROVE  Virts!Circle = q /\ Virts!Active = Range(q) /\ Virts!Free = Range(f)
  <1>1. /\ Ring(VNode, vs_next, vs_prev, q) /\ virtSemd_h = First(q, 0)
        /\ Spells(VNode, vs_next, f, 0) /\ virtSemdFree_h = First(f, 0)
        /\ IsFiniteSet(VNode) /\ 0 \notin VNode /\ Cardinality(VNode) = VirtNodes
        /\ VirtNodes \in Nat
    BY VirtTable DEF VirtLists
  <1>2. Linked(vs_next, First(q, 0), 0, VirtNodes) = q
    BY <1>1, RingLinked
  <1>3. Linked(vs_next, First(f, 0), 0, VirtNodes) = f
    <2>1. Len(f) <= VirtNodes
      BY <1>1, NoLonger DEF Spells
    <2> QED
      BY <1>1, <2>1, LinkedSpells
  <1>4. \A n : Virts!From(n) = Linked(vs_next, n, 0, VirtNodes)
    BY DEF Virts!From, Virts!Linked, Linked, Virts!Walk, Walk, Virts!NULL
  <1>5. Virts!Circle = q
    BY <1>1, <1>2, <1>4 DEF Virts!Circle
  <1> QED
    BY <1>1, <1>3, <1>4, <1>5 DEF Virts!Active, Virts!Free, Virts!Range, Range

(* vRemoveBlocked of a node that is not the head.                          *)
LEMMA VirtRemoveInner ==
  ASSUME NEW q, NEW f, NEW s,
         VirtLists(vs_next, vs_prev, virtSemd_h, virtSemdFree_h, q, f),
         Virts!RemoveInner(s)
  PROVE  VirtInv'
  <1>1. /\ Ring(VNode, vs_next, vs_prev, q) /\ q \in Seq(VNode) /\ IsInjective(q) /\ Len(q) \in Nat
        /\ \A i \in 1..Len(q) : q[i] \in Range(q)
        /\ Range(q) \subseteq VNode /\ Range(f) \subseteq VNode
        /\ virtSemdFree_h \in VNode \cup {0}
        /\ q # <<>> => virtSemd_h = q[1] /\ 1 \in 1..Len(q) /\ Len(q) \in 1..Len(q)
    BY VirtFacts
  <1>2. /\ vs_next \in [VNode -> VNode \cup {0}] /\ vs_prev \in [VNode -> VNode \cup {0}]
        /\ Range(q) \cap Range(f) = {} /\ Range(q) \cup Range(f) = VNode
    BY DEF VirtLists
  <1> DEFINE of == {i \in 2..Len(q) : vs_semaphore[q[i]] = s}
             k == Min(of)
             n == q[k]
             r == RemoveAt(q, k)
  <1>3. /\ of # {}
        /\ vs_prev' = [vs_prev EXCEPT ![vs_next[n]] = vs_prev[n]]
        /\ vs_next' = [[vs_next EXCEPT ![vs_prev[n]] = vs_next[n]] EXCEPT ![n] = virtSemdFree_h]
        /\ virtSemdFree_h' = n /\ virtSemd_h' = virtSemd_h
    <2>1. Virts!Circle = q /\ \A T : Virts!Min(T) = Min(T)
      BY VirtCircle DEF Virts!Min, Min
    <2>2. /\ {i \in 2..Len(Virts!Circle) : vs_semaphore[Virts!Circle[i]] = s} # {}
          /\ LET m == Virts!Circle[Virts!Min(
                        {i \in 2..Len(Virts!Circle) : vs_semaphore[Virts!Circle[i]] = s})]
             IN  /\ vs_prev' = [vs_prev EXCEPT ![vs_next[m]] = vs_prev[m]]
                 /\ vs_next' = [[vs_next EXCEPT ![vs_prev[m]] = vs_next[m]]
                                 EXCEPT ![m] = virtSemdFree_h]
                 /\ virtSemdFree_h' = m
          /\ virtSemd_h' = virtSemd_h
      BY DEF Virts!RemoveInner, Virts!Release
    <2> QED
      BY <2>1, <2>2
  <1>4. k \in 2..Len(q)
    <2>1. of \in SUBSET Nat
      BY <1>1
    <2>2. k \in of
      BY <1>3, <2>1, LeastPosition
    <2> QED
      BY <2>2
  <1> HIDE DEF of, k
  <1>5. /\ k \in 1..Len(q) /\ k # 1 /\ 1 \in 1..Len(q) /\ k - 1 \in 1..Len(q) /\ q # <<>>
        /\ n \in Range(q) /\ n \in VNode
    BY <1>1, <1>4
  <1>6. /\ vs_next[n] \in Range(q) /\ vs_prev[n] \in Range(q)
        /\ vs_next[n] \in VNode /\ vs_prev[n] \in VNode
    BY <1>1, <1>5, RingAgrees
  <1>7. vs_prev[n] # n
    <2>1. vs_prev[n] = q[k - 1]
      BY <1>1, <1>4, <1>5 DEF Ring, Twined
    <2>2. q[k - 1] # q[k]
      BY <1>1, <1>4, <1>5 DEF IsInjective
    <2> QED
      BY <2>1, <2>2
  <1>8. /\ vs_next'[n] = virtSemdFree_h
        /\ \A y \in VNode \ {n} :
             /\ vs_next'[y] = IF y = vs_prev[n] THEN vs_next[n] ELSE vs_next[y]
             /\ vs_prev'[y] = IF y = vs_next[n] THEN vs_prev[n] ELSE vs_prev[y]
        /\ vs_next' \in [VNode -> VNode \cup {0}] /\ vs_prev' \in [VNode -> VNode \cup {0}]
    <2> HIDE DEF n
    <2> QED
      BY <1>1, <1>2, <1>3, <1>5, <1>6, <1>7
  <1>9. Ring(VNode, vs_next', vs_prev', r)
    <2>1. Bypassed(Range(q), q[k], vs_next, vs_prev, vs_next', vs_prev')
      BY <1>1, <1>8 DEF Bypassed
    <2> QED
      BY <1>1, <1>5, <2>1, RingLeave
  <1>10. /\ Range(r) = Range(q) \ {n} /\ r # <<>> /\ r[1] = q[1]
    <2>1. Without(VNode, q, r, k)
      BY <1>1, <1>5, WithoutRemoved
    <2>2. Range(q) = Range(r) \cup {q[k]} /\ q[k] \notin Range(r)
      BY <1>1, <2>1, WithoutMembers
    <2> HIDE DEF r
    <2>3. 1 \in 1..(k - 1) /\ r[1] = q[1] /\ Len(r) # 0
      BY <1>1, <1>4, <2>1 DEF Without
    <2> QED
      BY <2>2, <2>3
  <1>11. \A x \in Range(f) : vs_next'[x] = vs_next[x]
    BY <1>1, <1>2, <1>5, <1>6, <1>8
  <1> HIDE DEF n, r
  <1>12. VirtLists(vs_next', vs_prev', First(r, 0), n, r, InsertAt(f, 1, n))
    BY <1>5, <1>8, <1>9, <1>10, <1>11, VirtFreed
  <1>13. First(r, 0) = virtSemd_h
    BY <1>1, <1>5, <1>10 DEF First
  <1> QED
    BY <1>3, <1>12, <1>13 DEF VirtInv

(* Every call on the virtual semaphore list.                               *)
LEMMA VirtStepKeeps == VirtInv /\ [Virts!Next]_virts => VirtInv'
  <1> SUFFICES ASSUME VirtInv, [Virts!Next]_virts PROVE VirtInv'
    OBVIOUS
  <1>1. CASE UNCHANGED <<vs_next, vs_prev, virtSemd_h, virtSemdFree_h, torn>>
    BY <1>1 DEF VirtInv
  <1>2. CASE UNCHANGED virts
    BY <1>1, <1>2 DEF virts
  <1>3. ASSUME NEW s, NEW p, Virts!VInsertBlocked(s, p) PROVE VirtInv'
    <2>1. ~ torn
      BY <1>3 DEF Virts!VInsertBlocked
    <2> QED
      BY <1>3, <2>1, VirtInsert DEF VirtInv
  <1>4. ASSUME NEW s, Virts!VRemoveBlocked(s) PROVE VirtInv'
    <2>1. ~ torn
      BY <1>4 DEF Virts!VRemoveBlocked
    <2>2. PICK q, f : VirtLists(vs_next, vs_prev, virtSemd_h, virtSemdFree_h, q, f)
      BY <2>1 DEF VirtInv
    <2>3. CASE Virts!RemoveOnly(s)
      BY <2>2, <2>3, VirtRemoveOnly
    <2>4. CASE Virts!RemoveHead(s)
      BY <2>4 DEF Virts!RemoveHead, VirtInv
    <2>5. CASE Virts!RemoveInner(s)
      BY <2>2, <2>5, VirtRemoveInner
    <2>6. CASE Virts!NotFound
      BY <1>1, <2>6 DEF Virts!NotFound, Virts!links, Virts!heads
    <2> QED
      BY <1>4, <2>3, <2>4, <2>5, <2>6 DEF Virts!VRemoveBlocked
  <1> QED
    BY <1>2, <1>3, <1>4 DEF Virts!Next

(* Both links agree along a circle.                                        *)
LEMMA VirtWoven == VirtInv => Virts!Woven
  <1> SUFFICES ASSUME VirtInv, ~ torn PROVE Virts!Woven
    BY DEF Virts!Woven
  <1>1. PICK q, f : VirtLists(vs_next, vs_prev, virtSemd_h, virtSemdFree_h, q, f)
    BY DEF VirtInv
  <1>2. Ring(VNode, vs_next, vs_prev, q)
        /\ Range(q) \cap Range(f) = {} /\ Range(q) \cup Range(f) = VNode
    BY <1>1 DEF VirtLists
  <1>3. Virts!Active = Range(q) /\ Virts!Free = Range(f)
    BY <1>1, VirtCircle
  <1>4. \A n \in Range(q) : vs_prev[vs_next[n]] = n /\ vs_next[vs_prev[n]] = n
    BY <1>2, RingAgrees
  <1> QED
    BY <1>2, <1>3, <1>4 DEF Virts!Woven, VNode

--------------------------------------------------------------------------
(* The process tree.                                                       *)

(* c gives the children of every process, newest first.                    *)
TreeLists(prnt, child, next, prev, c) ==
  /\ prnt \in [Family -> Family \cup {Nil}] /\ child \in [Family -> Family \cup {Nil}]
  /\ next \in [Family -> Family \cup {Nil}] /\ prev \in [Family -> Family \cup {Nil}]
  /\ \A p \in Family : /\ Twined(Family, prev, next, c[p], Nil, Nil)
                       /\ child[p] = First(c[p], Nil)
                       /\ \A x \in Family : x \in Range(c[p]) <=> prnt[x] = p
  /\ \A x \in Family : prnt[x] = Nil => next[x] = Nil /\ prev[x] = Nil

TreeInv == \E c : TreeLists(p_prnt, p_child, p_nextSib, p_prevSib, c)

(* The process blocks.                                                     *)
LEMMA TreeTable == IsFiniteSet(Family) /\ Nil \notin Family
  BY ListsAssumption DEF Tree!ProcTreeAssumption, Tree!IsFiniteSet, IsFiniteSet

(* No process has a child at first.                                        *)
LEMMA TreeInit == Tree!Init => TreeInv
  <1> SUFFICES ASSUME Tree!Init PROVE TreeInv
    OBVIOUS
  <1> DEFINE none == [p \in Family |-> Nil]
             c == [p \in Family |-> <<>>]
  <1>1. p_prnt = none /\ p_child = none /\ p_nextSib = none /\ p_prevSib = none
    BY DEF Tree!Init, Tree!Nowhere
  <1>2. ASSUME NEW p \in Family
        PROVE  /\ Twined(Family, none, none, c[p], Nil, Nil) /\ none[p] = First(c[p], Nil)
               /\ \A x \in Family : x \in Range(c[p]) <=> none[x] = p
    <2>1. c[p] = <<>> /\ Range(<<>>) = {} /\ IsInjective(<<>>)
      BY EmptyQueue
    <2>2. First(<<>>, Nil) = Nil /\ none[p] = Nil
      BY DEF First
    <2>3. Twined(Family, none, none, <<>>, Nil, Nil)
      BY <2>1 DEF Twined
    <2> QED
      BY <2>1, <2>2, <2>3, TreeTable
  <1>3. TreeLists(none, none, none, none, c)
    BY <1>2 DEF TreeLists
  <1> HIDE DEF none, c
  <1> QED
    BY <1>1, <1>3 DEF TreeInv

(* A new process becomes the newest child of another.                      *)
LEMMA TreeInsert ==
  ASSUME TreeInv, NEW o \in Family, NEW p \in Family, Tree!InsertChild(o, p)
  PROVE  TreeInv'
  <1>1. PICK c : TreeLists(p_prnt, p_child, p_nextSib, p_prevSib, c)
    BY DEF TreeInv
  <1>2. /\ p_prnt \in [Family -> Family \cup {Nil}] /\ p_child \in [Family -> Family \cup {Nil}]
        /\ p_nextSib \in [Family -> Family \cup {Nil}]
        /\ p_prevSib \in [Family -> Family \cup {Nil}]
        /\ \A x \in Family : p_prnt[x] = Nil => p_nextSib[x] = Nil /\ p_prevSib[x] = Nil
        /\ Nil \notin Family
    BY <1>1, TreeTable DEF TreeLists
  <1>3. ASSUME NEW r \in Family
        PROVE  /\ Twined(Family, p_prevSib, p_nextSib, c[r], Nil, Nil)
               /\ p_child[r] = First(c[r], Nil)
               /\ \A x \in Family : x \in Range(c[r]) <=> p_prnt[x] = r
               /\ Range(c[r]) \subseteq Family
               /\ c[r] # <<>> => p_child[r] = c[r][1] /\ p_child[r] \in Range(c[r])
               /\ c[r] = <<>> => p_child[r] = Nil
    <2>1. /\ Twined(Family, p_prevSib, p_nextSib, c[r], Nil, Nil)
          /\ p_child[r] = First(c[r], Nil)
          /\ \A x \in Family : x \in Range(c[r]) <=> p_prnt[x] = r
      BY <1>1 DEF TreeLists
    <2>2. Spells(Family, p_prevSib, c[r], Nil)
      BY <2>1, TwinedSpells
    <2> QED
      BY <1>2, <2>1, <2>2, FirstOf
  <1>4. /\ p_prnt[p] = Nil /\ p_child[p] = Nil
        /\ p_child' = [p_child EXCEPT ![o] = p] /\ p_prnt' = [p_prnt EXCEPT ![p] = o]
        /\ p_prevSib' = [p_prevSib EXCEPT ![p] = p_child[o]]
        /\ p_child[o] = Nil => p_nextSib' = [p_nextSib EXCEPT ![p] = Nil]
        /\ p_child[o] # Nil => p_nextSib' = [p_nextSib EXCEPT ![p_child[o]] = p, ![p] = Nil]
    BY DEF Tree!InsertChild
  <1>5. ASSUME NEW r \in Family PROVE p \notin Range(c[r])
    BY <1>2, <1>3, <1>4
  <1>6. /\ \A x \in Family : p_prevSib'[x] = IF x = p THEN p_child[o] ELSE p_prevSib[x]
        /\ \A x \in Family : p_nextSib'[x] = IF x = p THEN Nil
                                             ELSE IF x = p_child[o] THEN p ELSE p_nextSib[x]
        /\ \A x \in Family : p_prnt'[x] = IF x = p THEN o ELSE p_prnt[x]
        /\ \A x \in Family : p_child'[x] = IF x = o THEN p ELSE p_child[x]
        /\ p_prnt' \in [Family -> Family \cup {Nil}] /\ p_child' \in [Family -> Family \cup {Nil}]
        /\ p_nextSib' \in [Family -> Family \cup {Nil}]
        /\ p_prevSib' \in [Family -> Family \cup {Nil}]
    BY <1>2, <1>4
  <1> DEFINE b == InsertAt(c[o], 1, p)
             d == [r \in Family |-> IF r = o THEN b ELSE c[r]]
  <1>7. /\ Twined(Family, p_prevSib', p_nextSib', b, Nil, Nil)
        /\ Range(b) = Range(c[o]) \cup {p} /\ First(b, Nil) = p
    <2>1. /\ Twined(Family, p_prevSib, p_nextSib, c[o], Nil, Nil) /\ p \notin Range(c[o])
          /\ p_prevSib'[p] = First(c[o], Nil) /\ p_nextSib'[p] = Nil
      BY <1>3, <1>5, <1>6
    <2>2. \A y \in Range(c[o]) :
             /\ p_prevSib'[y] = p_prevSib[y]
             /\ p_nextSib'[y] = IF y = c[o][1] THEN p ELSE p_nextSib[y]
      <3>1. ASSUME NEW y \in Range(c[o]) PROVE y \in Family /\ y # p /\ c[o] # <<>>
        BY <1>3, <1>5, EmptyQueue
      <3> QED
        BY <1>3, <1>6, <3>1
    <2> QED
      BY <2>1, <2>2, TwinedFront
  <1> HIDE DEF b
  <1>8. ASSUME NEW r \in Family
        PROVE  /\ Twined(Family, p_prevSib', p_nextSib', d[r], Nil, Nil)
               /\ p_child'[r] = First(d[r], Nil)
               /\ \A x \in Family : x \in Range(d[r]) <=> p_prnt'[x] = r
    <2>1. CASE r = o
      <3>1. d[r] = b
        BY <2>1
      <3> HIDE DEF d
      <3> QED
        BY <1>3, <1>6, <1>7, <2>1, <3>1
    <2>2. CASE r # o
      <3>1. d[r] = c[r]
        BY <2>2
      <3> HIDE DEF d
      <3>2. ASSUME NEW x \in Range(c[r]) PROVE x \in Family /\ x # p /\ x # p_child[o]
        <4>1. x \in Family /\ x # p /\ p_prnt[x] = r
          BY <1>3, <1>5
        <4>2. x \notin Range(c[o])
          BY <1>3, <2>2, <4>1
        <4> QED
          BY <1>2, <1>3, <4>1, <4>2
      <3>3. Twined(Family, p_prevSib', p_nextSib', c[r], Nil, Nil)
        BY <1>3, <1>6, <3>2, TwinedKept
      <3> QED
        BY <1>3, <1>5, <1>6, <2>2, <3>1, <3>3
    <2> QED
      BY <2>1, <2>2
  <1>9. \A x \in Family : p_prnt'[x] = Nil => p_nextSib'[x] = Nil /\ p_prevSib'[x] = Nil
    <2> SUFFICES ASSUME NEW x \in Family, p_prnt'[x] = Nil
                 PROVE  p_nextSib'[x] = Nil /\ p_prevSib'[x] = Nil
      OBVIOUS
    <2>1. x # p /\ p_prnt[x] = Nil
      BY <1>2, <1>6
    <2>2. x # p_child[o]
      BY <1>2, <1>3, <2>1
    <2> QED
      BY <1>2, <1>6, <2>1, <2>2
  <1> HIDE DEF d
  <1>10. TreeLists(p_prnt', p_child', p_nextSib', p_prevSib', d)
    BY <1>6, <1>8, <1>9 DEF TreeLists
  <1> QED
    BY <1>10 DEF TreeInv

(* outChild links the two neighbours of a child to each other.             *)
LEMMA TreeBypassed ==
  ASSUME NEW q, NEW k \in 1..Len(q), Twined(Family, p_prevSib, p_nextSib, q, Nil, Nil),
         Bypassed(Range(q), q[k], p_prevSib, p_nextSib, p_prevSib', p_nextSib')
  PROVE  /\ Twined(Family, p_prevSib', p_nextSib', RemoveAt(q, k), Nil, Nil)
         /\ Range(RemoveAt(q, k)) = Range(q) \ {q[k]}
         /\ First(RemoveAt(q, k), Nil) = IF k = 1 THEN p_prevSib[q[1]] ELSE q[1]
  <1>1. Nil \notin Family
    BY TreeTable
  <1> QED
    BY <1>1, TwinedLeave

(* The k-th child of o leaves: its siblings are linked to each other, and  *)
(* o points to the newest child that is left.                              *)
LEMMA TreeLeave ==
  ASSUME NEW c, TreeLists(p_prnt, p_child, p_nextSib, p_prevSib, c),
         NEW o \in Family, NEW p \in Range(c[o]),
         p_prnt' = [p_prnt EXCEPT ![p] = Nil],
         p_child' = IF p = p_child[o] THEN [p_child EXCEPT ![o] = p_prevSib[p]] ELSE p_child,
         p_nextSib' \in [Family -> Family \cup {Nil}],
         p_prevSib' \in [Family -> Family \cup {Nil}],
         p_nextSib'[p] = Nil, p_prevSib'[p] = Nil,
         Bypassed(Family, p, p_prevSib, p_nextSib, p_prevSib', p_nextSib')
  PROVE  TreeInv'
  <1>1. /\ p_prnt \in [Family -> Family \cup {Nil}] /\ p_child \in [Family -> Family \cup {Nil}]
        /\ p_nextSib \in [Family -> Family \cup {Nil}]
        /\ p_prevSib \in [Family -> Family \cup {Nil}]
        /\ \A x \in Family : p_prnt[x] = Nil => p_nextSib[x] = Nil /\ p_prevSib[x] = Nil
        /\ Nil \notin Family
    BY TreeTable DEF TreeLists
  <1>2. ASSUME NEW r \in Family
        PROVE  /\ Twined(Family, p_prevSib, p_nextSib, c[r], Nil, Nil)
               /\ p_child[r] = First(c[r], Nil)
               /\ \A x \in Family : x \in Range(c[r]) <=> p_prnt[x] = r
               /\ Range(c[r]) \subseteq Family
    <2>1. /\ Twined(Family, p_prevSib, p_nextSib, c[r], Nil, Nil)
          /\ p_child[r] = First(c[r], Nil)
          /\ \A x \in Family : x \in Range(c[r]) <=> p_prnt[x] = r
      BY DEF TreeLists
    <2>2. Spells(Family, p_prevSib, c[r], Nil)
      BY <2>1, TwinedSpells
    <2> QED
      BY <1>1, <2>1, <2>2, FirstOf
  <1>0. \A y \in Family \ {p} :
           /\ p_prevSib'[y] = IF y = p_nextSib[p] THEN p_prevSib[p] ELSE p_prevSib[y]
           /\ p_nextSib'[y] = IF y = p_prevSib[p] THEN p_nextSib[p] ELSE p_nextSib[y]
    BY DEF Bypassed
  <1>3. PICK k \in 1..Len(c[o]) : p = c[o][k]
    <2>1. c[o] \in Seq(Family) /\ IsInjective(c[o])
      BY <1>2 DEF Twined
    <2> QED
      BY <2>1, Positions
  <1>4. /\ p \in Family /\ p_prnt[p] = o
        /\ p_prevSib[p] # Nil => p_prevSib[p] \in Range(c[o])
        /\ p_nextSib[p] # Nil => p_nextSib[p] \in Range(c[o])
        /\ 1 \in 1..Len(c[o]) /\ c[o][1] = p_child[o]
    <2>1. Twined(Family, p_prevSib, p_nextSib, c[o], Nil, Nil) /\ p \in Family /\ p_prnt[p] = o
      BY <1>2
    <2>2. /\ p_prevSib[p] # Nil => p_prevSib[p] \in Range(c[o])
          /\ p_nextSib[p] # Nil => p_nextSib[p] \in Range(c[o])
      BY <1>1, <2>1, TwinedAgrees
    <2>3. 1 \in 1..Len(c[o]) /\ c[o] # <<>>
      BY <1>3, <2>1 DEF Twined
    <2> QED
      BY <1>2, <2>1, <2>2, <2>3 DEF First
  <1>5. p = p_child[o] <=> k = 1
    BY <1>2, <1>3, <1>4, Positions DEF Twined
  <1> DEFINE b == RemoveAt(c[o], k)
             d == [r \in Family |-> IF r = o THEN b ELSE c[r]]
  <1>6. /\ Twined(Family, p_prevSib', p_nextSib', b, Nil, Nil)
        /\ Range(b) = Range(c[o]) \ {p}
        /\ First(b, Nil) = IF k = 1 THEN p_prevSib[c[o][1]] ELSE c[o][1]
    <2>1. Twined(Family, p_prevSib, p_nextSib, c[o], Nil, Nil)
      BY <1>2
    <2>3. Bypassed(Range(c[o]), c[o][k], p_prevSib, p_nextSib, p_prevSib', p_nextSib')
      BY <1>2, <1>3 DEF Bypassed
    <2>4. /\ Twined(Family, p_prevSib', p_nextSib', b, Nil, Nil)
          /\ Range(b) = Range(c[o]) \ {c[o][k]}
          /\ First(b, Nil) = IF k = 1 THEN p_prevSib[c[o][1]] ELSE c[o][1]
      BY <2>1, <2>3, TreeBypassed
    <2> QED
      BY <1>3, <2>4
  <1> HIDE DEF b
  <1>7. /\ \A x \in Family : p_prnt'[x] = IF x = p THEN Nil ELSE p_prnt[x]
        /\ \A x \in Family : p_child'[x] = IF x = o THEN First(b, Nil) ELSE p_child[x]
        /\ p_prnt' \in [Family -> Family \cup {Nil}] /\ p_child' \in [Family -> Family \cup {Nil}]
    <2>1. \A x \in Family : p_prnt'[x] = IF x = p THEN Nil ELSE p_prnt[x]
      BY <1>1
    <2>2. \A x \in Family : p_child'[x] = IF x = o THEN First(b, Nil) ELSE p_child[x]
      BY <1>1, <1>3, <1>4, <1>5, <1>6
    <2>3. p_prnt' \in [Family -> Family \cup {Nil}] /\ p_child' \in [Family -> Family \cup {Nil}]
      BY <1>1, <1>4
    <2> QED
      BY <2>1, <2>2, <2>3
  <1>8. ASSUME NEW r \in Family
        PROVE  /\ Twined(Family, p_prevSib', p_nextSib', d[r], Nil, Nil)
               /\ p_child'[r] = First(d[r], Nil)
               /\ \A x \in Family : x \in Range(d[r]) <=> p_prnt'[x] = r
    <2>1. CASE r = o
      <3>1. d[r] = b
        BY <2>1
      <3> HIDE DEF d
      <3>2. \A x \in Family : x \in Range(b) <=> p_prnt'[x] = o
        BY <1>1, <1>2, <1>6, <1>7
      <3> QED
        BY <1>6, <1>7, <2>1, <3>1, <3>2
    <2>2. CASE r # o
      <3>1. d[r] = c[r]
        BY <2>2
      <3> HIDE DEF d
      <3>2. ASSUME NEW x \in Range(c[r])
            PROVE  x \in Family \ {p} /\ x # p_prevSib[p] /\ x # p_nextSib[p]
        <4>1. x \in Family /\ p_prnt[x] = r /\ x # Nil
          BY <1>1, <1>2
        <4>2. x \notin Range(c[o])
          BY <1>2, <2>2, <4>1
        <4> QED
          BY <1>4, <4>1, <4>2
      <3>3. Twined(Family, p_prevSib', p_nextSib', c[r], Nil, Nil)
        <4>1. \A x \in Range(c[r]) : p_prevSib'[x] = p_prevSib[x] /\ p_nextSib'[x] = p_nextSib[x]
          BY <1>0, <3>2
        <4> QED
          BY <1>2, <4>1, TwinedKept
      <3>4. \A x \in Family : x \in Range(c[r]) <=> p_prnt'[x] = r
        BY <1>1, <1>2, <1>4, <1>7, <2>2
      <3> QED
        BY <1>2, <1>7, <2>2, <3>1, <3>3, <3>4
    <2> QED
      BY <2>1, <2>2
  <1>9. \A x \in Family : p_prnt'[x] = Nil => p_nextSib'[x] = Nil /\ p_prevSib'[x] = Nil
    <2> SUFFICES ASSUME NEW x \in Family, p_prnt'[x] = Nil, x # p
                 PROVE  p_nextSib'[x] = Nil /\ p_prevSib'[x] = Nil
      OBVIOUS
    <2>1. p_prnt[x] = Nil /\ x # Nil
      BY <1>1, <1>7
    <2>2. x \notin Range(c[o])
      BY <1>1, <1>2, <2>1
    <2>3. x # p_nextSib[p] /\ x # p_prevSib[p]
      BY <1>4, <2>1, <2>2
    <2> QED
      BY <1>0, <1>1, <2>1, <2>3
  <1> HIDE DEF d
  <1>10. TreeLists(p_prnt', p_child', p_nextSib', p_prevSib', d)
    BY <1>7, <1>8, <1>9 DEF TreeLists
  <1> QED
    BY <1>10 DEF TreeInv

(* What the invariant says of a child p of o.                              *)
LEMMA TreeChild ==
  ASSUME NEW c, TreeLists(p_prnt, p_child, p_nextSib, p_prevSib, c),
         NEW o \in Family, NEW p \in Range(c[o])
  PROVE  /\ p \in Family /\ p_prnt[p] = o
         /\ p_prevSib[p] # Nil => p_prevSib[p] \in Range(c[o]) /\ p_nextSib[p_prevSib[p]] = p
         /\ p_nextSib[p] # Nil => p_nextSib[p] \in Range(c[o]) /\ p_prevSib[p_nextSib[p]] = p
         /\ p_prevSib[p] # p /\ p_nextSib[p] # p
         /\ p_child[o] \in Range(c[o]) /\ p_nextSib[p_child[o]] = Nil
         /\ p = p_child[o] <=> p_nextSib[p] = Nil
  <1>1. /\ Twined(Family, p_prevSib, p_nextSib, c[o], Nil, Nil)
        /\ p_child[o] = First(c[o], Nil)
        /\ \A x \in Family : x \in Range(c[o]) <=> p_prnt[x] = o
    BY DEF TreeLists
  <1>2. Nil \notin Family
    BY TreeTable
  <1>3. /\ p \in Family
        /\ p_prevSib[p] # Nil => p_prevSib[p] \in Range(c[o]) /\ p_nextSib[p_prevSib[p]] = p
        /\ p_nextSib[p] # Nil => p_nextSib[p] \in Range(c[o]) /\ p_prevSib[p_nextSib[p]] = p
        /\ p_prevSib[p] # p /\ p_nextSib[p] # p
        /\ First(c[o], Nil) \in Range(c[o]) /\ p_nextSib[First(c[o], Nil)] = Nil
        /\ p = First(c[o], Nil) <=> p_nextSib[p] = Nil
    BY <1>1, <1>2, TwinedAgrees
  <1> QED
    BY <1>1, <1>3

(* removeChild.                                                            *)
LEMMA TreeRemove ==
  ASSUME TreeInv, NEW o \in Family, Tree!RemoveChild(o)
  PROVE  TreeInv'
  <1>1. PICK c : TreeLists(p_prnt, p_child, p_nextSib, p_prevSib, c)
    BY DEF TreeInv
  <1>2. CASE UNCHANGED <<p_prnt, p_child, p_nextSib, p_prevSib>>
    BY <1>1, <1>2 DEF TreeInv
  <1> DEFINE p == p_child[o]
  <1>3. CASE p # Nil
    <2>1. /\ p_prnt' = [p_prnt EXCEPT ![p] = Nil]
          /\ p_child' = [p_child EXCEPT ![o] = p_prevSib[p]]
          /\ p_prevSib[p] = Nil => p_nextSib' = p_nextSib /\ p_prevSib' = p_prevSib
          /\ p_prevSib[p] # Nil => /\ p_nextSib' = [p_nextSib EXCEPT ![p_prevSib[p]] = Nil]
                                   /\ p_prevSib' = [p_prevSib EXCEPT ![p] = Nil]
      BY <1>3 DEF Tree!RemoveChild
    <2>2. p \in Range(c[o])
      <3>1. Twined(Family, p_prevSib, p_nextSib, c[o], Nil, Nil) /\ p_child[o] = First(c[o], Nil)
        BY <1>1 DEF TreeLists
      <3>2. Spells(Family, p_prevSib, c[o], Nil)
        BY <3>1, TwinedSpells
      <3> QED
        BY <1>3, <3>1, <3>2, TreeTable, FirstOf
    <2>3. /\ p \in Family /\ p_nextSib[p] = Nil /\ p_prevSib[p] # p
          /\ p_prevSib[p] # Nil => p_prevSib[p] \in Range(c[o])
      BY <1>1, <2>2, TreeChild
    <2>4. /\ p_nextSib \in [Family -> Family \cup {Nil}]
          /\ p_prevSib \in [Family -> Family \cup {Nil}] /\ Nil \notin Family
      BY <1>1, TreeTable DEF TreeLists
    <2>5. p_child' = IF p = p_child[o] THEN [p_child EXCEPT ![o] = p_prevSib[p]] ELSE p_child
      BY <2>1
    <2> HIDE DEF p
    <2>6. /\ p_nextSib' \in [Family -> Family \cup {Nil}]
          /\ p_prevSib' \in [Family -> Family \cup {Nil}]
          /\ p_nextSib'[p] = Nil /\ p_prevSib'[p] = Nil
      BY <2>1, <2>3, <2>4
    <2>7. Bypassed(Family, p, p_prevSib, p_nextSib, p_prevSib', p_nextSib')
      BY <2>1, <2>3, <2>4 DEF Bypassed
    <2> QED
      BY <1>1, <2>1, <2>2, <2>5, <2>6, <2>7, TreeLeave
  <1> QED
    BY <1>2, <1>3 DEF Tree!RemoveChild, Tree!links

(* outChild.                                                               *)
LEMMA TreeOut ==
  ASSUME TreeInv, NEW p \in Family, Tree!OutChild(p)
  PROVE  TreeInv'
  <1>1. PICK c : TreeLists(p_prnt, p_child, p_nextSib, p_prevSib, c)
    BY DEF TreeInv
  <1>2. /\ p_nextSib \in [Family -> Family \cup {Nil}]
        /\ p_prevSib \in [Family -> Family \cup {Nil}] /\ Nil \notin Family
        /\ p_prnt \in [Family -> Family \cup {Nil}]
    BY <1>1, TreeTable DEF TreeLists
  <1>3. CASE p_prnt[p] = Nil
    <2>1. UNCHANGED <<p_prnt, p_child, p_nextSib, p_prevSib>>
      BY <1>3 DEF Tree!OutChild, Tree!links
    <2> QED
      BY <1>1, <2>1 DEF TreeInv
  <1> DEFINE o == p_prnt[p]
  <1>4. CASE o # Nil /\ p = p_child[o]
    <2>1. Tree!RemoveChild(o) /\ o \in Family
      BY <1>2, <1>4 DEF Tree!OutChild
    <2> HIDE DEF o
    <2> QED
      BY <2>1, TreeRemove
  <1>5. CASE o # Nil /\ p # p_child[o]
    <2>1. Tree!Unhook(p) /\ p_prnt' = [p_prnt EXCEPT ![p] = Nil] /\ p_child' = p_child
      BY <1>5 DEF Tree!OutChild
    <2>2. o \in Family /\ p \in Range(c[o])
      BY <1>1, <1>2, <1>5 DEF TreeLists
    <2> HIDE DEF o
    <2>3. /\ p_nextSib[p] # Nil /\ p_nextSib[p] \in Range(c[o]) /\ p_nextSib[p] # p
          /\ p_prevSib[p] # Nil => p_prevSib[p] \in Range(c[o])
          /\ p_prevSib[p] # p
      BY <1>1, <1>5, <2>2, TreeChild
    <2>4. p_nextSib[p] \in Family
      BY <1>2, <2>3
    <2>5. /\ p_prevSib[p] = Nil => /\ p_prevSib' = [p_prevSib EXCEPT ![p_nextSib[p]] = Nil]
                                   /\ p_nextSib' = [p_nextSib EXCEPT ![p] = Nil]
          /\ p_prevSib[p] # Nil =>
               /\ p_prevSib' = [p_prevSib EXCEPT ![p_nextSib[p]] = p_prevSib[p], ![p] = Nil]
               /\ p_nextSib' = [p_nextSib EXCEPT ![p_prevSib[p]] = p_nextSib[p], ![p] = Nil]
      BY <2>1 DEF Tree!Unhook
    <2>6. /\ p_nextSib' \in [Family -> Family \cup {Nil}]
          /\ p_prevSib' \in [Family -> Family \cup {Nil}]
          /\ p_nextSib'[p] = Nil /\ p_prevSib'[p] = Nil
      BY <1>2, <2>3, <2>4, <2>5
    <2>7. Bypassed(Family, p, p_prevSib, p_nextSib, p_prevSib', p_nextSib')
      BY <1>2, <2>3, <2>4, <2>5 DEF Bypassed
    <2>8. p_child' = IF p = p_child[o] THEN [p_child EXCEPT ![o] = p_prevSib[p]] ELSE p_child
      BY <1>5, <2>1
    <2> QED
      BY <1>1, <2>1, <2>2, <2>6, <2>7, <2>8, TreeLeave
  <1> QED
    BY <1>3, <1>4, <1>5

(* Every call on the process tree.                                         *)
LEMMA TreeStepKeeps == TreeInv /\ [Tree!Next]_tree => TreeInv'
  <1> SUFFICES ASSUME TreeInv, [Tree!Next]_tree PROVE TreeInv'
    OBVIOUS
  <1>1. CASE UNCHANGED tree
    BY <1>1 DEF TreeInv, tree
  <1>2. CASE Tree!Next
    <2>1. PICK p \in Family : \/ Tree!RemoveChild(p) \/ Tree!OutChild(p)
                              \/ \E q \in Family \ {p} : Tree!InsertChild(p, q)
      BY <1>2 DEF Tree!Next
    <2> QED
      BY <2>1, TreeRemove, TreeOut, TreeInsert
  <1> QED
    BY <1>1, <1>2

(* What Siblings says of the links follows from the lists of children.     *)
LEMMA TreeSiblings == TreeInv => Tree!Siblings
  <1> SUFFICES ASSUME TreeInv PROVE Tree!Siblings
    OBVIOUS
  <1>1. PICK c : TreeLists(p_prnt, p_child, p_nextSib, p_prevSib, c)
    BY DEF TreeInv
  <1>2. /\ p_nextSib \in [Family -> Family \cup {Nil}]
        /\ p_prevSib \in [Family -> Family \cup {Nil}] /\ Nil \notin Family
        /\ p_prnt \in [Family -> Family \cup {Nil}]
        /\ \A x \in Family : p_prnt[x] = Nil => p_nextSib[x] = Nil /\ p_prevSib[x] = Nil
    BY <1>1, TreeTable DEF TreeLists
  <1>3. ASSUME NEW o \in Family
        PROVE  /\ Twined(Family, p_prevSib, p_nextSib, c[o], Nil, Nil)
               /\ p_child[o] = First(c[o], Nil)
               /\ \A x \in Family : x \in Range(c[o]) <=> p_prnt[x] = o
               /\ Spells(Family, p_prevSib, c[o], Nil)
    <2>1. /\ Twined(Family, p_prevSib, p_nextSib, c[o], Nil, Nil)
          /\ p_child[o] = First(c[o], Nil)
          /\ \A x \in Family : x \in Range(c[o]) <=> p_prnt[x] = o
      BY <1>1 DEF TreeLists
    <2> QED
      BY <2>1, TwinedSpells
  <1>4. ASSUME NEW p \in Family
        PROVE  /\ p_prevSib[p] # Nil => p_nextSib[p_prevSib[p]] = p
               /\ p_nextSib[p] # Nil => p_prevSib[p_nextSib[p]] = p
    <2>1. CASE p_prnt[p] = Nil
      BY <1>2, <2>1
    <2>2. CASE p_prnt[p] # Nil
      <3> DEFINE o == p_prnt[p]
      <3>1. o \in Family /\ p \in Range(c[o])
        BY <1>2, <1>3, <2>2
      <3> HIDE DEF o
      <3> QED
        BY <1>1, <3>1, TreeChild
    <2> QED
      BY <2>1, <2>2
  <1>5. ASSUME NEW p \in Family, p_child[p] # Nil PROVE p_nextSib[p_child[p]] = Nil
    <2>1. p_child[p] \in Range(c[p])
      BY <1>2, <1>3, <1>5, FirstOf
    <2> QED
      BY <1>1, <2>1, TreeChild
  <1>6. ASSUME NEW p \in Family PROVE Tree!Offspring(p) = c[p]
    <2>1. IsFiniteSet(Family) /\ Cardinality(Family) \in Nat
      BY TreeTable, FS_CardinalityType
    <2>2. Len(c[p]) <= Cardinality(Family)
      BY <1>3, <2>1, NoLonger DEF Spells
    <2>3. Linked(p_prevSib, First(c[p], Nil), Nil, Cardinality(Family)) = c[p]
      <3>1. Spells(Family, p_prevSib, c[p], Nil)
        BY <1>3
      <3> QED
        BY <1>2, <2>1, <2>2, <3>1, LinkedSpells
    <2>4. Tree!Cardinality(Family) = Cardinality(Family)
      BY DEF Tree!Cardinality, Cardinality
    <2>5. Tree!Offspring(p) = Linked(p_prevSib, p_child[p], Nil, Tree!Cardinality(Family))
      BY DEF Tree!Offspring, Tree!Linked, Linked, Tree!Walk, Walk
    <2> QED
      BY <1>3, <2>3, <2>4, <2>5
  <1>7. ASSUME NEW p \in Family, NEW x \in Family
        PROVE  x \in Tree!Range(Tree!Offspring(p)) <=> p_prnt[x] = p
    <2>1. Tree!Range(Tree!Offspring(p)) = Range(c[p])
      BY <1>6 DEF Tree!Range, Range
    <2> QED
      BY <1>3, <2>1
  <1>8. \A p, q \in Family : p_nextSib[p] = q <=> p_prevSib[q] = p
    BY <1>2, <1>4
  <1> QED
    BY <1>2, <1>5, <1>7, <1>8 DEF Tree!Siblings

--------------------------------------------------------------------------
(* The process queues.                                                     *)

(* c gives the blocks of every queue, the head first.                      *)
QueueLists(next, prev, tail, c) ==
  /\ next \in [Blocks -> Blocks \cup {Nil}] /\ prev \in [Blocks -> Blocks \cup {Nil}]
  /\ tail \in [Queue -> Blocks \cup {Nil}]
  /\ \A p \in Blocks : next[p] = Nil <=> prev[p] = Nil
  /\ \A q \in Queue : Ring(Blocks, next, prev, c[q]) /\ tail[q] = TailOf(c[q], Nil)
  /\ \A q, r \in Queue : q # r => Range(c[q]) \cap Range(c[r]) = {}

Queued == \E c : QueueLists(p_next, p_prev, tp, c)

QueueInv == q_ret \in Blocks \cup {Nil} /\ Queued

(* Of what was c, queue q has become b.                                    *)
QueueBecomes(c, q, b) ==
  QueueLists(p_next', p_prev', tp', [s \in Queue |-> IF s = q THEN b ELSE c[s]])

(* The k-th block p of queue q has left it.                                *)
QueueLeft(c, q, k, p) == p = c[q][k] /\ QueueBecomes(c, q, RemoveAt(c[q], k))

(* The process blocks.                                                     *)
LEMMA QueueTable ==
  /\ IsFiniteSet(Blocks) /\ Nil \notin Blocks /\ pcbList_h \in Queue
  /\ Queues!MAXPROC = Cardinality(Blocks) /\ Cardinality(Blocks) \in Nat \ {0}
  <1>1. IsFiniteSet(Blocks) /\ Nil \notin Blocks /\ pcbList_h \in Queue /\ Blocks # {}
    BY ListsAssumption DEF Queues!ProcQAssumption, Queues!IsFiniteSet, IsFiniteSet
  <1>2. Queues!MAXPROC = Cardinality(Blocks)
    BY DEF Queues!MAXPROC, Queues!Cardinality, Cardinality
  <1>3. Cardinality(Blocks) \in Nat \ {0}
    BY <1>1, FS_CardinalityType, FS_EmptySet
  <1> QED
    BY <1>1, <1>2, <1>3

(* What the invariant says of a queue.                                     *)
LEMMA QueueFacts ==
  ASSUME NEW next, NEW prev, NEW tail, NEW c, QueueLists(next, prev, tail, c), NEW q \in Queue
  PROVE  /\ Ring(Blocks, next, prev, c[q]) /\ c[q] \in Seq(Blocks) /\ Len(c[q]) \in Nat
         /\ Range(c[q]) \subseteq Blocks
         /\ tail[q] = Nil <=> c[q] = <<>>
         /\ c[q] # <<>> => tail[q] = c[q][Len(c[q])]
         /\ \A x \in Range(c[q]) : /\ next[x] \in Range(c[q]) /\ prev[x] \in Range(c[q])
                                   /\ prev[next[x]] = x /\ next[prev[x]] = x
  <1>1. Ring(Blocks, next, prev, c[q]) /\ tail[q] = TailOf(c[q], Nil)
    BY DEF QueueLists
  <1>2. c[q] \in Seq(Blocks) /\ Len(c[q]) \in Nat
    BY <1>1 DEF Ring, Twined
  <1>3. Range(c[q]) \subseteq Blocks
    BY <1>2, MemberType
  <1>4. \A x \in Range(c[q]) : /\ next[x] \in Range(c[q]) /\ prev[x] \in Range(c[q])
                               /\ prev[next[x]] = x /\ next[prev[x]] = x
    BY <1>1, RingAgrees
  <1>5. c[q] # <<>> => c[q][Len(c[q])] # Nil
    BY <1>1, <1>3, RingEnds, QueueTable
  <1> QED
    BY <1>1, <1>2, <1>3, <1>4, <1>5 DEF TailOf

(* The loop of outProcQ passes the blocks of the queue in their order.     *)
LEMMA QueueContents ==
  ASSUME NEW c, QueueLists(p_next, p_prev, tp, c), NEW q \in Queue
  PROVE  Queues!Contents(q) = c[q] /\ Queues!Range(Queues!Contents(q)) = Range(c[q])
  <1> DEFINE N == Cardinality(Blocks)
             r == c[q]
  <1> SUFFICES Queues!Contents(q) = r
    BY DEF Queues!Range, Range
  <1>1. /\ Ring(Blocks, p_next, p_prev, r) /\ r \in Seq(Blocks) /\ Len(r) \in Nat
        /\ Range(r) \subseteq Blocks
        /\ tp[q] = Nil <=> r = <<>>
        /\ r # <<>> => tp[q] = r[Len(r)]
    BY QueueFacts
  <1>2. N \in Nat \ {0} /\ IsFiniteSet(Blocks) /\ Nil \notin Blocks /\ Queues!MAXPROC = N
    BY QueueTable
  <1>0. N = Cardinality(Blocks)
    OBVIOUS
  <1> HIDE DEF N, r
  <1> DEFINE w == Walk(p_next, p_next[tp[q]], Nil, N)
             ends == {i \in 1..N : w[i] = tp[q]}
             last == IF ends = {} THEN N ELSE Min(ends)
  <1>3. Queues!Contents(q) = IF tp[q] = Nil THEN <<>> ELSE SubSeq(w, 1, last)
    BY <1>2 DEF Queues!Contents, Queues!Walk, Walk, Queues!Min, Min
  <1>4. CASE r = <<>>
    BY <1>1, <1>3, <1>4
  <1>5. CASE r # <<>>
    <2>1. /\ Len(r) \in Nat \ {0} /\ 1 \in 1..Len(r) /\ Len(r) \in 1..Len(r)
          /\ p_next[r[Len(r)]] = r[1] /\ IsInjective(r) /\ tp[q] = r[Len(r)]
      BY <1>1, <1>5, RingEnds
    <2>2. Spells(Blocks, p_next, r, r[1])
      BY <1>1, TwinedSpells DEF Ring
    <2>3. Len(r) <= N
      BY <1>0, <1>1, <1>2, <2>1, NoLonger
    <2>4. ASSUME NEW i \in 1..Len(r) PROVE w[i] = r[i]
      <3>1. i <= N
        BY <1>2, <2>1, <2>3
      <3>2. Walk(p_next, r[1], Nil, N)[i] = r[i]
        BY <1>2, <1>5, <2>2, <3>1, WalkSpells
      <3> QED
        BY <2>1, <3>2
    <2> HIDE DEF w
    <2>5. \A i, j \in 1..Len(r) : r[i] = r[j] => i = j
      BY <1>1, <2>1, Positions
    <2>6. Len(r) \in ends /\ \A i \in ends : Len(r) <= i
      <3>1. Len(r) \in 1..N
        BY <1>2, <2>1, <2>3
      <3>2. ASSUME NEW i \in ends PROVE Len(r) <= i
        <4>1. i \in 1..N /\ w[i] = r[Len(r)]
          BY <2>1
        <4>2. CASE i \in 1..Len(r)
          BY <2>1, <2>4, <2>5, <4>1, <4>2
        <4>3. CASE i \notin 1..Len(r)
          BY <2>1, <4>1, <4>3
        <4> QED
          BY <4>2, <4>3
      <3> QED
        BY <2>1, <2>4, <3>1, <3>2
    <2>7. Min(ends) = Len(r) /\ ends # {}
      <3>1. ends \in SUBSET Nat /\ ends # {}
        BY <2>6
      <3> HIDE DEF ends
      <3>2. Min(ends) \in ends /\ \A m \in ends : Min(ends) <= m
        BY <3>1, LeastPosition
      <3>3. Min(ends) \in Nat /\ Min(ends) <= Len(r) /\ Len(r) <= Min(ends)
        BY <2>6, <3>1, <3>2
      <3> QED
        BY <2>1, <3>1, <3>3
    <2> HIDE DEF ends
    <2>8. SubSeq(w, 1, Len(r)) = r
      BY <1>1, <2>4, SubSeqIsPrefix
    <2> QED
      BY <1>3, <1>1, <1>5, <2>7, <2>8
  <1> QED
    BY <1>4, <1>5

(* initPcbs: all the blocks are in the free list.                          *)
LEMMA QueueSetUp ==
  ASSUME Queues!Init
  PROVE  /\ q_ret = Nil
         /\ \E t \in [1..Cardinality(Blocks) -> Blocks] :
              /\ IsInjective(t) /\ t \in Seq(Blocks)
              /\ QueueLists(p_next, p_prev, tp, [q \in Queue |-> IF q = pcbList_h THEN t ELSE <<>>])
  <1> DEFINE N == Queues!MAXPROC
  <1>1. N = Cardinality(Blocks) /\ N \in Nat \ {0} /\ Nil \notin Blocks /\ pcbList_h \in Queue
    BY QueueTable
  <1> DEFINE up(i) == IF i = N THEN 1 ELSE i + 1
  <1>2. PICK t \in Queues!Bijection(1..N, Blocks) :
          /\ p_next = [p \in Blocks |-> t[up(CHOOSE i \in 1..N : t[i] = p)]]
          /\ p_prev = [p \in Blocks |-> CHOOSE o \in Blocks : p_next[o] = p]
          /\ tp = [q \in Queue |-> IF q = pcbList_h THEN t[N] ELSE Nil]
          /\ q_ret = Nil
    BY DEF Queues!Init
  <1> HIDE DEF N
  <1>3. /\ t \in [1..N -> Blocks] /\ \A i, j \in 1..N : t[i] = t[j] => i = j
        /\ \A p \in Blocks : \E i \in 1..N : t[i] = p
    BY DEF Queues!Bijection, Queues!Injection, Queues!Surjection, Queues!IsInjective
  <1>4. \A i \in 1..N : /\ up(i) \in 1..N /\ (i = 1 \/ i - 1 \in 1..N)
                        /\ i # 1 => up(i - 1) = i
                        /\ up(N) = 1 /\ N \in 1..N /\ 1 \in 1..N
                        /\ \A j \in 1..N : up(i) = up(j) => i = j
    BY <1>1
  <1> HIDE DEF up
  <1>5. ASSUME NEW i \in 1..N PROVE p_next[t[i]] = t[up(i)] /\ t[i] \in Blocks
    <2>1. t[i] \in Blocks /\ (CHOOSE j \in 1..N : t[j] = t[i]) = i
      BY <1>3
    <2> QED
      BY <1>2, <2>1
  <1>6. ASSUME NEW i \in 1..N PROVE p_prev[t[up(i)]] = t[i]
    <2>1. t[up(i)] \in Blocks /\ p_next[t[i]] = t[up(i)] /\ t[i] \in Blocks
      BY <1>3, <1>4, <1>5
    <2>2. ASSUME NEW o \in Blocks, p_next[o] = t[up(i)] PROVE o = t[i]
      <3>1. PICK j \in 1..N : t[j] = o
        BY <1>3
      <3>2. t[up(j)] = t[up(i)]
        BY <1>5, <2>2, <3>1
      <3> QED
        BY <1>3, <1>4, <3>1, <3>2
    <2>3. (CHOOSE o \in Blocks : p_next[o] = t[up(i)]) = t[i]
      BY <2>1, <2>2
    <2> QED
      BY <1>2, <2>1, <2>3
  <1>7. /\ t \in Seq(Blocks) /\ Len(t) = N /\ IsInjective(t) /\ t # <<>>
    BY <1>1, <1>3 DEF IsInjective
  <1>8. Ring(Blocks, p_next, p_prev, t)
    <2>1. ASSUME NEW i \in 1..N
          PROVE  /\ p_next[t[i]] = IF i < N THEN t[i + 1] ELSE t[1]
                 /\ p_prev[t[i]] = IF i > 1 THEN t[i - 1] ELSE t[N]
      <3>1. up(i) = IF i < N THEN i + 1 ELSE 1
        BY <1>1 DEF up
      <3>2. p_next[t[i]] = IF i < N THEN t[i + 1] ELSE t[1]
        BY <1>5, <3>1
      <3>3. CASE i = 1
        BY <1>4, <1>6, <3>2, <3>3
      <3>4. CASE i # 1
        <4>1. i > 1 /\ i - 1 \in 1..N /\ up(i - 1) = i
          BY <1>4, <3>4
        <4> QED
          BY <1>6, <3>2, <4>1
      <3> QED
        BY <3>3, <3>4
    <2> QED
      BY <1>7, <2>1 DEF Ring, Twined
  <1>9. /\ p_next \in [Blocks -> Blocks \cup {Nil}] /\ p_prev \in [Blocks -> Blocks \cup {Nil}]
        /\ \A p \in Blocks : p_next[p] \in Blocks /\ p_prev[p] \in Blocks
    <2>1. ASSUME NEW p \in Blocks PROVE p_next[p] \in Blocks /\ p_prev[p] \in Blocks
      <3>1. PICK i \in 1..N : t[i] = p
        BY <1>3
      <3>2. p_next[p] \in Blocks
        BY <1>4, <1>5, <3>1
      <3>3. p_prev[p] \in Blocks
        <4>1. PICK j \in 1..N : up(j) = i
          BY <1>4
        <4> QED
          BY <1>5, <1>6, <3>1, <4>1
      <3> QED
        BY <3>2, <3>3
    <2> QED
      BY <1>2, <2>1
  <1>10. tp \in [Queue -> Blocks \cup {Nil}]
    <2>1. N \in 1..N
      BY <1>1
    <2> QED
      BY <1>2, <1>3, <2>1
  <1> DEFINE c == [q \in Queue |-> IF q = pcbList_h THEN t ELSE <<>>]
  <1>11. ASSUME NEW q \in Queue
         PROVE  /\ Ring(Blocks, p_next, p_prev, c[q]) /\ tp[q] = TailOf(c[q], Nil)
                /\ q # pcbList_h => Range(c[q]) = {}
    <2>1. CASE q = pcbList_h
      BY <1>2, <1>7, <1>8, <2>1 DEF TailOf
    <2>2. CASE q # pcbList_h
      <3>1. Ring(Blocks, p_next, p_prev, <<>>) /\ Range(<<>>) = {} /\ TailOf(<<>>, Nil) = Nil
        BY EmptyList DEF TailOf
      <3> QED
        BY <1>2, <2>2, <3>1
    <2> QED
      BY <2>1, <2>2
  <1> HIDE DEF c
  <1>12. \A q, r \in Queue : q # r => Range(c[q]) \cap Range(c[r]) = {}
    BY <1>11
  <1>13. QueueLists(p_next, p_prev, tp, c)
    BY <1>1, <1>9, <1>10, <1>11, <1>12 DEF QueueLists
  <1>14. q_ret = Nil
    BY <1>2
  <1> QED
    BY <1>1, <1>3, <1>7, <1>13, <1>14 DEF c

LEMMA QueueInit == Queues!Init => QueueInv
  BY QueueSetUp DEF QueueInv, Queued

(* A block that is in no queue becomes the tail of one.                    *)
LEMMA QueueInsert ==
  ASSUME NEW c, QueueLists(p_next, p_prev, tp, c), NEW q \in Queue, NEW p \in Blocks, Queues!InsertProcQ(q, p)
  PROVE  /\ QueueBecomes(c, q, Append(c[q], p)) /\ q_ret' = q_ret
         /\ \A r \in Queue : p \notin Range(c[r])
  <1>1. QueueLists(p_next, p_prev, tp, c)
    OBVIOUS
  <1>2. /\ p_next \in [Blocks -> Blocks \cup {Nil}] /\ p_prev \in [Blocks -> Blocks \cup {Nil}]
        /\ tp \in [Queue -> Blocks \cup {Nil}] /\ Nil \notin Blocks
        /\ \A x \in Blocks : p_next[x] = Nil <=> p_prev[x] = Nil
        /\ \A r, s \in Queue : r # s => Range(c[r]) \cap Range(c[s]) = {}
    BY <1>1, QueueTable DEF QueueLists
  <1>3. ASSUME NEW r \in Queue
        PROVE  /\ Ring(Blocks, p_next, p_prev, c[r]) /\ c[r] \in Seq(Blocks)
               /\ Range(c[r]) \subseteq Blocks
               /\ tp[r] = Nil <=> c[r] = <<>>
               /\ c[r] # <<>> => tp[r] = c[r][Len(c[r])]
               /\ \A x \in Range(c[r]) : p_next[x] \in Range(c[r]) /\ p_prev[x] \in Range(c[r])
               /\ p \notin Range(c[r])
    <2>1. p \notin Range(c[r])
      BY <1>1, QueueContents DEF Queues!InsertProcQ, Queues!Unlinked
    <2> QED
      BY <1>1, <2>1, QueueFacts
  <1> DEFINE r == c[q]
             head == r[1]
             last == r[Len(r)]
  <1>4. r # <<>> => /\ tp[q] = last /\ p_next[last] = head /\ p_prev[head] = last
                    /\ head \in Range(r) /\ last \in Range(r) /\ tp[q] # Nil
                    /\ head \in Blocks /\ last \in Blocks /\ head # p /\ last # p
    BY <1>3, RingEnds
  <1>5. /\ r = <<>> => /\ p_next' = [p_next EXCEPT ![p] = p]
                       /\ p_prev' = [p_prev EXCEPT ![p] = p]
        /\ r # <<>> => /\ p_next' = [p_next EXCEPT ![p] = head, ![last] = p]
                       /\ p_prev' = [p_prev EXCEPT ![head] = p, ![p] = last]
        /\ tp' = [tp EXCEPT ![q] = p] /\ q_ret' = q_ret
    BY <1>3, <1>4 DEF Queues!InsertProcQ, Queues!Link
  <1> HIDE DEF head, last, r
  <1>6. /\ r = <<>> => p_next'[p] = p /\ p_prev'[p] = p
        /\ r # <<>> => /\ p_next'[p] = head /\ p_prev'[head] = p
                       /\ p_next'[last] = p /\ p_prev'[p] = last
        /\ \A y \in Blocks \ {p} : /\ (r = <<>> \/ y # last) => p_next'[y] = p_next[y]
                                   /\ (r = <<>> \/ y # head) => p_prev'[y] = p_prev[y]
        /\ p_next' \in [Blocks -> Blocks \cup {Nil}] /\ p_prev' \in [Blocks -> Blocks \cup {Nil}]
    <2>1. CASE r = <<>>
      BY <1>2, <1>5, <2>1
    <2>2. CASE r # <<>>
      BY <1>2, <1>4, <1>5, <2>2
    <2> QED
      BY <2>1, <2>2
  <1> DEFINE b == Append(r, p)
  <1>b. b = Append(c[q], p)
    BY DEF r
  <1> DEFINE d == [s \in Queue |-> IF s = q THEN b ELSE c[s]]
  <1>7. Ring(Blocks, p_next', p_prev', b)
    <2>1. Ring(Blocks, p_next, p_prev, r) /\ p \notin Range(r) /\ Range(r) \subseteq Blocks
      BY <1>3 DEF r
    <2>2. /\ r # <<>> => /\ p_next'[p] = r[1] /\ p_prev'[r[1]] = p
                         /\ p_next'[r[Len(r)]] = p /\ p_prev'[p] = r[Len(r)]
          /\ r = <<>> => p_next'[p] = p /\ p_prev'[p] = p
      BY <1>6 DEF head, last
    <2>3. \A y \in Range(r) : /\ y # r[Len(r)] => p_next'[y] = p_next[y]
                              /\ y # r[1] => p_prev'[y] = p_prev[y]
      BY <1>6, <2>1 DEF head, last
    <2> QED
      BY <2>1, <2>2, <2>3, RingJoin
  <1>8. Range(b) = Range(r) \cup {p} /\ TailOf(b, Nil) = p
    BY <1>3, AppendEnds, EndAppended DEF r
  <1> HIDE DEF b
  <1>9. ASSUME NEW s \in Queue
        PROVE  /\ Ring(Blocks, p_next', p_prev', d[s]) /\ tp'[s] = TailOf(d[s], Nil)
               /\ Range(d[s]) = IF s = q THEN Range(r) \cup {p} ELSE Range(c[s])
    <2>1. CASE s = q
      BY <1>2, <1>5, <1>7, <1>8, <2>1
    <2>2. CASE s # q
      <3>1. d[s] = c[s] /\ tp'[s] = tp[s]
        BY <1>2, <1>5, <2>2
      <3>2. ASSUME NEW x \in Range(c[s])
            PROVE  p_next'[x] = p_next[x] /\ p_prev'[x] = p_prev[x]
        <4>1. x \in Blocks /\ x # p /\ x \notin Range(r)
          <5>1. Range(c[s]) \cap Range(c[q]) = {}
            BY <1>2, <2>2
          <5> QED
            BY <1>3, <5>1 DEF r
        <4> QED
          BY <1>4, <1>6, <4>1
      <3>3. Ring(Blocks, p_next, p_prev, c[s])
        BY <1>3
      <3>4. Ring(Blocks, p_next', p_prev', c[s])
        BY <3>2, <3>3, TwinedKept DEF Ring
      <3>5. tp[s] = TailOf(c[s], Nil)
        BY <1>1 DEF QueueLists
      <3> QED
        BY <2>2, <3>1, <3>4, <3>5
    <2> QED
      BY <2>1, <2>2
  <1>d. d = [s \in Queue |-> IF s = q THEN Append(c[q], p) ELSE c[s]]
    BY <1>b
  <1> HIDE DEF d
  <1>10. ASSUME NEW s \in Queue, NEW o \in Queue, s # o
         PROVE  Range(d[s]) \cap Range(d[o]) = {}
    <2>1. /\ Range(c[s]) \cap Range(c[o]) = {} /\ p \notin Range(c[s]) /\ p \notin Range(c[o])
          /\ s = q => Range(r) = Range(c[s])
          /\ o = q => Range(r) = Range(c[o])
      BY <1>2, <1>3, <1>10 DEF r
    <2>2. /\ Range(d[s]) = IF s = q THEN Range(r) \cup {p} ELSE Range(c[s])
          /\ Range(d[o]) = IF o = q THEN Range(r) \cup {p} ELSE Range(c[o])
      BY <1>9
    <2> QED
      BY <1>10, <2>1, <2>2
  <1>11. \A x \in Blocks : p_next'[x] = Nil <=> p_prev'[x] = Nil
    <2> SUFFICES ASSUME NEW x \in Blocks PROVE p_next'[x] = Nil <=> p_prev'[x] = Nil
      OBVIOUS
    <2>1. CASE x = p
      BY <1>2, <1>4, <1>6, <2>1
    <2>2. CASE x # p /\ (r = <<>> \/ x \notin Range(r))
      <3>1. p_next'[x] = p_next[x] /\ p_prev'[x] = p_prev[x]
        BY <1>4, <1>6, <2>2
      <3> QED
        BY <1>2, <3>1
    <2>3. CASE r # <<>> /\ x \in Range(r) /\ x # p
      <3>1. p_next[x] \in Blocks /\ p_prev[x] \in Blocks
        BY <1>3, <2>3 DEF r
      <3>2. p_next'[x] \in Blocks /\ p_prev'[x] \in Blocks
        BY <1>6, <2>3, <3>1
      <3> QED
        BY <1>2, <3>2
    <2> QED
      BY <2>1, <2>2, <2>3
  <1>12. tp' \in [Queue -> Blocks \cup {Nil}]
    BY <1>2, <1>5
  <1>13. QueueLists(p_next', p_prev', tp', d)
    BY <1>6, <1>9, <1>10, <1>11, <1>12 DEF QueueLists
  <1> QED
    BY <1>3, <1>5, <1>13, <1>d DEF QueueBecomes

(* outProcQ links the neighbours of a block in the middle with each other. *)
LEMMA QueueBypassed ==
  ASSUME NEW r, NEW k \in 1..Len(r), Ring(Blocks, p_next, p_prev, r),
         Bypassed(Range(r), r[k], p_next, p_prev, p_next', p_prev')
  PROVE  Ring(Blocks, p_next', p_prev', RemoveAt(r, k))
  BY RingLeave

(* The k-th block of a queue leaves: the queue is closed behind it, and    *)
(* its tail pointer is as it should be.                                    *)
LEMMA QueueLeave ==
  ASSUME NEW c, QueueLists(p_next, p_prev, tp, c), NEW q \in Queue, NEW k \in 1..Len(c[q]),
         NEW p, p = c[q][k],
         tp' = [tp EXCEPT ![q] = TailOf(RemoveAt(c[q], k), Nil)],
         p_next' \in [Blocks -> Blocks \cup {Nil}], p_prev' \in [Blocks -> Blocks \cup {Nil}],
         p_next'[p] = Nil <=> p_prev'[p] = Nil,
         Bypassed(Blocks, p, p_next, p_prev, p_next', p_prev')
  PROVE  QueueLeft(c, q, k, p)
  <1>0. \A y \in Blocks \ {p} :
           /\ p_next'[y] = IF y = p_prev[p] THEN p_next[p] ELSE p_next[y]
           /\ p_prev'[y] = IF y = p_next[p] THEN p_prev[p] ELSE p_prev[y]
    BY DEF Bypassed
  <1>1. /\ tp \in [Queue -> Blocks \cup {Nil}] /\ Nil \notin Blocks
        /\ \A x \in Blocks : p_next[x] = Nil <=> p_prev[x] = Nil
        /\ \A r, s \in Queue : r # s => Range(c[r]) \cap Range(c[s]) = {}
    BY QueueTable DEF QueueLists
  <1>2. ASSUME NEW r \in Queue
        PROVE  /\ Ring(Blocks, p_next, p_prev, c[r]) /\ c[r] \in Seq(Blocks)
               /\ Range(c[r]) \subseteq Blocks
               /\ tp[r] = TailOf(c[r], Nil)
               /\ \A x \in Range(c[r]) : p_next[x] \in Range(c[r]) /\ p_prev[x] \in Range(c[r])
    <2>1. tp[r] = TailOf(c[r], Nil)
      BY DEF QueueLists
    <2> QED
      BY <2>1, QueueFacts
  <1>3. p \in Range(c[q]) /\ p \in Blocks
    <2>1. c[q] \in Seq(Blocks) /\ IsInjective(c[q])
      BY <1>2 DEF Ring, Twined
    <2>2. c[q][k] \in Range(c[q]) /\ c[q][k] \in Blocks
      BY <2>1, Positions
    <2> QED
      BY <2>2
  <1>4. p_next[p] \in Range(c[q]) /\ p_prev[p] \in Range(c[q])
    BY <1>2, <1>3
  <1> DEFINE b == RemoveAt(c[q], k)
             d == [s \in Queue |-> IF s = q THEN b ELSE c[s]]
  <1>5. Ring(Blocks, p_next', p_prev', b)
    <2>1. Bypassed(Range(c[q]), c[q][k], p_next, p_prev, p_next', p_prev')
      BY <1>2 DEF Bypassed
    <2> QED
      BY <1>2, <2>1, QueueBypassed
  <1>6. Range(b) = Range(c[q]) \ {p}
    <2>1. IsInjective(c[q])
      BY <1>2 DEF Ring, Twined
    <2>2. Without(Blocks, c[q], b, k)
      BY <1>2, WithoutRemoved
    <2> HIDE DEF b
    <2>3. Range(c[q]) = Range(b) \cup {c[q][k]} /\ c[q][k] \notin Range(b)
      BY <2>1, <2>2, WithoutMembers
    <2> QED
      BY <2>3
  <1>7. tp' = [tp EXCEPT ![q] = TailOf(b, Nil)]
    OBVIOUS
  <1>b. b = RemoveAt(c[q], k)
    OBVIOUS
  <1> HIDE DEF b
  <1>8. ASSUME NEW s \in Queue
        PROVE  /\ Ring(Blocks, p_next', p_prev', d[s]) /\ tp'[s] = TailOf(d[s], Nil)
               /\ Range(d[s]) = IF s = q THEN Range(c[q]) \ {p} ELSE Range(c[s])
    <2>1. CASE s = q
      BY <1>1, <1>5, <1>6, <1>7, <2>1
    <2>2. CASE s # q
      <3>1. d[s] = c[s] /\ tp'[s] = tp[s]
        BY <1>1, <1>7, <2>2
      <3>2. ASSUME NEW x \in Range(c[s])
            PROVE  p_next'[x] = p_next[x] /\ p_prev'[x] = p_prev[x]
        <4>1. Range(c[s]) \cap Range(c[q]) = {}
          BY <1>1, <2>2
        <4>2. x \in Blocks \ {p} /\ x # p_next[p] /\ x # p_prev[p]
          BY <1>2, <1>3, <1>4, <4>1
        <4> QED
          BY <1>0, <4>2
      <3>3. Ring(Blocks, p_next, p_prev, c[s])
        BY <1>2
      <3>4. Ring(Blocks, p_next', p_prev', c[s])
        BY <3>2, <3>3, TwinedKept DEF Ring
      <3> QED
        BY <1>2, <2>2, <3>1, <3>4
    <2> QED
      BY <2>1, <2>2
  <1>d. d = [s \in Queue |-> IF s = q THEN RemoveAt(c[q], k) ELSE c[s]]
    BY <1>b
  <1> HIDE DEF d
  <1>9. ASSUME NEW s \in Queue, NEW o \in Queue, s # o
        PROVE  Range(d[s]) \cap Range(d[o]) = {}
    <2>1. Range(c[s]) \cap Range(c[o]) = {}
      BY <1>1, <1>9
    <2>2. Range(d[s]) \subseteq Range(c[s]) /\ Range(d[o]) \subseteq Range(c[o])
      BY <1>8
    <2> QED
      BY <2>1, <2>2
  <1>10. \A x \in Blocks : p_next'[x] = Nil <=> p_prev'[x] = Nil
    <2> SUFFICES ASSUME NEW x \in Blocks, x # p PROVE p_next'[x] = Nil <=> p_prev'[x] = Nil
      OBVIOUS
    <2>1. CASE x \in Range(c[q])
      <3>1. p_next[x] \in Blocks /\ p_prev[x] \in Blocks /\ p_next[p] \in Blocks /\ p_prev[p] \in Blocks
        BY <1>2, <1>4, <2>1
      <3>2. p_next'[x] \in Blocks /\ p_prev'[x] \in Blocks
        BY <1>0, <3>1
      <3> QED
        BY <1>1, <3>2
    <2>2. CASE x \notin Range(c[q])
      <3>1. p_next'[x] = p_next[x] /\ p_prev'[x] = p_prev[x]
        BY <1>0, <1>4, <2>2
      <3> QED
        BY <1>1, <3>1
    <2> QED
      BY <2>1, <2>2
  <1>11. tp' \in [Queue -> Blocks \cup {Nil}]
    <2>1. TailOf(b, Nil) \in Blocks \cup {Nil}
      <3>1. b \in Seq(Blocks)
        BY <1>5 DEF Ring, Twined
      <3>2. b # <<>> => b[Len(b)] \in Range(b) /\ Range(b) \subseteq Blocks
        BY <1>5, RingEnds
      <3> QED
        BY <3>2 DEF TailOf
    <2> QED
      BY <1>1, <1>7, <2>1
  <1>12. QueueLists(p_next', p_prev', tp', d)
    BY <1>8, <1>9, <1>10, <1>11 DEF QueueLists
  <1> QED
    BY <1>12, <1>d DEF QueueLeft, QueueBecomes

(* outProcQ, from the tail ...                                             *)
LEMMA QueueTail ==
  ASSUME NEW c, QueueLists(p_next, p_prev, tp, c), NEW q \in Queue, NEW p \in Blocks, Queues!UnlinkTail(q, p)
  PROVE  q_ret' = p /\ \E k \in 1..Len(c[q]) : QueueLeft(c, q, k, p)
  <1>1. QueueLists(p_next, p_prev, tp, c)
    OBVIOUS
  <1>2. /\ p_next \in [Blocks -> Blocks \cup {Nil}] /\ p_prev \in [Blocks -> Blocks \cup {Nil}]
        /\ tp \in [Queue -> Blocks \cup {Nil}] /\ Nil \notin Blocks
        /\ \A x \in Blocks : p_next[x] = Nil <=> p_prev[x] = Nil
    BY <1>1, QueueTable DEF QueueLists
  <1> DEFINE r == c[q]
             k == Len(r)
  <1>3. /\ p = tp[q] /\ q_ret' = p
        /\ p_next[p] = p => tp' = [tp EXCEPT ![q] = Nil] /\ p_next' = p_next /\ p_prev' = p_prev
        /\ p_next[p] # p => /\ p_next' = [p_next EXCEPT ![p_prev[p]] = p_next[p]]
                            /\ p_prev' = [p_prev EXCEPT ![p_next[p]] = p_prev[p]]
                            /\ tp' = [tp EXCEPT ![q] = p_prev[p]]
    BY DEF Queues!UnlinkTail
  <1>4. /\ Ring(Blocks, p_next, p_prev, r) /\ r # <<>> /\ p = r[k] /\ r \in Seq(Blocks)
        /\ Range(r) \subseteq Blocks
        /\ \A x \in Range(r) : /\ p_next[x] \in Range(r) /\ p_prev[x] \in Range(r)
                               /\ p_prev[p_next[x]] = x /\ p_next[p_prev[x]] = x
    BY <1>1, <1>2, <1>3, QueueFacts
  <1> HIDE DEF r
  <1>5. /\ k \in 1..Len(r) /\ p \in Range(r) /\ Len(r) \in Nat
        /\ p_next[p] = p <=> Len(r) = 1
        /\ Len(r) # 1 => p_prev[p] = r[Len(r) - 1]
    BY <1>4, RingEnds
  <1>6. /\ p_next[p] \in Blocks /\ p_prev[p] \in Blocks /\ p_prev[p_next[p]] = p
        /\ p_next[p_prev[p]] = p
    BY <1>4, <1>5
  <1>7. TailOf(RemoveAt(r, k), Nil) = IF Len(r) = 1 THEN Nil ELSE r[Len(r) - 1]
    <2>1. ~ (k < Len(r))
      BY <1>5
    <2>2. TailOf(RemoveAt(r, k), Nil) = IF k < Len(r) THEN r[Len(r)]
                                     ELSE IF Len(r) = 1 THEN Nil ELSE r[Len(r) - 1]
      BY <1>4, <1>5, EndRemoved
    <2> QED
      BY <2>1, <2>2
  <1>8. tp' = [tp EXCEPT ![q] = TailOf(RemoveAt(r, k), Nil)]
    BY <1>3, <1>5, <1>7
  <1> HIDE DEF k
  <1>9. /\ p_next' \in [Blocks -> Blocks \cup {Nil}] /\ p_prev' \in [Blocks -> Blocks \cup {Nil}]
        /\ p_next'[p] = Nil <=> p_prev'[p] = Nil
    <2>1. CASE p_next[p] = p
      BY <1>2, <1>3, <2>1
    <2>2. CASE p_next[p] # p
      <3>1. p_next' \in [Blocks -> Blocks \cup {Nil}] /\ p_prev' \in [Blocks -> Blocks \cup {Nil}]
        BY <1>2, <1>3, <1>6, <2>2
      <3>2. p_next'[p] \in Blocks /\ p_prev'[p] \in Blocks
        BY <1>2, <1>3, <1>6, <2>2
      <3> QED
        BY <1>2, <3>1, <3>2
    <2> QED
      BY <2>1, <2>2
  <1>10. Bypassed(Blocks, p, p_next, p_prev, p_next', p_prev')
    <2>1. CASE p_next[p] = p
      BY <1>2, <1>3, <1>6, <2>1 DEF Bypassed
    <2>2. CASE p_next[p] # p
      BY <1>2, <1>3, <1>6, <2>2 DEF Bypassed
    <2> QED
      BY <2>1, <2>2
  <1>11. k \in 1..Len(c[q]) /\ QueueLeft(c, q, k, p)
    <2>1. k \in 1..Len(c[q]) /\ p = c[q][k] /\ tp' = [tp EXCEPT ![q] = TailOf(RemoveAt(c[q], k), Nil)]
      BY <1>4, <1>5, <1>8 DEF r
    <2> QED
      BY <1>1, <1>9, <1>10, <2>1, QueueLeave
  <1> QED
    BY <1>3, <1>11

(* ... and from the middle.                                                *)
LEMMA QueueMiddle ==
  ASSUME NEW c, QueueLists(p_next, p_prev, tp, c), NEW q \in Queue, NEW p \in Blocks, Queues!UnlinkMiddle(q, p)
  PROVE  q_ret' = p /\ \E k \in 1..Len(c[q]) : QueueLeft(c, q, k, p)
  <1>1. QueueLists(p_next, p_prev, tp, c)
    OBVIOUS
  <1>2. /\ p_next \in [Blocks -> Blocks \cup {Nil}] /\ p_prev \in [Blocks -> Blocks \cup {Nil}]
        /\ tp \in [Queue -> Blocks \cup {Nil}] /\ Nil \notin Blocks
    BY <1>1, QueueTable DEF QueueLists
  <1> DEFINE r == c[q]
  <1>3. /\ p # tp[q] /\ q_ret' = p /\ tp' = tp
        /\ p_next' = [p_next EXCEPT ![p_prev[p]] = p_next[p], ![p] = Nil]
        /\ p_prev' = [p_prev EXCEPT ![p_next[p]] = p_prev[p], ![p] = Nil]
    BY DEF Queues!UnlinkMiddle
  <1>4. p \in Range(r)
    BY <1>1, QueueContents DEF Queues!UnlinkMiddle
  <1>5. /\ Ring(Blocks, p_next, p_prev, r) /\ r \in Seq(Blocks) /\ Range(r) \subseteq Blocks
        /\ \A x \in Range(r) : p_next[x] \in Range(r) /\ p_prev[x] \in Range(r)
        /\ r # <<>> => tp[q] = r[Len(r)]
    BY <1>1, QueueFacts
  <1> HIDE DEF r
  <1>6. r # <<>>
    BY <1>4, EmptyQueue
  <1>7. PICK k \in 1..Len(r) : p = r[k]
    <2>1. IsInjective(r)
      BY <1>5 DEF Ring, Twined
    <2> QED
      BY <1>4, <1>5, <2>1, Positions
  <1>8. tp' = [tp EXCEPT ![q] = TailOf(RemoveAt(r, k), Nil)]
    <2>1. k < Len(r)
      <3>1. Len(r) \in Nat /\ k # Len(r)
        BY <1>3, <1>5, <1>6, <1>7
      <3> QED
        BY <3>1
    <2>2. TailOf(RemoveAt(r, k), Nil) = IF k < Len(r) THEN r[Len(r)]
                                     ELSE IF Len(r) = 1 THEN Nil ELSE r[Len(r) - 1]
      BY <1>5, EndRemoved
    <2>3. TailOf(RemoveAt(r, k), Nil) = tp[q]
      BY <1>5, <1>6, <2>1, <2>2
    <2> QED
      BY <1>2, <1>3, <2>3
  <1>9. p_next[p] \in Blocks /\ p_prev[p] \in Blocks
    BY <1>4, <1>5
  <1>10. /\ p_next' \in [Blocks -> Blocks \cup {Nil}] /\ p_prev' \in [Blocks -> Blocks \cup {Nil}]
         /\ p_next'[p] = Nil /\ p_prev'[p] = Nil
    BY <1>2, <1>3, <1>9
  <1>11. Bypassed(Blocks, p, p_next, p_prev, p_next', p_prev')
    BY <1>2, <1>3, <1>9 DEF Bypassed
  <1>12. k \in 1..Len(c[q]) /\ QueueLeft(c, q, k, p)
    <2>1. k \in 1..Len(c[q]) /\ p = c[q][k] /\ tp' = [tp EXCEPT ![q] = TailOf(RemoveAt(c[q], k), Nil)]
      BY <1>7, <1>8 DEF r
    <2> QED
      BY <1>1, <1>10, <1>11, <2>1, QueueLeave
  <1> QED
    BY <1>3, <1>12

(* allocPcb: the head of the free list.                                    *)
LEMMA QueueAlloc ==
  ASSUME NEW c, QueueLists(p_next, p_prev, tp, c), Queues!AllocPcb, tp[pcbList_h] # Nil
  PROVE  /\ c[pcbList_h] # <<>> /\ q_ret' \in Blocks
         /\ QueueLeft(c, pcbList_h, 1, q_ret')
  <1>1. QueueLists(p_next, p_prev, tp, c)
    OBVIOUS
  <1>2. /\ p_next \in [Blocks -> Blocks \cup {Nil}] /\ p_prev \in [Blocks -> Blocks \cup {Nil}]
        /\ tp \in [Queue -> Blocks \cup {Nil}] /\ Nil \notin Blocks /\ pcbList_h \in Queue
    BY <1>1, QueueTable DEF QueueLists
  <1> DEFINE q == pcbList_h
             r == c[q]
             p == p_next[tp[q]]
  <1>3. /\ q_ret' = p
        /\ p_next' = [p_next EXCEPT ![p_prev[p]] = p_next[p], ![p] = Nil]
        /\ p_prev' = [p_prev EXCEPT ![p_next[p]] = p_prev[p], ![p] = Nil]
        /\ tp' = [tp EXCEPT ![q] = IF p = tp[q] THEN Nil ELSE tp[q]]
    BY DEF Queues!AllocPcb
  <1>4. /\ Ring(Blocks, p_next, p_prev, r) /\ r \in Seq(Blocks) /\ Range(r) \subseteq Blocks
        /\ \A x \in Range(r) : p_next[x] \in Range(r) /\ p_prev[x] \in Range(r)
        /\ r # <<>> /\ tp[q] = r[Len(r)]
    BY <1>1, <1>2, QueueFacts
  <1> HIDE DEF r, p
  <1>5. /\ Len(r) \in Nat \ {0} /\ 1 \in 1..Len(r) /\ p = r[1] /\ p \in Range(r) /\ p \in Blocks
        /\ p = tp[q] <=> Len(r) = 1
    BY <1>4, RingEnds DEF p
  <1>6. tp' = [tp EXCEPT ![q] = TailOf(RemoveAt(r, 1), Nil)]
    <2>1. TailOf(RemoveAt(r, 1), Nil) = IF 1 < Len(r) THEN r[Len(r)]
                                     ELSE IF Len(r) = 1 THEN Nil ELSE r[Len(r) - 1]
      BY <1>4, <1>5, EndRemoved
    <2>2. 1 < Len(r) <=> Len(r) # 1
      <3>1. \A m \in Nat \ {0} : 1 < m <=> m # 1
        OBVIOUS
      <3> QED
        BY <1>5, <3>1, Zenon
    <2>3. TailOf(RemoveAt(r, 1), Nil) = IF p = tp[q] THEN Nil ELSE tp[q]
      BY <1>4, <1>5, <2>1, <2>2
    <2> QED
      BY <1>3, <2>3
  <1>7. p_next[p] \in Blocks /\ p_prev[p] \in Blocks
    BY <1>4, <1>5
  <1>8. /\ p_next' \in [Blocks -> Blocks \cup {Nil}] /\ p_prev' \in [Blocks -> Blocks \cup {Nil}]
        /\ p_next'[p] = Nil /\ p_prev'[p] = Nil
    BY <1>2, <1>3, <1>5, <1>7
  <1>9. Bypassed(Blocks, p, p_next, p_prev, p_next', p_prev')
    BY <1>2, <1>3, <1>7 DEF Bypassed
  <1>10. c[q] # <<>> /\ QueueLeft(c, q, 1, p)
    <2>1. 1 \in 1..Len(c[q]) /\ p = c[q][1] /\ tp' = [tp EXCEPT ![q] = TailOf(RemoveAt(c[q], 1), Nil)]
      BY <1>5, <1>6 DEF r
    <2> QED
      BY <1>1, <1>2, <1>4, <1>5, <1>8, <1>9, <2>1, QueueLeave DEF r
  <1> QED
    BY <1>3, <1>5, <1>10

(* outProcQ.                                                               *)
LEMMA QueueOut ==
  ASSUME NEW c, QueueLists(p_next, p_prev, tp, c), NEW q \in Queue, NEW p \in Blocks,
         Queues!OutProcQ(q, p)
  PROVE  \/ /\ p \notin Range(c[q]) /\ q_ret' = Nil /\ UNCHANGED <<p_next, p_prev, tp>>
         \/ q_ret' = p /\ \E k \in 1..Len(c[q]) : QueueLeft(c, q, k, p)
  <1>1. CASE Queues!NotFound(q, p)
    <2>1. p \notin Range(c[q])
      BY <1>1, QueueContents DEF Queues!NotFound
    <2> QED
      BY <1>1, <2>1 DEF Queues!NotFound
  <1>2. CASE Queues!UnlinkTail(q, p)
    BY <1>2, QueueTail
  <1>3. CASE Queues!UnlinkMiddle(q, p)
    BY <1>3, QueueMiddle
  <1> QED
    BY <1>1, <1>2, <1>3 DEF Queues!OutProcQ

(* The block that a tail pointer leads to, the head.                       *)
LEMMA QueueHead ==
  ASSUME NEW c, QueueLists(p_next, p_prev, tp, c), NEW q \in Queue
  PROVE  /\ tp[q] = Nil <=> c[q] = <<>>
         /\ tp[q] # Nil => /\ p_next[tp[q]] = c[q][1] /\ p_next[tp[q]] \in Blocks
                           /\ \A k \in 1..Len(c[q]) : c[q][k] = c[q][1] => k = 1
  <1>1. /\ Ring(Blocks, p_next, p_prev, c[q])
        /\ tp[q] = Nil <=> c[q] = <<>>
        /\ c[q] # <<>> => tp[q] = c[q][Len(c[q])]
    BY QueueFacts
  <1>2. CASE tp[q] # Nil
    <2>1. c[q] # <<>> /\ tp[q] = c[q][Len(c[q])]
      BY <1>1, <1>2
    <2>2. /\ p_next[tp[q]] = c[q][1] /\ c[q][1] \in Range(c[q]) /\ Range(c[q]) \subseteq Blocks
          /\ c[q] \in Seq(Blocks) /\ IsInjective(c[q]) /\ 1 \in 1..Len(c[q])
      BY <1>1, <2>1, RingEnds
    <2>3. \A i, j \in 1..Len(c[q]) : c[q][i] = c[q][j] => i = j
      BY <2>2, Positions
    <2> QED
      BY <1>1, <2>2, <2>3
  <1> QED
    BY <1>1, <1>2

(* removeProcQ: the head leaves, if there is one.                          *)
LEMMA QueueRemove ==
  ASSUME NEW c, QueueLists(p_next, p_prev, tp, c), NEW q \in Queue, Queues!RemoveProcQ(q)
  PROVE  \/ c[q] = <<>> /\ q_ret' = Nil /\ UNCHANGED <<p_next, p_prev, tp>>
         \/ c[q] # <<>> /\ q_ret' \in Blocks /\ QueueLeft(c, q, 1, q_ret')
  <1>1. CASE tp[q] = Nil
    BY <1>1, QueueHead DEF Queues!RemoveProcQ
  <1>2. CASE tp[q] # Nil
    <2> DEFINE p == p_next[tp[q]]
    <2>1. /\ c[q] # <<>> /\ p = c[q][1] /\ p \in Blocks
          /\ \A k \in 1..Len(c[q]) : c[q][k] = c[q][1] => k = 1
      BY <1>2, QueueHead
    <2>2. Queues!OutProcQ(q, p)
      BY <1>2 DEF Queues!RemoveProcQ
    <2> HIDE DEF p
    <2>3. p \in Range(c[q])
      <3>1. Ring(Blocks, p_next, p_prev, c[q])
        BY QueueFacts
      <3> QED
        BY <2>1, <3>1, RingEnds
    <2>4. q_ret' = p /\ \E k \in 1..Len(c[q]) : QueueLeft(c, q, k, p)
      BY <2>1, <2>2, <2>3, QueueOut
    <2>5. PICK k \in 1..Len(c[q]) : QueueLeft(c, q, k, p)
      BY <2>4
    <2>6. k = 1
      BY <2>1, <2>5 DEF QueueLeft
    <2> QED
      BY <2>1, <2>4, <2>5, <2>6
  <1> QED
    BY <1>1, <1>2

(* Every call on the process queues.                                       *)
LEMMA QueueStepKeeps == QueueInv /\ [Queues!Next]_queues => QueueInv'
  <1> SUFFICES ASSUME QueueInv, [Queues!Next]_queues PROVE QueueInv'
    OBVIOUS
  <1>1. CASE UNCHANGED queues
    BY <1>1 DEF QueueInv, Queued, queues
  <1>2. ASSUME UNCHANGED <<p_next, p_prev, tp>>, q_ret' \in Blocks \cup {Nil}
        PROVE  QueueInv'
    BY <1>2 DEF QueueInv, Queued
  <1>3. PICK c : QueueLists(p_next, p_prev, tp, c)
    BY DEF QueueInv, Queued
  <1>4. ASSUME NEW q, NEW b, QueueBecomes(c, q, b), q_ret' \in Blocks \cup {Nil}
        PROVE  QueueInv'
    BY <1>4 DEF QueueInv, Queued, QueueBecomes
  <1>5. q_ret \in Blocks \cup {Nil} /\ pcbList_h \in Queue
    BY QueueTable DEF QueueInv
  <1>6. CASE Queues!AllocPcb
    <2>1. tp[pcbList_h] = Nil => UNCHANGED <<p_next, p_prev, tp>> /\ q_ret' = Nil
      BY <1>6 DEF Queues!AllocPcb
    <2>2. tp[pcbList_h] # Nil => QueueLeft(c, pcbList_h, 1, q_ret') /\ q_ret' \in Blocks
      BY <1>3, <1>6, QueueAlloc
    <2> QED
      BY <1>2, <1>4, <2>1, <2>2 DEF QueueLeft
  <1>7. ASSUME NEW q \in Queue, NEW p \in Blocks, Queues!InsertProcQ(q, p) PROVE QueueInv'
    <2>1. QueueBecomes(c, q, Append(c[q], p)) /\ q_ret' = q_ret
      BY <1>3, <1>7, QueueInsert
    <2> QED
      BY <1>4, <1>5, <2>1
  <1>8. ASSUME NEW p \in Blocks, Queues!FreePcb(p) PROVE QueueInv'
    BY <1>5, <1>7, <1>8 DEF Queues!FreePcb
  <1>9. ASSUME NEW q \in Queue, NEW p \in Blocks, Queues!OutProcQ(q, p) PROVE QueueInv'
    BY <1>2, <1>3, <1>4, <1>9, QueueOut DEF QueueLeft
  <1>10. ASSUME NEW q \in Queue, Queues!RemoveProcQ(q) PROVE QueueInv'
    BY <1>2, <1>3, <1>4, <1>10, QueueRemove DEF QueueLeft
  <1>11. ASSUME NEW q \in Queue, Queues!HeadProcQ(q) PROVE QueueInv'
    <2>1. tp[q] # Nil => p_next[tp[q]] \in Blocks
      BY <1>3, QueueHead
    <2> QED
      BY <1>2, <1>11, <2>1 DEF Queues!HeadProcQ
  <1>12. CASE Queues!Next
    BY <1>6, <1>7, <1>8, <1>9, <1>10, <1>11, <1>12 DEF Queues!Next
  <1> QED
    BY <1>1, <1>12

(* The links of such queues are woven.                                     *)
LEMMA QueueSafe == QueueInv => Queues!TypeOK /\ Queues!Woven
  <1> SUFFICES ASSUME QueueInv PROVE Queues!TypeOK /\ Queues!Woven
    OBVIOUS
  <1>1. PICK c : QueueLists(p_next, p_prev, tp, c)
    BY DEF QueueInv, Queued
  <1>2. Queues!TypeOK
    BY <1>1 DEF Queues!TypeOK, QueueInv, QueueLists
  <1>3. ASSUME NEW q \in Queue
        PROVE  /\ Queues!Range(Queues!Contents(q)) = Range(c[q])
               /\ \A x \in Range(c[q]) : p_prev[p_next[x]] = x /\ p_next[p_prev[x]] = x
               /\ tp[q] # Nil => tp[q] \in Range(c[q])
    <2>1. /\ Ring(Blocks, p_next, p_prev, c[q])
          /\ tp[q] # Nil => c[q] # <<>> /\ tp[q] = c[q][Len(c[q])]
          /\ \A x \in Range(c[q]) : p_prev[p_next[x]] = x /\ p_next[p_prev[x]] = x
      BY <1>1, QueueFacts
    <2>2. tp[q] # Nil => tp[q] \in Range(c[q])
      BY <2>1, RingEnds
    <2> QED
      BY <1>1, <2>1, <2>2, QueueContents
  <1>4. \A q, r \in Queue : q # r => Range(c[q]) \cap Range(c[r]) = {}
    BY <1>1 DEF QueueLists
  <1>5. Queues!Woven
    BY <1>3, <1>4 DEF Queues!Woven
  <1> QED
    BY <1>2, <1>5

--------------------------------------------------------------------------
(* The active semaphore list.                                              *)

ANode == Semds!Semd

(* q is the active list from its dummy head on, f the free stack; the      *)
(* addresses ascend behind the dummy, and just there somebody waits.       *)
SemdLists(next, add, procQ, free, head, q, f) ==
  /\ TwoLists(ANode, next, 0, q, f) /\ free = First(f, 0)
  /\ q # <<>> /\ head = q[1]
  /\ \A d \in Range(q) \ {head} : next[d] # 0 => add[d] < add[next[d]]
  /\ \A d \in ANode : d \in Range(q) \ {head} <=> procQ[d] # <<>>

Listed ==
  \E q, f : SemdLists(s_next, s_semAdd, s_procQ, semdList_h, activeSemdList_h, q, f)

SemdInv == Semds!TypeOK /\ Listed

(* The table of descriptors.                                               *)
LEMMA SemdTable ==
  /\ Semds!MAXPROC \in Nat \ {0} /\ ANode = 1..(Semds!MAXPROC + 1) /\ 0 \notin ANode
  /\ IsFiniteSet(ANode) /\ Cardinality(ANode) = Semds!MAXPROC + 1
  /\ Addr \subseteq Nat \ {0}
  <1>1. /\ IsFiniteSet(Sleepers) /\ Sleepers # {} /\ Addr \subseteq Nat \ {0}
    BY ListsAssumption DEF Semds!AslAssumption, Semds!IsFiniteSet, IsFiniteSet
  <1>2. Semds!MAXPROC = Cardinality(Sleepers)
    BY DEF Semds!MAXPROC, Semds!Cardinality, Cardinality
  <1>3. Semds!MAXPROC \in Nat \ {0}
    BY <1>1, <1>2, FS_CardinalityType, FS_EmptySet
  <1>4. ANode = 1..(Semds!MAXPROC + 1)
    BY DEF ANode, Semds!Semd
  <1> DEFINE M == Semds!MAXPROC
  <1> HIDE DEF M
  <1>5. M \in Nat \ {0} /\ ANode = 1..(M + 1)
    BY <1>3, <1>4 DEF M
  <1>6. 0 \notin ANode /\ IsFiniteSet(ANode) /\ Cardinality(ANode) = M + 1
    BY <1>5, FS_Interval
  <1> QED
    BY <1>1, <1>5, <1>6 DEF M

(* initASL: the dummy is the active list, the other descriptors are free.  *)
LEMMA SemdInit == Semds!Init => SemdInv
  <1> SUFFICES ASSUME Semds!Init PROVE SemdInv
    OBVIOUS
  <1> DEFINE M == Semds!MAXPROC
  <1>1. /\ M \in Nat \ {0} /\ ANode = 1..(M + 1) /\ 0 \notin ANode /\ Semds!Semd = ANode
    BY SemdTable DEF ANode
  <1>2. /\ s_next = [d \in ANode |-> IF d = M + 1 THEN 0 ELSE d - 1]
        /\ s_semAdd = [d \in ANode |-> 0] /\ s_procQ = [d \in ANode |-> <<>>]
        /\ semdList_h = M /\ activeSemdList_h = M + 1
        /\ p_semAdd = [p \in Sleepers |-> 0] /\ s_ret = 0
    BY DEF Semds!Init, Semds!NULL, ANode
  <1> HIDE DEF M
  <1>3. /\ s_next \in [ANode -> ANode \cup {0}] /\ semdList_h \in ANode /\ activeSemdList_h \in ANode
        /\ \A n \in 1..M : s_next[n] = n - 1
        /\ s_next[M + 1] = 0 /\ 1..M \subseteq ANode /\ M + 1 \in ANode
    BY <1>1, <1>2
  <1>4. Semds!TypeOK
    BY <1>1, <1>2, <1>3 DEF Semds!TypeOK, Semds!NULL, Semds!TRUE_
  <1>5. PICK f : Spells(1..M, s_next, f, 0) /\ First(f, 0) = M /\ Range(f) = 1..M
    BY <1>1, <1>3, StackOfAll
  <1> DEFINE q == <<M + 1>>
  <1>6. Spells(ANode, s_next, q, 0) /\ Range(q) = {M + 1} /\ q # <<>> /\ q[1] = M + 1
    <2>1. q \in Seq(ANode) /\ Len(q) = 1 /\ q[1] = M + 1 /\ Range(q) = {M + 1}
      BY <1>3 DEF Range
    <2>2. IsInjective(q)
      BY <2>1 DEF IsInjective
    <2> QED
      BY <1>3, <2>1, <2>2 DEF Spells
  <1>7. Spells(ANode, s_next, f, 0)
    BY <1>3, <1>5, SpellsWider
  <1>8. Range(q) \cap Range(f) = {} /\ Range(q) \cup Range(f) = ANode
    BY <1>1, <1>5, <1>6
  <1> HIDE DEF q
  <1>9. TwoLists(ANode, s_next, 0, q, f)
    BY <1>6, <1>7, <1>8 DEF TwoLists
  <1>10. SemdLists(s_next, s_semAdd, s_procQ, semdList_h, activeSemdList_h, q, f)
    BY <1>2, <1>5, <1>6, <1>9 DEF SemdLists
  <1> QED
    BY <1>4, <1>10 DEF SemdInv, Listed

(* What the invariant says before a call.                                  *)
LEMMA SemdFacts ==
  ASSUME Semds!TypeOK, NEW q, NEW f,
         SemdLists(s_next, s_semAdd, s_procQ, semdList_h, activeSemdList_h, q, f)
  PROVE  /\ s_next \in [ANode -> ANode \cup {0}] /\ s_semAdd \in [ANode -> Nat]
         /\ s_semAdd \in [ANode -> Addr \cup {0}] /\ s_procQ \in [ANode -> Seq(Sleepers)]
         /\ p_semAdd \in [Sleepers -> Addr \cup {0}] /\ 0 \notin ANode
         /\ Spells(ANode, s_next, q, 0) /\ Spells(ANode, s_next, f, 0)
         /\ Range(q) \cap Range(f) = {} /\ Range(q) \cup Range(f) = ANode
         /\ q # <<>> /\ activeSemdList_h = q[1] /\ 1 \in 1..Len(q) /\ Len(q) \in Nat
         /\ \A i \in 1..Len(q) : /\ q[i] \in Range(q) /\ q[i] \in ANode
                                 /\ s_next[q[i]] = IF i < Len(q) THEN q[i + 1] ELSE 0
         /\ \A i, j \in 1..Len(q) : q[i] = q[j] => i = j
         /\ \A d \in Range(q) : s_next[d] # 0 => s_next[d] \in Range(q)
         /\ semdList_h = 0 <=> f = <<>>
         /\ f # <<>> => semdList_h = f[1] /\ f[1] \in Range(f)
         /\ semdList_h \in ANode \cup {0} /\ activeSemdList_h \in ANode
  <1>1. /\ s_next \in [ANode -> ANode \cup {0}] /\ s_semAdd \in [ANode -> Nat]
        /\ s_semAdd \in [ANode -> Addr \cup {0}] /\ s_procQ \in [ANode -> Seq(Sleepers)]
        /\ p_semAdd \in [Sleepers -> Addr \cup {0}] /\ 0 \notin ANode
        /\ semdList_h \in ANode \cup {0} /\ activeSemdList_h \in ANode
    <2>1. /\ s_next \in [ANode -> ANode \cup {0}] /\ s_semAdd \in [ANode -> Addr \cup {0}]
          /\ s_procQ \in [ANode -> Seq(Sleepers)] /\ p_semAdd \in [Sleepers -> Addr \cup {0}]
          /\ semdList_h \in ANode \cup {0} /\ activeSemdList_h \in ANode
      BY DEF Semds!TypeOK, Semds!NULL, ANode
    <2>2. Addr \cup {0} \subseteq Nat /\ 0 \notin ANode
      BY SemdTable
    <2>3. s_semAdd \in [ANode -> Nat]
      BY <2>1, <2>2
    <2> QED
      BY <2>1, <2>2, <2>3
  <1>2. /\ Spells(ANode, s_next, q, 0) /\ Spells(ANode, s_next, f, 0)
        /\ Range(q) \cap Range(f) = {} /\ Range(q) \cup Range(f) = ANode
        /\ q # <<>> /\ activeSemdList_h = q[1] /\ semdList_h = First(f, 0)
    BY DEF SemdLists, TwoLists
  <1>3. /\ First(f, 0) = 0 <=> f = <<>>
        /\ f # <<>> => First(f, 0) = f[1] /\ f[1] \in Range(f)
        /\ 1 \in 1..Len(q) /\ Len(q) \in Nat
    BY <1>1, <1>2, FirstOf
  <1>4. /\ \A i \in 1..Len(q) : /\ q[i] \in Range(q) /\ q[i] \in ANode
                                /\ s_next[q[i]] = IF i < Len(q) THEN q[i + 1] ELSE 0
        /\ \A i, j \in 1..Len(q) : q[i] = q[j] => i = j
        /\ \A x \in Range(q) : \E i \in 1..Len(q) : x = q[i]
    BY <1>2, Positions DEF Spells
  <1>5. ASSUME NEW d \in Range(q), s_next[d] # 0 PROVE s_next[d] \in Range(q)
    <2>1. PICK i \in 1..Len(q) : d = q[i]
      BY <1>4
    <2>2. s_next[d] = q[i + 1] /\ i < Len(q)
      BY <1>4, <1>5, <2>1
    <2>3. i + 1 \in 1..Len(q)
      BY <1>3, <2>2
    <2> QED
      BY <1>4, <2>2, <2>3
  <1> QED
    BY <1>1, <1>2, <1>3, <1>4, <1>5

(* Where the search for address a ends.                                    *)
SemdAt(a, q, k) == StopsAt(q, k, s_semAdd, a) /\ Semds!GetPrevSemd(a) = q[k]

(* getPrevSemd ends at such a place.                                       *)
LEMMA SemdPrev ==
  ASSUME NEW q, NEW f, NEW a,
         SemdLists(s_next, s_semAdd, s_procQ, semdList_h, activeSemdList_h, q, f)
  PROVE  \E k : SemdAt(a, q, k)
  <1>1. Finds(ANode, s_next, 0, s_semAdd, a, q)
    <2>1. TwoLists(ANode, s_next, 0, q, f) /\ q # <<>> /\ 0 \notin ANode
      BY SemdTable DEF SemdLists
    <2> QED
      BY <2>1, SearchFinds
  <1>2. Semds!GetPrevSemd(a) = Search(ANode, s_next, 0, s_semAdd, a)[q[1]]
    BY DEF SemdLists, Semds!GetPrevSemd, Search, IsSearch, ANode, Semds!NULL
  <1> QED
    BY <1>1, <1>2 DEF Finds, SemdAt

(* The descriptor behind another one is not the dummy: somebody waits.     *)
LEMMA SemdBehind ==
  ASSUME Semds!TypeOK, NEW q, NEW f,
         SemdLists(s_next, s_semAdd, s_procQ, semdList_h, activeSemdList_h, q, f),
         NEW k \in 1..Len(q), s_next[q[k]] # 0
  PROVE  /\ k < Len(q) /\ s_next[q[k]] = q[k + 1] /\ k + 1 \in 1..Len(q)
         /\ q[k + 1] \in Range(q) \ {activeSemdList_h} /\ q[k + 1] \in ANode
         /\ q[k + 1] # q[k] /\ s_procQ[q[k + 1]] # <<>>
  <1>1. /\ activeSemdList_h = q[1] /\ 1 \in 1..Len(q) /\ Len(q) \in Nat
        /\ \A i \in 1..Len(q) : /\ q[i] \in Range(q) /\ q[i] \in ANode
                                /\ s_next[q[i]] = IF i < Len(q) THEN q[i + 1] ELSE 0
        /\ \A i, j \in 1..Len(q) : q[i] = q[j] => i = j
    BY SemdFacts
  <1>2. k < Len(q) /\ s_next[q[k]] = q[k + 1]
    BY <1>1
  <1>3. k + 1 \in 1..Len(q) /\ k + 1 # 1 /\ k + 1 # k
    BY <1>1, <1>2
  <1>4. q[k + 1] \in Range(q) \ {activeSemdList_h} /\ q[k + 1] \in ANode /\ q[k + 1] # q[k]
    BY <1>1, <1>3
  <1> QED
    BY <1>2, <1>3, <1>4 DEF SemdLists

(* A descriptor whose queue is empty goes from the active list to the free *)
(* stack.                                                                  *)
LEMMA SemdFreed ==
  ASSUME Semds!TypeOK, NEW q, NEW f,
         SemdLists(s_next, s_semAdd, s_procQ, semdList_h, activeSemdList_h, q, f),
         NEW k \in 1..Len(q), s_next[q[k]] # 0,
         Semds!LeaveBehind(q[k], <<>>), UNCHANGED <<activeSemdList_h, p_semAdd>>,
         s_ret' \in Sleepers \cup {0, 1}
  PROVE  SemdInv'
  <1> DEFINE d == q[k + 1]
             r == RemoveAt(q, k + 1)
             g == InsertAt(f, 1, d)
  <1>1. /\ k < Len(q) /\ s_next[q[k]] = d /\ k + 1 \in 1..Len(q)
        /\ d \in Range(q) \ {activeSemdList_h} /\ d \in ANode /\ d # q[k]
    BY SemdBehind
  <1>2. /\ s_procQ' = [s_procQ EXCEPT ![d] = <<>>]
        /\ s_next' = [s_next EXCEPT ![q[k]] = s_next[d], ![d] = semdList_h]
        /\ semdList_h' = d /\ s_semAdd' = s_semAdd
    BY <1>1 DEF Semds!LeaveBehind
  <1>3. /\ s_next \in [ANode -> ANode \cup {0}] /\ s_semAdd \in [ANode -> Nat]
        /\ s_procQ \in [ANode -> Seq(Sleepers)]
        /\ Spells(ANode, s_next, q, 0) /\ Spells(ANode, s_next, f, 0)
        /\ Range(q) \cap Range(f) = {} /\ Range(q) \cup Range(f) = ANode
        /\ activeSemdList_h = q[1] /\ 1 \in 1..Len(q) /\ Len(q) \in Nat
        /\ \A i \in 1..Len(q) : q[i] \in Range(q) /\ q[i] \in ANode
        /\ semdList_h \in ANode \cup {0} /\ activeSemdList_h \in ANode
    BY SemdFacts
  <1>4. /\ semdList_h = First(f, 0)
        /\ \A x \in Range(q) \ {activeSemdList_h} : s_next[x] # 0 => s_semAdd[x] < s_semAdd[s_next[x]]
        /\ \A x \in ANode : x \in Range(q) \ {activeSemdList_h} <=> s_procQ[x] # <<>>
    BY DEF SemdLists
  <1> HIDE DEF d
  <1>5. /\ s_next' \in [ANode -> ANode \cup {0}] /\ s_next'[q[k]] = s_next[d]
        /\ s_next'[d] = semdList_h
        /\ \A x \in ANode \ {q[k], d} : s_next'[x] = s_next[x]
    BY <1>1, <1>2, <1>3
  <1>6. /\ s_next'[q[k]] = s_next[q[k + 1]] /\ s_next'[d] = First(f, 0)
        /\ \A y \in Range(q) \ {q[k], q[k + 1]} : s_next'[y] = s_next[y]
        /\ \A y \in Range(f) : s_next'[y] = s_next[y]
    <2>1. s_next'[q[k]] = s_next[q[k + 1]] /\ s_next'[d] = First(f, 0)
      BY <1>4, <1>5 DEF d
    <2>2. \A y \in Range(q) \ {q[k], q[k + 1]} : s_next'[y] = s_next[y]
      <3>1. \A y \in Range(q) \ {q[k], d} : s_next'[y] = s_next[y]
        BY <1>3, <1>5
      <3> QED
        BY <3>1 DEF d
    <2>3. \A y \in Range(f) : y \in ANode \ {q[k], d}
      BY <1>1, <1>3
    <2> QED
      BY <1>5, <2>1, <2>2, <2>3
  <1>7. /\ Spells(ANode, s_next', r, 0) /\ Without(ANode, q, r, k + 1)
        /\ Range(r) = Range(q) \ {d}
    BY <1>1, <1>3, <1>6, SpellsUnweave DEF d
  <1>8. d \notin Range(f)
    BY <1>1, <1>3
  <1>9. Spells(ANode, s_next', g, 0) /\ First(g, 0) = d /\ Range(g) = Range(f) \cup {d}
    BY <1>1, <1>3, <1>6, <1>8, SpellsPush
  <1> HIDE DEF r, g
  <1>10. TwoLists(ANode, s_next', 0, r, g)
    BY <1>1, <1>3, <1>7, <1>9 DEF TwoLists
  <1>11. r # <<>> /\ r[1] = q[1]
    <2>1. /\ r \in Seq(ANode) /\ Len(q) = Len(r) + 1
          /\ \A i \in 1..((k + 1) - 1) : r[i] = q[i]
      BY <1>7 DEF Without
    <2>2. Len(r) # 0 /\ 1 \in 1..((k + 1) - 1)
      BY <1>1, <1>3, <2>1
    <2> QED
      BY <2>1, <2>2
  <1>12. ASSUME NEW x \in Range(r) \ {activeSemdList_h}, s_next'[x] # 0
         PROVE  s_semAdd[x] < s_semAdd[s_next'[x]]
    <2>1. x \in Range(q) \ {activeSemdList_h} /\ x # d /\ x \in ANode
      BY <1>3, <1>7, <1>12
    <2>2. CASE x # q[k]
      BY <1>4, <1>5, <1>12, <2>1, <2>2
    <2>3. CASE x = q[k]
      <3>1. s_next[x] = d /\ s_next[d] # 0 /\ s_next'[x] = s_next[d] /\ d # 0
        BY <1>1, <1>5, <1>12, <2>3, SemdTable
      <3>2. s_semAdd[x] < s_semAdd[d] /\ s_semAdd[d] < s_semAdd[s_next[d]]
        BY <1>1, <1>4, <2>1, <3>1
      <3>3. s_semAdd[x] \in Nat /\ s_semAdd[d] \in Nat /\ s_semAdd[s_next[d]] \in Nat
        BY <1>1, <1>3, <2>1, <3>1
      <3> QED
        BY <3>1, <3>2, <3>3
    <2> QED
      BY <2>2, <2>3
  <1>13. ASSUME NEW x \in ANode
         PROVE  x \in Range(r) \ {activeSemdList_h} <=> s_procQ'[x] # <<>>
    <2>1. s_procQ'[x] = IF x = d THEN <<>> ELSE s_procQ[x]
      BY <1>1, <1>2, <1>3
    <2> QED
      BY <1>4, <1>7, <2>1
  <1>14. SemdLists(s_next', s_semAdd', s_procQ', semdList_h', activeSemdList_h', r, g)
    BY <1>2, <1>3, <1>9, <1>10, <1>11, <1>12, <1>13 DEF SemdLists
  <1>15. Semds!TypeOK'
    <2>1. s_procQ' \in [ANode -> Seq(Sleepers)]
      BY <1>1, <1>2, <1>3
    <2>2. \A x \in ANode : s_procQ'[x] # <<>> => s_procQ[x] # <<>>
      BY <1>1, <1>2, <1>3
    <2> QED
      BY <1>1, <1>2, <1>5, <2>1, <2>2 DEF Semds!TypeOK, Semds!NULL, Semds!TRUE_, ANode
  <1> QED
    BY <1>14, <1>15 DEF SemdInv, Listed

(* A process left the queue behind another descriptor.                     *)
LEMMA SemdLeave ==
  ASSUME Semds!TypeOK, NEW q, NEW f,
         SemdLists(s_next, s_semAdd, s_procQ, semdList_h, activeSemdList_h, q, f),
         NEW k \in 1..Len(q), s_next[q[k]] # 0, NEW w \in Seq(Sleepers),
         Semds!LeaveBehind(q[k], w), UNCHANGED <<activeSemdList_h, p_semAdd>>,
         s_ret' \in Sleepers \cup {0, 1}
  PROVE  SemdInv'
  <1>1. CASE w = <<>>
    BY <1>1, SemdFreed
  <1>2. CASE w # <<>>
    <2> DEFINE d == q[k + 1]
    <2>1. s_next[q[k]] = d /\ d \in ANode /\ s_procQ[d] # <<>>
      BY SemdBehind
    <2>2. /\ s_procQ' = [s_procQ EXCEPT ![d] = w]
          /\ UNCHANGED <<s_next, s_semAdd, semdList_h>>
      BY <1>2, <2>1 DEF Semds!LeaveBehind
    <2>3. s_procQ \in [ANode -> Seq(Sleepers)]
      BY SemdFacts
    <2> HIDE DEF d
    <2>4. /\ s_procQ' \in [ANode -> Seq(Sleepers)]
          /\ \A x \in ANode : s_procQ'[x] # <<>> <=> s_procQ[x] # <<>>
      BY <1>2, <2>1, <2>2, <2>3
    <2>5. SemdLists(s_next', s_semAdd', s_procQ', semdList_h', activeSemdList_h', q, f)
      BY <2>2, <2>4 DEF SemdLists
    <2>6. Semds!TypeOK'
      BY <2>2, <2>4 DEF Semds!TypeOK, Semds!NULL, Semds!TRUE_, ANode
    <2> QED
      BY <2>5, <2>6 DEF SemdInv, Listed
  <1> QED
    BY <1>1, <1>2

(* insertBlocked on a semaphore that has a descriptor.                     *)
LEMMA SemdJoin ==
  ASSUME SemdInv, NEW a \in Addr, NEW p \in Sleepers, Semds!JoinSemd(a, p),
         UNCHANGED activeSemdList_h
  PROVE  SemdInv'
  <1>1. PICK q, f : SemdLists(s_next, s_semAdd, s_procQ, semdList_h, activeSemdList_h, q, f)
    BY DEF SemdInv, Listed
  <1>2. PICK k : SemdAt(a, q, k)
    BY <1>1, SemdPrev
  <1>3. k \in 1..Len(q) /\ Semds!GetPrevSemd(a) = q[k]
    BY <1>2 DEF SemdAt, StopsAt
  <1> DEFINE d == s_next[q[k]]
  <1>4. /\ d # 0 /\ s_procQ' = [s_procQ EXCEPT ![d] = Append(@, p)]
        /\ p_semAdd' = [p_semAdd EXCEPT ![p] = a] /\ s_ret' = 0
        /\ UNCHANGED <<s_next, s_semAdd, semdList_h>>
    BY <1>3 DEF Semds!JoinSemd, Semds!Owns, Semds!NULL
  <1>5. Semds!TypeOK
    BY DEF SemdInv
  <1>6. d \in ANode /\ s_procQ[d] # <<>>
    BY <1>1, <1>3, <1>4, <1>5, SemdBehind
  <1>7. s_procQ \in [ANode -> Seq(Sleepers)] /\ p_semAdd \in [Sleepers -> Addr \cup {0}]
    BY <1>1, <1>5, SemdFacts
  <1> HIDE DEF d
  <1>8. Append(s_procQ[d], p) \in Seq(Sleepers) /\ Append(s_procQ[d], p) # <<>>
    <2>1. s_procQ[d] \in Seq(Sleepers)
      BY <1>6, <1>7
    <2> QED
      BY <2>1
  <1>9. /\ s_procQ' \in [ANode -> Seq(Sleepers)] /\ p_semAdd' \in [Sleepers -> Addr \cup {0}]
        /\ \A x \in ANode : s_procQ'[x] # <<>> <=> s_procQ[x] # <<>>
    BY <1>4, <1>6, <1>7, <1>8
  <1>10. SemdLists(s_next', s_semAdd', s_procQ', semdList_h', activeSemdList_h', q, f)
    BY <1>1, <1>4, <1>9 DEF SemdLists
  <1>11. Semds!TypeOK'
    BY <1>4, <1>5, <1>9 DEF Semds!TypeOK, Semds!NULL, Semds!TRUE_, ANode
  <1> QED
    BY <1>10, <1>11 DEF SemdInv, Listed

(* A descriptor woven in at the end of the search keeps the order.         *)
LEMMA SemdAlloc ==
  ASSUME SemdInv, NEW a \in Addr, NEW p \in Sleepers, Semds!AllocSemd(a, p),
         UNCHANGED activeSemdList_h
  PROVE  SemdInv'
  <1>1. PICK q, f : SemdLists(s_next, s_semAdd, s_procQ, semdList_h, activeSemdList_h, q, f)
    BY DEF SemdInv, Listed
  <1>2. PICK k : SemdAt(a, q, k)
    BY <1>1, SemdPrev
  <1>3. /\ k \in 1..Len(q) /\ Semds!GetPrevSemd(a) = q[k]
        /\ k < Len(q) => ~ (s_semAdd[q[k + 1]] < a)
        /\ \A i \in 1..(k - 1) : s_semAdd[q[i + 1]] < a
    BY <1>2 DEF SemdAt, StopsAt
  <1> DEFINE n == semdList_h
             b == q[k]
             r == InsertAt(q, k + 1, n)
             g == Tail(f)
  <1>4. /\ n # 0 /\ semdList_h' = s_next[n]
        /\ s_next' = [s_next EXCEPT ![n] = s_next[b], ![b] = n]
        /\ s_semAdd' = [s_semAdd EXCEPT ![n] = a] /\ s_procQ' = [s_procQ EXCEPT ![n] = <<p>>]
        /\ p_semAdd' = [p_semAdd EXCEPT ![p] = a] /\ s_ret' = 0
        /\ s_next[b] # 0 => s_semAdd[s_next[b]] # a
    BY <1>3 DEF Semds!AllocSemd, Semds!Owns, Semds!NULL
  <1>5. Semds!TypeOK
    BY DEF SemdInv
  <1>6. /\ s_next \in [ANode -> ANode \cup {0}] /\ s_semAdd \in [ANode -> Nat]
        /\ s_semAdd \in [ANode -> Addr \cup {0}]
        /\ s_procQ \in [ANode -> Seq(Sleepers)] /\ p_semAdd \in [Sleepers -> Addr \cup {0}]
        /\ Spells(ANode, s_next, q, 0) /\ Spells(ANode, s_next, f, 0)
        /\ Range(q) \cap Range(f) = {} /\ Range(q) \cup Range(f) = ANode
        /\ activeSemdList_h = q[1] /\ 1 \in 1..Len(q) /\ Len(q) \in Nat
        /\ \A i \in 1..Len(q) : /\ q[i] \in Range(q) /\ q[i] \in ANode
                                /\ s_next[q[i]] = IF i < Len(q) THEN q[i + 1] ELSE 0
        /\ \A d \in Range(q) : s_next[d] # 0 => s_next[d] \in Range(q)
        /\ semdList_h = 0 <=> f = <<>>
        /\ f # <<>> => semdList_h = f[1] /\ f[1] \in Range(f)
        /\ 0 \notin ANode /\ a \in Nat
    <2>1. a \in Nat
      BY SemdTable
    <2> QED
      BY <1>1, <1>5, <2>1, SemdFacts
  <1>7. /\ \A x \in Range(q) \ {activeSemdList_h} :
             s_next[x] # 0 => s_semAdd[x] < s_semAdd[s_next[x]]
        /\ \A x \in ANode : x \in Range(q) \ {activeSemdList_h} <=> s_procQ[x] # <<>>
    BY <1>1 DEF SemdLists
  <1>8. f # <<>> /\ n = f[1] /\ n \in Range(f) /\ n \in ANode /\ n \notin Range(q)
    BY <1>4, <1>6
  <1>9. b \in Range(q) /\ b \in ANode /\ b # n
    BY <1>3, <1>6, <1>8
  <1> HIDE DEF n, b
  <1>10. /\ s_next' \in [ANode -> ANode \cup {0}] /\ s_next'[b] = n /\ s_next'[n] = s_next[b]
         /\ \A x \in ANode \ {n, b} : s_next'[x] = s_next[x]
    BY <1>4, <1>6, <1>8, <1>9
  <1>11. /\ s_next'[q[k]] = n /\ s_next'[n] = s_next[q[k]]
         /\ \A y \in Range(q) \ {q[k]} : s_next'[y] = s_next[y]
    BY <1>6, <1>8, <1>9, <1>10 DEF b
  <1>12. /\ Spells(ANode, s_next', r, 0) /\ Without(ANode, r, q, k + 1)
         /\ Range(r) = Range(q) \cup {n}
    <2>1. /\ Spells(ANode, s_next, q, 0) /\ k \in 1..Len(q) /\ n \in ANode /\ n \notin Range(q)
          /\ s_next'[q[k]] = n /\ s_next'[n] = s_next[q[k]]
          /\ \A y \in Range(q) \ {q[k]} : s_next'[y] = s_next[y]
      BY <1>3, <1>6, <1>8, <1>11
    <2> QED
      BY <2>1, SpellsWeave
  <1>13. /\ Spells(ANode, s_next, g, 0) /\ First(g, 0) = s_next[n]
         /\ Range(g) = Range(f) \ {n}
    <2>1. Spells(ANode, s_next, f, 0) /\ f # <<>>
      BY <1>6, <1>8
    <2>2. /\ Spells(ANode, s_next, Tail(f), 0) /\ First(Tail(f), 0) = s_next[f[1]]
          /\ Range(Tail(f)) = Range(f) \ {f[1]}
      BY <2>1, SpellsPop, Zenon
    <2> QED
      BY <1>8, <2>2
  <1> HIDE DEF r, g
  <1>14. Spells(ANode, s_next', g, 0)
    <2>1. \A x \in Range(g) : s_next'[x] = s_next[x]
      BY <1>6, <1>9, <1>10, <1>13
    <2> QED
      BY <1>13, <2>1, SpellsKept
  <1>15. TwoLists(ANode, s_next', 0, r, g)
    BY <1>6, <1>8, <1>12, <1>13, <1>14 DEF TwoLists
  <1>16. r # <<>> /\ r[1] = q[1]
    <2>1. /\ r \in Seq(ANode) /\ Len(r) = Len(q) + 1
          /\ \A i \in 1..((k + 1) - 1) : q[i] = r[i]
      BY <1>12 DEF Without
    <2>2. Len(r) # 0 /\ 1 \in 1..((k + 1) - 1)
      BY <1>3, <1>6, <2>1
    <2> QED
      BY <2>1, <2>2
  <1>17. /\ s_semAdd' \in [ANode -> Addr \cup {0}] /\ s_semAdd'[n] = a
         /\ \A x \in ANode \ {n} : s_semAdd'[x] = s_semAdd[x]
    BY <1>4, <1>6, <1>8
  <1>18. b # activeSemdList_h => s_semAdd[b] < a
    <2> SUFFICES ASSUME b # activeSemdList_h PROVE s_semAdd[b] < a
      OBVIOUS
    <2>1. k # 1
      BY <1>6 DEF b
    <2>2. k - 1 \in 1..(k - 1) /\ (k - 1) + 1 = k
      BY <1>3, <1>6, <2>1
    <2> QED
      BY <1>3, <2>2 DEF b
  <1>19. s_next[b] # 0 => a < s_semAdd[s_next[b]] /\ s_next[b] \in ANode \ {n}
    <2> SUFFICES ASSUME s_next[b] # 0
                 PROVE  a < s_semAdd[s_next[b]] /\ s_next[b] \in ANode \ {n}
      OBVIOUS
    <2>1. s_next[b] \in ANode \ {n}
      BY <1>6, <1>8, <1>9
    <2>2. k < Len(q) /\ s_next[b] = q[k + 1]
      BY <1>3, <1>6 DEF b
    <2>3. ~ (s_semAdd[s_next[b]] < a) /\ s_semAdd[s_next[b]] # a
      BY <1>3, <1>4, <2>2
    <2>4. s_semAdd[s_next[b]] \in Nat
      BY <1>6, <2>1
    <2> QED
      BY <1>6, <2>1, <2>3, <2>4
  <1>20. ASSUME NEW x \in Range(r) \ {activeSemdList_h}, s_next'[x] # 0
         PROVE  s_semAdd'[x] < s_semAdd'[s_next'[x]]
    <2>1. CASE x = n
      BY <1>10, <1>17, <1>19, <1>20, <2>1
    <2>2. CASE x = b
      BY <1>9, <1>10, <1>17, <1>18, <1>20, <2>2
    <2>3. CASE x # n /\ x # b
      <3>1. x \in Range(q) \ {activeSemdList_h} /\ x \in ANode \ {n, b}
        BY <1>6, <1>12, <1>20, <2>3
      <3>2. s_next'[x] = s_next[x] /\ s_semAdd'[x] = s_semAdd[x]
        BY <1>10, <1>17, <3>1
      <3>3. s_next[x] \in ANode \ {n}
        BY <1>6, <1>8, <1>20, <3>1, <3>2
      <3>4. s_semAdd'[s_next[x]] = s_semAdd[s_next[x]]
        BY <1>17, <3>3
      <3> QED
        BY <1>7, <1>20, <3>1, <3>2, <3>4
    <2> QED
      BY <2>1, <2>2, <2>3
  <1>21. s_procQ' \in [ANode -> Seq(Sleepers)] /\ s_procQ'[n] = <<p>>
         /\ \A x \in ANode \ {n} : s_procQ'[x] = s_procQ[x]
    <2>1. <<p>> \in Seq(Sleepers)
      OBVIOUS
    <2> QED
      BY <1>4, <1>6, <1>8, <2>1
  <1>22. ASSUME NEW x \in ANode
         PROVE  x \in Range(r) \ {activeSemdList_h} <=> s_procQ'[x] # <<>>
    <2>1. CASE x = n
      <3>1. n # activeSemdList_h /\ <<p>> # <<>>
        BY <1>6, <1>8
      <3> QED
        BY <1>12, <1>21, <2>1, <3>1
    <2>2. CASE x # n
      BY <1>7, <1>12, <1>21, <2>2
    <2> QED
      BY <2>1, <2>2
  <1>23. SemdLists(s_next', s_semAdd', s_procQ', semdList_h', activeSemdList_h', r, g)
    BY <1>4, <1>6, <1>13, <1>15, <1>16, <1>20, <1>22 DEF SemdLists
  <1>24. Semds!TypeOK'
    <2>1. p_semAdd' \in [Sleepers -> Addr \cup {0}] /\ s_next[n] \in ANode \cup {0}
      BY <1>4, <1>6, <1>8
    <2>2. \A x \in ANode : s_procQ'[x] # <<>> => s_semAdd'[x] \in Addr
      <3>1. \A x \in ANode : s_procQ[x] # <<>> => s_semAdd[x] \in Addr
        BY <1>5 DEF Semds!TypeOK, ANode
      <3> QED
        BY <1>17, <1>21, <3>1
    <2>3. activeSemdList_h' \in ANode
      BY <1>5 DEF Semds!TypeOK, ANode
    <2> QED
      BY <1>4, <1>10, <1>17, <1>21, <2>1, <2>2, <2>3
         DEF Semds!TypeOK, Semds!NULL, Semds!TRUE_, ANode
  <1> QED
    BY <1>23, <1>24 DEF SemdInv, Listed

(* A call that only returns something.                                     *)
LEMMA SemdSame ==
  ASSUME SemdInv, s_ret' \in Sleepers \cup {0, 1},
         UNCHANGED <<s_next, s_semAdd, s_procQ, semdList_h, activeSemdList_h, p_semAdd>>
  PROVE  SemdInv'
  BY DEF SemdInv, Listed, Semds!TypeOK, Semds!NULL, Semds!TRUE_

(* The calls that leave the queue behind the end of the search.            *)
LEMMA SemdRemove ==
  ASSUME SemdInv, NEW a \in Addr, Semds!RemoveBlocked(a)
  PROVE  SemdInv'
  <1>1. PICK q, f : SemdLists(s_next, s_semAdd, s_procQ, semdList_h, activeSemdList_h, q, f)
    BY DEF SemdInv, Listed
  <1>2. PICK k : SemdAt(a, q, k)
    BY <1>1, SemdPrev
  <1>3. k \in 1..Len(q) /\ Semds!GetPrevSemd(a) = q[k] /\ Semds!TypeOK
    BY <1>2 DEF SemdAt, StopsAt, SemdInv
  <1>4. CASE s_next[q[k]] # 0 /\ s_semAdd[s_next[q[k]]] = a
    <2> DEFINE d == s_next[q[k]]
    <2>1. /\ s_ret' = Head(s_procQ[d]) /\ Semds!LeaveBehind(q[k], Tail(s_procQ[d]))
          /\ UNCHANGED <<activeSemdList_h, p_semAdd>>
      BY <1>3, <1>4 DEF Semds!RemoveBlocked, Semds!Owns, Semds!NULL
    <2>2. d \in ANode /\ s_procQ[d] # <<>>
      BY <1>1, <1>3, <1>4, SemdBehind
    <2>3. s_procQ \in [ANode -> Seq(Sleepers)]
      BY <1>1, <1>3, SemdFacts
    <2> HIDE DEF d
    <2>4. s_procQ[d] \in Seq(Sleepers)
      BY <2>2, <2>3
    <2>5. Tail(s_procQ[d]) \in Seq(Sleepers) /\ Head(s_procQ[d]) \in Sleepers
      BY <2>2, <2>4
    <2> QED
      BY <1>1, <1>3, <1>4, <2>1, <2>5, SemdLeave
  <1>5. CASE ~ (s_next[q[k]] # 0 /\ s_semAdd[s_next[q[k]]] = a)
    <2>1. /\ s_ret' = 0
          /\ UNCHANGED <<s_next, s_semAdd, s_procQ, semdList_h, activeSemdList_h, p_semAdd>>
      BY <1>3, <1>5 DEF Semds!RemoveBlocked, Semds!Owns, Semds!NULL, Semds!semds
    <2> QED
      BY <1>1, <1>3, <2>1, SemdSame
  <1> QED
    BY <1>4, <1>5

(* outBlocked, which looks where p_semAdd says.                            *)
LEMMA SemdOut ==
  ASSUME SemdInv, NEW p \in Sleepers, Semds!OutBlocked(p)
  PROVE  SemdInv'
  <1> DEFINE a == p_semAdd[p]
  <1>1. PICK q, f : SemdLists(s_next, s_semAdd, s_procQ, semdList_h, activeSemdList_h, q, f)
    BY DEF SemdInv, Listed
  <1>2. PICK k : SemdAt(a, q, k)
    BY <1>1, SemdPrev
  <1>3. k \in 1..Len(q) /\ Semds!GetPrevSemd(a) = q[k] /\ Semds!TypeOK
    BY <1>2 DEF SemdAt, StopsAt, SemdInv
  <1> DEFINE d == s_next[q[k]]
             Here == d # 0 /\ s_semAdd[d] = a /\ p \in Semds!Range(s_procQ[d])
  <1>4. CASE Here
    <2>1. /\ s_ret' = p /\ Semds!LeaveBehind(q[k], Semds!RemoveFirst(s_procQ[d], p))
          /\ UNCHANGED <<activeSemdList_h, p_semAdd>> /\ d # 0
      BY <1>3, <1>4 DEF Semds!OutBlocked, Semds!Owns, Semds!NULL
    <2>2. d \in ANode
      BY <1>1, <1>3, <2>1, SemdBehind
    <2>3. s_procQ \in [ANode -> Seq(Sleepers)]
      BY <1>1, <1>3, SemdFacts
    <2> HIDE DEF d
    <2>4. s_procQ[d] \in Seq(Sleepers)
      BY <2>2, <2>3
    <2>5. Semds!RemoveFirst(s_procQ[d], p) = RemoveFirst(s_procQ[d], p)
      <3> DEFINE i == SelectInSeq(s_procQ[d], LAMBDA v : v = p)
      <3>1. Semds!SelectInSeq(s_procQ[d], LAMBDA v : v = p) = i
        BY DEF Semds!SelectInSeq, SelectInSeq, Semds!Min, Min
      <3>2. Semds!RemoveAt(s_procQ[d], i) = RemoveAt(s_procQ[d], i)
        BY DEF Semds!RemoveAt, RemoveAt
      <3> QED
        BY <3>1, <3>2 DEF Semds!RemoveFirst, RemoveFirst
    <2>6. Semds!RemoveFirst(s_procQ[d], p) \in Seq(Sleepers)
      BY <2>4, <2>5, RemoveMembers
    <2>7. s_next[q[k]] # 0
      BY <2>1 DEF d
    <2> QED
      BY <1>1, <1>3, <2>1, <2>6, <2>7, SemdLeave
  <1>5. CASE ~ Here
    <2>1. /\ s_ret' = 0
          /\ UNCHANGED <<s_next, s_semAdd, s_procQ, semdList_h, activeSemdList_h, p_semAdd>>
      BY <1>3, <1>5 DEF Semds!OutBlocked, Semds!Owns, Semds!NULL, Semds!semds
    <2> QED
      BY <1>1, <1>3, <2>1, SemdSame
  <1> QED
    BY <1>4, <1>5

(* Every call on the active semaphore list.                                *)
LEMMA SemdStepKeeps == SemdInv /\ [Semds!Next]_semds => SemdInv'
  <1> SUFFICES ASSUME SemdInv, [Semds!Next]_semds PROVE SemdInv'
    OBVIOUS
  <1>1. CASE UNCHANGED semds
    BY <1>1 DEF semds, SemdInv, Listed, Semds!TypeOK
  <1>2. ASSUME NEW a \in Addr, NEW p \in Sleepers, Semds!InsertBlocked(a, p) PROVE SemdInv'
    <2>1. CASE Semds!NoSemd(a)
      <3>1. /\ s_ret' = 1
            /\ UNCHANGED <<s_next, s_semAdd, s_procQ, semdList_h, activeSemdList_h, p_semAdd>>
        BY <1>2, <2>1 DEF Semds!InsertBlocked, Semds!NoSemd, Semds!TRUE_, Semds!semds
      <3> QED
        BY <3>1, SemdSame
    <2> QED
      BY <1>2, <2>1, SemdJoin, SemdAlloc DEF Semds!InsertBlocked
  <1>3. ASSUME NEW a \in Addr, Semds!RemoveBlocked(a) PROVE SemdInv'
    BY <1>3, SemdRemove
  <1>4. ASSUME NEW p \in Sleepers, Semds!OutBlocked(p) PROVE SemdInv'
    BY <1>4, SemdOut
  <1>5. ASSUME NEW a \in Addr, Semds!HeadBlocked(a) PROVE SemdInv'
    <2>1. PICK q, f : SemdLists(s_next, s_semAdd, s_procQ, semdList_h, activeSemdList_h, q, f)
      BY DEF SemdInv, Listed
    <2>2. PICK k : SemdAt(a, q, k)
      BY <2>1, SemdPrev
    <2>3. k \in 1..Len(q) /\ Semds!GetPrevSemd(a) = q[k] /\ Semds!TypeOK
      BY <2>2 DEF SemdAt, StopsAt, SemdInv
    <2> DEFINE d == s_next[q[k]]
    <2>4. /\ s_ret' = IF d # 0 /\ s_semAdd[d] = a THEN Head(s_procQ[d]) ELSE 0
          /\ UNCHANGED <<s_next, s_semAdd, s_procQ, semdList_h, activeSemdList_h, p_semAdd>>
      BY <1>5, <2>3 DEF Semds!HeadBlocked, Semds!Owns, Semds!NULL, Semds!semds
    <2>5. d # 0 => d \in ANode /\ s_procQ[d] # <<>>
      BY <2>1, <2>3, SemdBehind
    <2>6. s_procQ \in [ANode -> Seq(Sleepers)]
      BY <2>1, <2>3, SemdFacts
    <2> HIDE DEF d
    <2>7. d # 0 => Head(s_procQ[d]) \in Sleepers
      <3>1. d # 0 => s_procQ[d] \in Seq(Sleepers) /\ s_procQ[d] # <<>>
        BY <2>5, <2>6
      <3> QED
        BY <3>1
    <2> QED
      BY <2>4, <2>7, SemdSame
  <1> QED
    BY <1>1, <1>2, <1>3, <1>4, <1>5 DEF Semds!Next

(* The list ascends behind the dummy, and no descriptor is lost.           *)
LEMMA SemdSafe == SemdInv => Semds!TypeOK /\ Semds!Sorted /\ Semds!NoLeak
  <1> SUFFICES ASSUME SemdInv PROVE Semds!TypeOK /\ Semds!Sorted /\ Semds!NoLeak
    OBVIOUS
  <1>1. PICK q, f : SemdLists(s_next, s_semAdd, s_procQ, semdList_h, activeSemdList_h, q, f)
    BY DEF SemdInv, Listed
  <1>2. Semds!TypeOK
    BY DEF SemdInv
  <1> DEFINE N == Semds!MAXPROC + 1
             b == Tail(q)
  <1>3. /\ Spells(ANode, s_next, q, 0) /\ Spells(ANode, s_next, f, 0) /\ q # <<>>
        /\ Range(q) \cap Range(f) = {} /\ Range(q) \cup Range(f) = ANode
        /\ activeSemdList_h = q[1] /\ q[1] \in Range(q) /\ semdList_h = First(f, 0)
    <2>1. 1 \in 1..Len(q) /\ \A i \in 1..Len(q) : q[i] \in Range(q)
      BY <1>1, <1>2, SemdFacts
    <2> QED
      BY <1>1, <2>1 DEF SemdLists, TwoLists
  <1>4. 0 \notin ANode /\ IsFiniteSet(ANode) /\ Cardinality(ANode) = N /\ N \in Nat
    BY SemdTable
  <1> HIDE DEF N
  <1>5. /\ Spells(ANode, s_next, b, 0) /\ First(b, 0) = s_next[activeSemdList_h]
        /\ Range(b) = Range(q) \ {activeSemdList_h}
    <2>1. Spells(ANode, s_next, q, 0) /\ q # <<>>
      BY <1>3
    <2>2. /\ Spells(ANode, s_next, Tail(q), 0) /\ First(Tail(q), 0) = s_next[q[1]]
          /\ Range(Tail(q)) = Range(q) \ {q[1]}
      BY <2>1, SpellsPop, Zenon
    <2> QED
      BY <1>3, <2>2
  <1> HIDE DEF b
  <1>6. Len(b) <= N /\ Len(f) <= N
    <2>1. b \in Seq(ANode) /\ IsInjective(b) /\ f \in Seq(ANode) /\ IsInjective(f)
      BY <1>3, <1>5 DEF Spells
    <2> QED
      BY <1>4, <2>1, NoLonger
  <1>7. Linked(s_next, First(b, 0), 0, N) = b
    BY <1>4, <1>5, <1>6, LinkedSpells
  <1>8. Linked(s_next, First(f, 0), 0, N) = f
    BY <1>3, <1>4, <1>6, LinkedSpells
  <1>9. \A n : Semds!From(n) = Linked(s_next, n, 0, N)
    BY DEF N, Semds!From, Semds!Linked, Linked, Semds!Walk, Walk, Semds!NULL
  <1>10. Semds!From(s_next[activeSemdList_h]) = b /\ Semds!From(semdList_h) = f
    BY <1>3, <1>5, <1>7, <1>8, <1>9
  <1>11. Semds!Active = Range(q) \ {activeSemdList_h} /\ Semds!Free = Range(f)
    BY <1>5, <1>10 DEF Semds!Active, Semds!Free, Semds!Range, Range
  <1>12. /\ \A d \in Range(q) \ {activeSemdList_h} :
              s_next[d] # 0 => s_semAdd[d] < s_semAdd[s_next[d]]
         /\ \A d \in ANode : d \in Range(q) \ {activeSemdList_h} <=> s_procQ[d] # <<>>
    BY <1>1 DEF SemdLists
  <1>13. Semds!Sorted
    BY <1>11, <1>12 DEF Semds!Sorted, Semds!NULL
  <1>14. Semds!NoLeak
    BY <1>3, <1>11, <1>12 DEF Semds!NoLeak, ANode
  <1> QED
    BY <1>2, <1>13, <1>14

--------------------------------------------------------------------------
(* All five together: a behaviour works on the one that `under` names.     *)
LInv ==
  /\ under = "queues" => QueueInv
  /\ under = "tree" => TreeInv
  /\ under = "semaphores" => SemdInv
  /\ under = "virtual" => VirtInv
  /\ under = "delays" => DelayInv

(* Each structure as it is set up.                                         *)
LEMMA LInvInit == Init => LInv
  <1> SUFFICES ASSUME Init PROVE LInv
    OBVIOUS
  <1>1. Tree!Init /\ Semds!Init /\ Virts!Init /\ Delays!Init /\ (under = "queues" => Queues!Init)
    BY DEF Init
  <1> QED
    BY <1>1, QueueInit, TreeInit, SemdInit, VirtInit, DelayInit DEF LInv

(* A step is a call on the structure that `under` names.                   *)
LEMMA LInvStep == LInv /\ [Next]_vars => LInv'
  <1> SUFFICES ASSUME LInv, [Next]_vars PROVE LInv'
    OBVIOUS
  <1>1. /\ under' = under
        /\ under = "queues" => [Queues!Next]_queues
        /\ under = "tree" => [Tree!Next]_tree
        /\ under = "semaphores" => [Semds!Next]_semds
        /\ under = "virtual" => [Virts!Next]_virts
        /\ under = "delays" => [Delays!Next]_delays
    BY DEF Next, vars, QueueStep, TreeStep, SemdStep, VirtStep, DelayStep
  <1>2. ASSUME under = "queues" PROVE QueueInv'
    BY <1>1, <1>2, QueueStepKeeps DEF LInv
  <1>3. ASSUME under = "tree" PROVE TreeInv'
    BY <1>1, <1>3, TreeStepKeeps DEF LInv
  <1>4. ASSUME under = "semaphores" PROVE SemdInv'
    BY <1>1, <1>4, SemdStepKeeps DEF LInv
  <1>5. ASSUME under = "virtual" PROVE VirtInv'
    BY <1>1, <1>5, VirtStepKeeps DEF LInv
  <1>6. ASSUME under = "delays" PROVE DelayInv'
    BY <1>1, <1>6, DelayStepKeeps DEF LInv
  <1> QED
    BY <1>1, <1>2, <1>3, <1>4, <1>5, <1>6 DEF LInv

(* The links spell their lists after any sequence of calls.                *)
LEMMA Invariance == Spec => []LInv
  BY LInvInit, LInvStep, PTL DEF Spec

(* Whatever is inserted, removed and taken out of the middle, the links    *)
(* of pcb.c and of asl.c lead to blocks and descriptors or nowhere, both   *)
(* links of a block at the same time, and who waits waits at an address.   *)
THEOREM TypeCorrect == Spec => []TypeOK
  <1>1. LInv => TypeOK
    BY QueueSafe, SemdSafe DEF LInv, TypeOK
  <1> QED
    BY <1>1, Invariance, PTL

(* Both links of a node agree in the process queues of pcb.c, no two of    *)
(* which share a block, between the siblings of its process tree, and in   *)
(* avsl.c until a head with others behind it is removed.                   *)
THEOREM LinksAgree == Spec => []Woven
  <1>1. LInv => Woven
    BY QueueSafe, TreeSiblings, VirtWoven DEF LInv, Woven
  <1> QED
    BY <1>1, Invariance, PTL

(* The active semaphore list of asl.c ascends after any calls, so that     *)
(* getPrevSemd misses no descriptor.                                       *)
THEOREM ActiveAscends == Spec => []Sorted
  <1>1. LInv => Sorted
    BY SemdSafe DEF LInv, Sorted
  <1> QED
    BY <1>1, Invariance, PTL

(* No descriptor of asl.c and no node of adl.c is ever lost: each is free  *)
(* or in use, and a descriptor is in use just while somebody waits.        *)
THEOREM NothingLeaks == Spec => []NoLeak
  <1>1. LInv => NoLeak
    BY SemdSafe, DelayNoLeak DEF LInv, NoLeak
  <1> QED
    BY <1>1, Invariance, PTL
==========================================================================
