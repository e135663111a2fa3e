--------------------------- MODULE QueueLemmas ---------------------------
(***************************************************************************)
(* Facts about process queues seen as sequences without repetition: what   *)
(* insertProcQ (Append), removeProcQ (Tail), outProcQ (RemoveFirst), the   *)
(* draining of one queue into another (\o) and insertChild (Cons) do to    *)
(* the set of members; and how many elements of a kind a sequence has.     *)
(* Then the same of sequences that are spelled by links: what becomes of   *)
(* one when a node is linked in or out, what Walk and Linked make of it,   *)
(* and where a search along it stops.  Nothing here mentions a state.      *)
(***************************************************************************)
EXTENDS Integers, Links, SequencesExt, FiniteSetTheorems, SequenceTheorems, TLAPS

(* A member of a queue is an element of its type.                          *)
LEMMA MemberType ==
  ASSUME NEW S, NEW q \in Seq(S)
  PROVE  /\ Range(q) \subseteq S
         /\ \A i \in 1..Len(q) : q[i] \in Range(q)
         /\ q # <<>> => Head(q) \in Range(q) /\ Last(q) \in Range(q)
         /\ q = <<>> <=> Range(q) = {}
  <1>1. DOMAIN q = 1..Len(q) /\ Len(q) \in Nat
    OBVIOUS
  <1>2. q # <<>> => Len(q) >= 1
    OBVIOUS
  <1>3. Range(q) \subseteq S /\ \A i \in 1..Len(q) : q[i] \in Range(q)
    BY <1>1 DEF Range
  <1>4. q # <<>> => Head(q) \in Range(q) /\ Last(q) \in Range(q)
    BY <1>1, <1>2, <1>3 DEF Last
  <1>5. q = <<>> => Range(q) = {}
    BY <1>1 DEF Range
  <1> QED
    BY <1>3, <1>4, <1>5

(* The empty queue has no member and repeats none.                         *)
LEMMA EmptyQueue == Range(<<>>) = {} /\ IsInjective(<<>>)
  BY DEF Range, IsInjective

(* insertProcQ of a process that is not in the queue.                      *)
LEMMA AppendMembers ==
  ASSUME NEW S, NEW q \in Seq(S), NEW x \in S
  PROVE  /\ Append(q, x) \in Seq(S)
         /\ Len(Append(q, x)) = Len(q) + 1
         /\ Range(Append(q, x)) = Range(q) \cup {x}
         /\ IsInjective(q) /\ x \notin Range(q) => IsInjective(Append(q, x))
  <1> DEFINE r == Append(q, x)
  <1>1. r \in Seq(S) /\ Len(r) = Len(q) + 1 /\ DOMAIN r = 1..Len(q) + 1
    OBVIOUS
  <1>2. \A i \in 1..Len(q) : r[i] = q[i]
    OBVIOUS
  <1>3. r[Len(q) + 1] = x
    OBVIOUS
  <1>4. Range(r) = Range(q) \cup {x}
    <2>1. Range(r) \subseteq Range(q) \cup {x}
      BY <1>1, <1>2, <1>3 DEF Range
    <2>2. Range(q) \subseteq Range(r)
      BY <1>1, <1>2 DEF Range
    <2>3. x \in Range(r)
      BY <1>1, <1>3 DEF Range
    <2> QED
      BY <2>1, <2>2, <2>3
  <1>5. ASSUME IsInjective(q), x \notin Range(q) PROVE IsInjective(r)
    BY <1>1, <1>2, <1>3, <1>5 DEF IsInjective, Range
  <1> QED
    BY <1>1, <1>4, <1>5

(* removeProcQ.                                                            *)
LEMMA TailMembers ==
  ASSUME NEW S, NEW q \in Seq(S), q # <<>>
  PROVE  /\ Tail(q) \in Seq(S)
         /\ Len(Tail(q)) = Len(q) - 1
         /\ Range(q) = Range(Tail(q)) \cup {Head(q)}
         /\ IsInjective(q) => /\ IsInjective(Tail(q))
                              /\ Head(q) \notin Range(Tail(q))
                              /\ Range(Tail(q)) = Range(q) \ {Head(q)}
  <1> DEFINE r == Tail(q)
  <1>1. r \in Seq(S) /\ Len(r) = Len(q) - 1 /\ DOMAIN r = 1..Len(q) - 1
        /\ Len(q) \in Nat \ {0} /\ DOMAIN q = 1..Len(q) /\ Head(q) = q[1]
    OBVIOUS
  <1>2. \A i \in 1..Len(q) - 1 : r[i] = q[i + 1]
    OBVIOUS
  <1>3. \A i \in 2..Len(q) : q[i] = r[i - 1]
    BY <1>1, <1>2
  <1>4. Range(q) = Range(r) \cup {Head(q)}
    <2>1. Range(q) \subseteq Range(r) \cup {Head(q)}
      <3> SUFFICES ASSUME NEW i \in 1..Len(q) PROVE q[i] \in Range(r) \cup {Head(q)}
        BY <1>1 DEF Range
      <3>1. CASE i = 1
        BY <1>1, <3>1
      <3>2. CASE i # 1
        <4>1. i \in 2..Len(q) /\ i - 1 \in 1..Len(q) - 1
          BY <1>1, <3>2
        <4> QED
          BY <1>1, <1>3, <4>1 DEF Range
      <3> QED
        BY <3>1, <3>2
    <2>2. Range(r) \subseteq Range(q)
      BY <1>1, <1>2 DEF Range
    <2>3. Head(q) \in Range(q)
      BY <1>1 DEF Range
    <2> QED
      BY <2>1, <2>2, <2>3
  <1>5. ASSUME IsInjective(q) PROVE IsInjective(r) /\ Head(q) \notin Range(r)
    BY <1>1, <1>2, <1>5 DEF IsInjective, Range
  <1> QED
    BY <1>1, <1>4, <1>5

(* The tick: every process of r joins the end of q.                        *)
LEMMA ConcatMembers ==
  ASSUME NEW S, NEW q \in Seq(S), NEW r \in Seq(S)
  PROVE  /\ q \o r \in Seq(S)
         /\ Range(q \o r) = Range(q) \cup Range(r)
         /\ IsInjective(q) /\ IsInjective(r) /\ Range(q) \cap Range(r) = {}
              => IsInjective(q \o r)
  <1> DEFINE c == q \o r
  <1>1. c \in Seq(S) /\ Len(c) = Len(q) + Len(r)
        /\ DOMAIN c = 1..Len(q) + Len(r) /\ Len(q) \in Nat /\ Len(r) \in Nat
        /\ DOMAIN q = 1..Len(q) /\ DOMAIN r = 1..Len(r)
    OBVIOUS
  <1>2. \A i \in 1..Len(q) : c[i] = q[i]
    OBVIOUS
  <1>3. \A i \in 1..Len(r) : c[Len(q) + i] = r[i]
    OBVIOUS
  <1>4. \A i \in DOMAIN c : \/ i \in 1..Len(q) /\ c[i] = q[i]
                            \/ i - Len(q) \in 1..Len(r) /\ c[i] = r[i - Len(q)]
    <2> SUFFICES ASSUME NEW i \in DOMAIN c, i \notin 1..Len(q)
                 PROVE  i - Len(q) \in 1..Len(r) /\ c[i] = r[i - Len(q)]
      BY <1>2
    <2>1. i - Len(q) \in 1..Len(r) /\ Len(q) + (i - Len(q)) = i
      BY <1>1
    <2> QED
      BY <1>3, <2>1
  <1>5. Range(c) = Range(q) \cup Range(r)
    <2>1. Range(c) \subseteq Range(q) \cup Range(r)
      BY <1>1, <1>4 DEF Range
    <2>2. Range(q) \subseteq Range(c)
      BY <1>1, <1>2 DEF Range
    <2>3. Range(r) \subseteq Range(c)
      <3> SUFFICES ASSUME NEW i \in 1..Len(r) PROVE r[i] \in Range(c)
        BY <1>1 DEF Range
      <3>1. Len(q) + i \in DOMAIN c
        BY <1>1
      <3> QED
        BY <1>3, <3>1 DEF Range
    <2> QED
      BY <2>1, <2>2, <2>3
  <1>6. ASSUME IsInjective(q), IsInjective(r), Range(q) \cap Range(r) = {}
        PROVE  IsInjective(c)
    <2> SUFFICES ASSUME NEW i \in DOMAIN c, NEW j \in DOMAIN c, c[i] = c[j]
                 PROVE  i = j
      BY DEF IsInjective
    <2> HIDE DEF c
    <2>1. CASE i \in 1..Len(q) /\ j \in 1..Len(q)
      BY <1>1, <1>2, <1>6, <2>1 DEF IsInjective
    <2>2. CASE i \notin 1..Len(q) /\ j \notin 1..Len(q)
      <3>1. i - Len(q) = j - Len(q)
        BY <1>1, <1>4, <1>6, <2>2 DEF IsInjective
      <3> QED
        BY <1>1, <3>1
    <2>3. CASE i \in 1..Len(q) /\ j \notin 1..Len(q)
      <3>1. c[i] \in Range(q) /\ c[j] \in Range(r)
        BY <1>1, <1>2, <1>4, <2>3 DEF Range
      <3> QED
        BY <1>6, <3>1
    <2>4. CASE i \notin 1..Len(q) /\ j \in 1..Len(q)
      <3>1. c[j] \in Range(q) /\ c[i] \in Range(r)
        BY <1>1, <1>2, <1>4, <2>4 DEF Range
      <3> QED
        BY <1>6, <3>1
    <2> QED
      BY <2>1, <2>2, <2>3, <2>4
  <1> QED
    BY <1>1, <1>5, <1>6

(* insertChild: the new child goes in front.                               *)
LEMMA ConsMembers ==
  ASSUME NEW S, NEW q \in Seq(S), NEW x \in S
  PROVE  /\ Cons(x, q) \in Seq(S)
         /\ Range(Cons(x, q)) = Range(q) \cup {x}
         /\ IsInjective(q) /\ x \notin Range(q) => IsInjective(Cons(x, q))
  <1> DEFINE s == <<x>>
  <1>1. s \in Seq(S) /\ Range(s) = {x} /\ IsInjective(s)
    BY DEF Range, IsInjective
  <1>2. Cons(x, q) = s \o q
    BY DEF Cons
  <1> HIDE DEF s
  <1>3. s \o q \in Seq(S) /\ Range(s \o q) = Range(s) \cup Range(q)
    BY <1>1, ConcatMembers
  <1>4. IsInjective(q) /\ x \notin Range(q) => IsInjective(s \o q)
    BY <1>1, ConcatMembers
  <1> QED
    BY <1>1, <1>2, <1>3, <1>4

(* The first of some positions.                                            *)
LEMMA LeastPosition ==
  ASSUME NEW I \in SUBSET Nat, I # {}
  PROVE  Min(I) \in I /\ \A m \in I : Min(I) <= m
  <1>1. \E n \in I : \A m \in I : n <= m
    <2>1. PICK n \in I : \A m \in I : <<m, n>> \notin OpToRel(<, Nat)
      BY NatLessThanWellFounded, WFMin
    <2>2. \A m \in I : <<m, n>> \notin {ss \in Nat \X Nat : ss[1] < ss[2]}
      BY <2>1 DEF OpToRel
    <2>3. \A m \in I : m \in Nat /\ n \in Nat
      OBVIOUS
    <2>4. \A m \in I : ~ (m < n)
      BY <2>2, <2>3
    <2> QED
      BY <2>3, <2>4
  <1> QED
    BY <1>1 DEF Min

(* The sequence without its k-th element.                                  *)
LEMMA RemoveAtShifts ==
  ASSUME NEW S, NEW q \in Seq(S), NEW k \in 1..Len(q)
  PROVE  /\ RemoveAt(q, k) \in Seq(S) /\ Len(RemoveAt(q, k)) = Len(q) - 1
         /\ \A i \in 1..(k - 1) : RemoveAt(q, k)[i] = q[i]
         /\ \A i \in k..(Len(q) - 1) : RemoveAt(q, k)[i] = q[i + 1]
  <1>0. DOMAIN q = 1..Len(q) /\ Len(q) \in Nat /\ k \in Nat
    OBVIOUS
  <1> DEFINE r == RemoveAt(q, k)
             a == SubSeq(q, 1, k - 1)
             b == SubSeq(q, k + 1, Len(q))
  <1>1. a \in Seq(S) /\ Len(a) = k - 1 /\ \A i \in 1..(k - 1) : a[i] = q[i]
    BY <1>0, SubSeqProperties
  <1>2. b \in Seq(S) /\ Len(b) = Len(q) - k
        /\ \A i \in 1..(Len(q) - k) : b[i] = q[k + i]
    <2>1. /\ k + 1 \in Int /\ Len(q) \in Int
          /\ \A i \in (k + 1)..Len(q) : q[i] \in S
      BY <1>0
    <2>2. /\ b \in Seq(S)
          /\ Len(b) = IF k + 1 <= Len(q) THEN Len(q) - (k + 1) + 1 ELSE 0
          /\ \A i \in 1..(Len(q) - (k + 1) + 1) : b[i] = q[(k + 1) + i - 1]
      BY <2>1, SubSeqProperties
    <2>3. ASSUME NEW i \in 1..(Len(q) - k) PROVE b[i] = q[k + i]
      <3>1. i \in 1..(Len(q) - (k + 1) + 1) /\ (k + 1) + i - 1 = k + i
        BY <1>0
      <3> QED
        BY <2>2, <3>1
    <2> HIDE DEF b
    <2>4. Len(b) = Len(q) - k
      <3>1. CASE k + 1 <= Len(q)
        BY <1>0, <2>2, <3>1
      <3>2. CASE k = Len(q)
        BY <1>0, <2>2, <3>2
      <3>3. k \in Int /\ Len(q) \in Int /\ k <= Len(q)
        BY <1>0
      <3>4. k + 1 <= Len(q) \/ k = Len(q)
        BY <3>3
      <3> QED
        BY <3>1, <3>2, <3>4
    <2> QED
      BY <2>2, <2>3, <2>4
  <1>3. r = a \o b
    BY DEF RemoveAt
  <1> HIDE DEF a, b, r
  <1>4. r \in Seq(S) /\ Len(r) = Len(a) + Len(b)
    BY <1>1, <1>2, <1>3, ConcatProperties
  <1>5. Len(r) = Len(q) - 1
    BY <1>0, <1>1, <1>2, <1>4
  <1>6. \A i \in 1..(k - 1) : r[i] = q[i]
    BY <1>0, <1>1, <1>2, <1>3
  <1>7. ASSUME NEW i \in k..(Len(q) - 1) PROVE r[i] = q[i + 1]
    <2>1. i - Len(a) \in 1..Len(b) /\ k + (i - Len(a)) = i + 1
          /\ i \in 1..(Len(a) + Len(b)) /\ i > Len(a)
      BY <1>0, <1>1, <1>2
    <2>2. r[i] = b[i - Len(a)]
      BY <1>1, <1>2, <1>3, <2>1, ConcatProperties
    <2>3. i - Len(a) \in 1..(Len(q) - k)
      BY <1>2, <2>1
    <2>4. b[i - Len(a)] = q[k + (i - Len(a))]
      BY <1>2, <2>3
    <2> QED
      BY <2>1, <2>2, <2>4
  <1> QED
    BY <1>4, <1>5, <1>6, <1>7 DEF r

(* outProcQ of any process: the others stay, each once.                    *)
LEMMA RemoveMembers ==
  ASSUME NEW S, NEW q \in Seq(S), NEW x
  PROVE  /\ RemoveFirst(q, x) \in Seq(S)
         /\ x \notin Range(q) => RemoveFirst(q, x) = q
         /\ x \in Range(q) => Len(RemoveFirst(q, x)) = Len(q) - 1
         /\ IsInjective(q) => /\ IsInjective(RemoveFirst(q, x))
                              /\ Range(RemoveFirst(q, x)) = Range(q) \ {x}
  <1> DEFINE r == RemoveFirst(q, x)
  <1>0. DOMAIN q = 1..Len(q) /\ Len(q) \in Nat
    OBVIOUS
  <1>1. CASE x \notin Range(q)
    <2>1. ~ \E i \in 1..Len(q) : q[i] = x
      BY <1>0, <1>1 DEF Range
    <2>2. r = q
      BY <2>1 DEF RemoveFirst
    <2> QED
      BY <1>1, <2>2
  <1>2. CASE x \in Range(q)
    <2> DEFINE I == {i \in 1..Len(q) : q[i] = x}
               k == SelectInSeq(q, LAMBDA v : v = x)
    <2>1. \E i \in 1..Len(q) : q[i] = x
      BY <1>0, <1>2 DEF Range
    <2>2. I \in SUBSET Nat /\ I # {}
      BY <1>0, <2>1
    <2>4. k = Min(I)
      BY <2>2 DEF SelectInSeq
    <2>5. k \in I
      BY <2>2, <2>4, LeastPosition
    <2>6. r = RemoveAt(q, k)
      BY <2>1 DEF RemoveFirst
    <2> HIDE DEF k, r
    <2>7. k \in 1..Len(q) /\ q[k] = x
      BY <2>5
    <2> DEFINE f == [i \in 1..(Len(q) - 1) |-> IF i < k THEN q[i] ELSE q[i + 1]]
    <2>8. f \in Seq(S) /\ Len(f) = Len(q) - 1
      BY <1>0, <2>7
    <2>9. r = f
      <3>1. /\ r \in Seq(S) /\ Len(r) = Len(q) - 1
            /\ \A i \in 1..(k - 1) : r[i] = q[i]
            /\ \A i \in k..(Len(q) - 1) : r[i] = q[i + 1]
        BY <2>6, <2>7, RemoveAtShifts
      <3>2. ASSUME NEW i \in 1..(Len(q) - 1) PROVE r[i] = f[i]
        BY <1>0, <2>7, <3>1
      <3> QED
        BY <2>8, <3>1, <3>2, SeqEqual
    <2>10. Range(q) \subseteq Range(f) \cup {x}
      <3> SUFFICES ASSUME NEW i \in 1..Len(q), i # k PROVE q[i] \in Range(f)
        BY <1>0, <2>7 DEF Range
      <3>1. CASE i < k
        <4>1. i \in DOMAIN f /\ f[i] = q[i]
          BY <1>0, <2>7, <3>1
        <4> QED
          BY <4>1 DEF Range
      <3>2. CASE i > k
        <4>1. i - 1 \in DOMAIN f /\ f[i - 1] = q[i]
          BY <1>0, <2>7, <3>2
        <4> QED
          BY <4>1 DEF Range
      <3> QED
        BY <1>0, <2>7, <3>1, <3>2
    <2>11. Range(f) \subseteq Range(q)
      BY <1>0, <2>7 DEF Range
    <2>12. ASSUME IsInjective(q) PROVE IsInjective(f) /\ x \notin Range(f)
      BY <1>0, <2>7, <2>12 DEF IsInjective, Range
    <2> QED
      BY <1>2, <2>8, <2>9, <2>10, <2>11, <2>12 DEF r
  <1> QED
    BY <1>1, <1>2

(* A queue without repetition has as many members as its length.           *)
LEMMA QueueCardinality ==
  ASSUME NEW S, NEW q \in Seq(S), IsInjective(q)
  PROVE  IsFiniteSet(Range(q)) /\ Cardinality(Range(q)) = Len(q)
  <1>1. DOMAIN q = 1..Len(q) /\ Len(q) \in Nat /\ q \in [1..Len(q) -> Range(q)]
    BY DEF Range
  <1>2. q \in Bijection(1..Len(q), Range(q))
    BY <1>1 DEF Bijection, Injection, Surjection, IsInjective, Range
  <1>3. ExistsBijection(1..Len(q), Range(q))
    BY <1>2 DEF ExistsBijection
  <1>4. IsFiniteSet(1..Len(q)) /\ Cardinality(1..Len(q)) = Len(q)
    BY <1>1, FS_Interval
  <1> QED
    BY <1>3, <1>4, FS_Bijection

---------------------------------------------------------------------------
(* The sequence with x before its k-th element.                            *)
LEMMA InsertAtShifts ==
  ASSUME NEW S, NEW q \in Seq(S), NEW k \in 1..(Len(q) + 1), NEW x \in S
  PROVE  /\ InsertAt(q, k, x) \in Seq(S) /\ Len(InsertAt(q, k, x)) = Len(q) + 1
         /\ InsertAt(q, k, x)[k] = x
         /\ \A i \in 1..(k - 1) : InsertAt(q, k, x)[i] = q[i]
         /\ \A i \in k..Len(q) : InsertAt(q, k, x)[i + 1] = q[i]
  <1>0. DOMAIN q = 1..Len(q) /\ Len(q) \in Nat /\ k \in Nat
    OBVIOUS
  <1> DEFINE r == InsertAt(q, k, x)
             a == SubSeq(q, 1, k - 1)
             b == SubSeq(q, k, Len(q))
             ax == a \o <<x>>
  <1>1. a \in Seq(S) /\ Len(a) = k - 1 /\ \A i \in 1..(k - 1) : a[i] = q[i]
    BY <1>0, SubSeqProperties
  <1>2. b \in Seq(S) /\ Len(b) = Len(q) - k + 1
        /\ \A i \in 1..(Len(q) - k + 1) : b[i] = q[k + i - 1]
    <2>1. /\ k \in Int /\ Len(q) \in Int /\ \A i \in k..Len(q) : q[i] \in S
      BY <1>0
    <2>2. /\ b \in Seq(S)
          /\ Len(b) = IF k <= Len(q) THEN Len(q) - k + 1 ELSE 0
          /\ \A i \in 1..(Len(q) - k + 1) : b[i] = q[k + i - 1]
      BY <2>1, SubSeqProperties
    <2> HIDE DEF b
    <2>3. k <= Len(q) \/ k = Len(q) + 1
      BY <1>0
    <2>4. Len(b) = Len(q) - k + 1
      BY <1>0, <2>2, <2>3
    <2> QED
      BY <2>2, <2>4
  <1>3. r = ax \o b
    BY DEF InsertAt
  <1>4. <<x>> \in Seq(S) /\ Len(<<x>>) = 1 /\ <<x>>[1] = x
    OBVIOUS
  <1> HIDE DEF a, b, r
  <1>5. /\ ax \in Seq(S) /\ Len(ax) = k
        /\ \A i \in 1..(k - 1) : ax[i] = q[i]
        /\ ax[k] = x
    BY <1>0, <1>1, <1>4
  <1> HIDE DEF ax
  <1>6. r \in Seq(S) /\ Len(r) = Len(ax) + Len(b)
    BY <1>2, <1>3, <1>5, ConcatProperties
  <1>7. Len(r) = Len(q) + 1
    BY <1>0, <1>2, <1>5, <1>6
  <1>8. r[k] = x /\ \A i \in 1..(k - 1) : r[i] = q[i]
    BY <1>0, <1>2, <1>3, <1>5
  <1>9. ASSUME NEW i \in k..Len(q) PROVE r[i + 1] = q[i]
    <2>1. (i + 1) - Len(ax) \in 1..Len(b) /\ k + ((i + 1) - Len(ax)) - 1 = i
          /\ i + 1 \in 1..(Len(ax) + Len(b)) /\ i + 1 > Len(ax)
      BY <1>0, <1>2, <1>5
    <2>2. r[i + 1] = b[(i + 1) - Len(ax)]
      BY <1>2, <1>3, <1>5, <2>1, ConcatProperties
    <2>3. (i + 1) - Len(ax) \in 1..(Len(q) - k + 1)
      BY <1>2, <2>1
    <2>4. b[(i + 1) - Len(ax)] = q[k + ((i + 1) - Len(ax)) - 1]
      BY <1>2, <2>3
    <2> QED
      BY <2>1, <2>2, <2>4
  <1> QED
    BY <1>6, <1>7, <1>8, <1>9 DEF r

(* How many elements of a sequence are in a set.                           *)
CountIn(q, A) == Cardinality({i \in DOMAIN q : q[i] \in A})

LEMMA CountInType ==
  ASSUME NEW S, NEW q \in Seq(S), NEW A
  PROVE  /\ IsFiniteSet({i \in DOMAIN q : q[i] \in A})
         /\ CountIn(q, A) \in Nat
         /\ CountIn(q, A) = 0 <=> \A i \in DOMAIN q : q[i] \notin A
         /\ CountIn(q, A) <= 1 <=>
              \A i, j \in DOMAIN q : q[i] \in A /\ q[j] \in A => i = j
  <1> DEFINE B == {i \in DOMAIN q : q[i] \in A}
  <1>1. DOMAIN q = 1..Len(q) /\ Len(q) \in Nat
    OBVIOUS
  <1>2. IsFiniteSet(B)
    <2>1. IsFiniteSet(1..Len(q))
      BY <1>1, FS_Interval
    <2> QED
      BY <1>1, <2>1, FS_Subset
  <1>3. Cardinality(B) \in Nat
    BY <1>2, FS_CardinalityType
  <1>4. Cardinality(B) = 0 <=> B = {}
    BY <1>2, FS_EmptySet
  <1>5. Cardinality(B) = 1 <=> \E i : B = {i}
    BY <1>2, FS_Singleton
  <1> HIDE DEF B
  <1>6. Cardinality(B) <= 1 <=> B = {} \/ \E i : B = {i}
    <2>1. Cardinality(B) <= 1 <=> Cardinality(B) = 0 \/ Cardinality(B) = 1
      BY <1>3
    <2> QED
      BY <1>4, <1>5, <2>1
  <1>7. B = {} \/ (\E i : B = {i}) <=> \A i, j \in B : i = j
    <2>1. ASSUME \A i, j \in B : i = j, B # {} PROVE \E i : B = {i}
      <3>1. PICK i : i \in B
        BY <2>1
      <3>2. B = {i}
        BY <2>1, <3>1
      <3> QED
        BY <3>2
    <2> QED
      BY <2>1
  <1>8. B = {} <=> \A i \in DOMAIN q : q[i] \notin A
    BY DEF B
  <1>9. (\A i, j \in B : i = j) <=>
          \A i, j \in DOMAIN q : q[i] \in A /\ q[j] \in A => i = j
    BY DEF B
  <1> QED
    BY <1>2, <1>3, <1>4, <1>6, <1>7, <1>8, <1>9 DEF CountIn, B

(* Without its k-th element a sequence has one less if that one is.        *)
LEMMA CountDrop ==
  ASSUME NEW S, NEW q \in Seq(S), NEW r \in Seq(S), NEW k \in 1..Len(q), NEW A,
         Len(r) = Len(q) - 1,
         \A i \in 1..(k - 1) : r[i] = q[i],
         \A i \in k..(Len(q) - 1) : r[i] = q[i + 1]
  PROVE  CountIn(q, A) = CountIn(r, A) + (IF q[k] \in A THEN 1 ELSE 0)
  <1> DEFINE Q == {i \in DOMAIN q : q[i] \in A}
             R == {i \in DOMAIN r : r[i] \in A}
             f == [i \in R |-> IF i < k THEN i ELSE i + 1]
  <1>1. /\ DOMAIN q = 1..Len(q) /\ Len(q) \in Nat /\ k \in Nat
        /\ DOMAIN r = 1..(Len(q) - 1)
    OBVIOUS
  <1>2. IsFiniteSet(Q) /\ IsFiniteSet(R)
    BY CountInType
  <1>3. f \in [R -> Q \ {k}]
    <2> SUFFICES ASSUME NEW i \in R PROVE f[i] \in Q \ {k}
      OBVIOUS
    <2>1. i \in 1..(Len(q) - 1) /\ r[i] \in A
      BY <1>1
    <2>2. CASE i < k
      BY <1>1, <2>1, <2>2
    <2>3. CASE ~ (i < k)
      <3>1. i \in k..(Len(q) - 1) /\ i + 1 \in 1..Len(q) /\ i + 1 # k
        BY <1>1, <2>1, <2>3
      <3>2. q[i + 1] \in A
        BY <2>1, <3>1
      <3> QED
        BY <1>1, <2>3, <3>1, <3>2
    <2> QED
      BY <2>2, <2>3
  <1>4. ASSUME NEW i \in R, NEW j \in R, f[i] = f[j] PROVE i = j
    BY <1>1, <1>4
  <1>5. ASSUME NEW j \in Q \ {k} PROVE \E i \in R : f[i] = j
    <2>1. j \in 1..Len(q) /\ j # k /\ q[j] \in A
      BY <1>1
    <2>2. CASE j < k
      <3>1. j \in 1..(k - 1) /\ j \in DOMAIN r
        BY <1>1, <2>1, <2>2
      <3>2. j \in R /\ f[j] = j
        BY <2>1, <2>2, <3>1
      <3> QED
        BY <3>2
    <2>3. CASE j > k
      <3>1. j - 1 \in k..(Len(q) - 1) /\ (j - 1) + 1 = j /\ j - 1 \in DOMAIN r
            /\ ~ (j - 1 < k)
        BY <1>1, <2>1, <2>3
      <3>2. r[j - 1] = q[j]
        BY <3>1
      <3>3. j - 1 \in R
        BY <2>1, <3>1, <3>2
      <3>4. f[j - 1] = j
        BY <3>1, <3>3
      <3> QED
        BY <3>3, <3>4
    <2>4. j < k \/ j > k
      BY <1>1, <2>1
    <2> QED
      BY <2>2, <2>3, <2>4
  <1> HIDE DEF Q, R, f
  <1>6. f \in Bijection(R, Q \ {k})
    BY <1>3, <1>4, <1>5 DEF Bijection, Injection, Surjection, IsInjective
  <1>7. Cardinality(Q \ {k}) = Cardinality(R)
    BY <1>2, <1>6, FS_Bijection DEF ExistsBijection
  <1>8. Cardinality(Q \ {k}) = IF k \in Q THEN Cardinality(Q) - 1 ELSE Cardinality(Q)
    BY <1>2, FS_RemoveElement
  <1>9. k \in Q <=> q[k] \in A
    BY <1>1 DEF Q
  <1>10. Cardinality(Q) \in Nat /\ Cardinality(R) \in Nat
    BY <1>2, FS_CardinalityType
  <1>11. Cardinality(Q) = Cardinality(R) + (IF q[k] \in A THEN 1 ELSE 0)
    BY <1>7, <1>8, <1>9, <1>10
  <1> QED
    BY <1>11 DEF CountIn, Q, R

LEMMA AppendCount ==
  ASSUME NEW S, NEW q \in Seq(S), NEW x \in S, NEW A
  PROVE  CountIn(Append(q, x), A) = CountIn(q, A) + (IF x \in A THEN 1 ELSE 0)
  <1> DEFINE r == Append(q, x)
             k == Len(q) + 1
  <1>1. /\ r \in Seq(S) /\ Len(r) = k /\ r[k] = x /\ Len(q) \in Nat /\ k \in 1..Len(r)
        /\ \A i \in 1..Len(q) : r[i] = q[i]
    OBVIOUS
  <1>2. Len(q) = Len(r) - 1 /\ k - 1 = Len(q) /\ k..(Len(r) - 1) = {}
    BY <1>1
  <1>3. \A i \in 1..(k - 1) : q[i] = r[i]
    BY <1>1, <1>2
  <1>4. \A i \in k..(Len(r) - 1) : q[i] = r[i + 1]
    BY <1>2
  <1> HIDE DEF r, k
  <1>5. CountIn(r, A) = CountIn(q, A) + (IF r[k] \in A THEN 1 ELSE 0)
    BY <1>1, <1>2, <1>3, <1>4, CountDrop
  <1> QED
    BY <1>1, <1>5 DEF r

LEMMA RemoveAtCount ==
  ASSUME NEW S, NEW q \in Seq(S), NEW k \in 1..Len(q), NEW A
  PROVE  CountIn(q, A) = CountIn(RemoveAt(q, k), A) + (IF q[k] \in A THEN 1 ELSE 0)
  <1> DEFINE r == RemoveAt(q, k)
  <1>1. /\ r \in Seq(S) /\ Len(r) = Len(q) - 1
        /\ \A i \in 1..(k - 1) : r[i] = q[i]
        /\ \A i \in k..(Len(q) - 1) : r[i] = q[i + 1]
    BY RemoveAtShifts
  <1> HIDE DEF r
  <1>2. CountIn(q, A) = CountIn(r, A) + (IF q[k] \in A THEN 1 ELSE 0)
    BY <1>1, CountDrop, SMTT(60)
  <1> QED
    BY <1>2 DEF r

LEMMA TailCount ==
  ASSUME NEW S, NEW q \in Seq(S), q # <<>>, NEW A
  PROVE  CountIn(q, A) = CountIn(Tail(q), A) + (IF Head(q) \in A THEN 1 ELSE 0)
  <1> DEFINE r == Tail(q)
  <1>1. /\ r \in Seq(S) /\ Len(r) = Len(q) - 1 /\ Len(q) \in Nat
        /\ 1 \in 1..Len(q) /\ Head(q) = q[1]
        /\ \A i \in 1..(1 - 1) : r[i] = q[i]
        /\ \A i \in 1..(Len(q) - 1) : r[i] = q[i + 1]
    OBVIOUS
  <1> HIDE DEF r
  <1>2. CountIn(q, A) = CountIn(r, A) + (IF q[1] \in A THEN 1 ELSE 0)
    BY <1>1, CountDrop, SMTT(60)
  <1> QED
    BY <1>1, <1>2 DEF r

LEMMA InsertAtCount ==
  ASSUME NEW S, NEW q \in Seq(S), NEW k \in 1..(Len(q) + 1), NEW x \in S, NEW A
  PROVE  CountIn(InsertAt(q, k, x), A) = CountIn(q, A) + (IF x \in A THEN 1 ELSE 0)
  <1> DEFINE r == InsertAt(q, k, x)
  <1>1. /\ r \in Seq(S) /\ Len(r) = Len(q) + 1 /\ r[k] = x
        /\ \A i \in 1..(k - 1) : r[i] = q[i]
        /\ \A i \in k..Len(q) : r[i + 1] = q[i]
    BY InsertAtShifts
  <1>2. Len(q) \in Nat /\ k \in 1..Len(r) /\ Len(q) = Len(r) - 1
    BY <1>1
  <1> HIDE DEF r
  <1>3. \A i \in 1..(k - 1) : q[i] = r[i]
    BY <1>1
  <1>4. \A i \in k..(Len(r) - 1) : q[i] = r[i + 1]
    BY <1>1, <1>2
  <1>5. CountIn(r, A) = CountIn(q, A) + (IF r[k] \in A THEN 1 ELSE 0)
    BY <1>1, <1>2, <1>3, <1>4, CountDrop, SMTT(60)
  <1> QED
    BY <1>1, <1>5 DEF r

(* Two sets that differ at most in x.                                      *)
LEMMA OneChange ==
  ASSUME NEW A, NEW B, NEW x, IsFiniteSet(A), A \ {x} = B \ {x}
  PROVE  /\ IsFiniteSet(B)
         /\ Cardinality(A) + (IF x \in B THEN 1 ELSE 0) =
              Cardinality(B) + (IF x \in A THEN 1 ELSE 0)
  <1>1. IsFiniteSet(A \ {x})
        /\ Cardinality(A \ {x}) = IF x \in A THEN Cardinality(A) - 1 ELSE Cardinality(A)
    BY FS_RemoveElement
  <1>2. IsFiniteSet(B)
    <2>1. B \subseteq (A \ {x}) \cup {x}
      OBVIOUS
    <2>2. IsFiniteSet((A \ {x}) \cup {x})
      BY <1>1, FS_AddElement
    <2> QED
      BY <2>1, <2>2, FS_Subset
  <1>3. Cardinality(B \ {x}) = IF x \in B THEN Cardinality(B) - 1 ELSE Cardinality(B)
    BY <1>2, FS_RemoveElement
  <1>4. Cardinality(A) \in Nat /\ Cardinality(B) \in Nat
    BY <1>2, FS_CardinalityType
  <1>5. (IF x \in A THEN Cardinality(A) - 1 ELSE Cardinality(A)) =
        (IF x \in B THEN Cardinality(B) - 1 ELSE Cardinality(B))
    BY <1>1, <1>3
  <1> QED
    BY <1>2, <1>4, <1>5
--------------------------------------------------------------------------
(* w visits the nodes that Walk is about.                                  *)
IsWalk(w, link, n, null, N) ==
  w = [i \in 1..N |->
        IF i = 1 THEN n ELSE LET m == w[i - 1] IN IF m = null THEN null ELSE link[m]]

(* From every node there is a walk of every length.                        *)
LEMMA WalkExists ==
  ASSUME NEW link, NEW n, NEW null, NEW N \in Nat
  PROVE  \E w : IsWalk(w, link, n, null, N)
  <1> DEFINE Bad == {m \in Nat : ~ \E w : IsWalk(w, link, n, null, m)}
  <1> SUFFICES ASSUME Bad # {} PROVE FALSE
    OBVIOUS
  <1>1. PICK m \in Bad : \A k \in Bad : m <= k
    BY LeastPosition
  <1>2. m \in Nat /\ ~ \E w : IsWalk(w, link, n, null, m)
    OBVIOUS
  <1>3. CASE m = 0
    <2>1. IsWalk(<<>>, link, n, null, 0)
      BY DEF IsWalk
    <2> QED
      BY <1>2, <1>3, <2>1
  <1>4. CASE m # 0
    <2>1. m - 1 \in Nat /\ m - 1 \notin Bad
      BY <1>1, <1>2, <1>4
    <2>2. PICK w : IsWalk(w, link, n, null, m - 1)
      BY <2>1
    <2> DEFINE b == w[m - 1]
               v == [i \in 1..m |-> IF i < m THEN w[i]
                                    ELSE IF m = 1 THEN n
                                    ELSE IF b = null THEN null ELSE link[b]]
    <2>3. ASSUME NEW i \in 1..m
          PROVE  v[i] = IF i = 1 THEN n
                        ELSE IF v[i - 1] = null THEN null ELSE link[v[i - 1]]
      <3>1. CASE i = m
        <4>1. m # 1 => v[i - 1] = b
          BY <1>2, <1>4, <3>1
        <4> QED
          BY <1>2, <1>4, <3>1, <4>1
      <3>2. CASE i < m
        <4>1. i \in 1..(m - 1) /\ v[i] = w[i]
          BY <1>2, <1>4, <3>2
        <4>2. i # 1 => i - 1 \in 1..m /\ i - 1 < m /\ v[i - 1] = w[i - 1]
          BY <1>2, <1>4, <3>2
        <4> HIDE DEF v
        <4>3. w[i] = IF i = 1 THEN n
                     ELSE IF w[i - 1] = null THEN null ELSE link[w[i - 1]]
          BY <2>2, <4>1 DEF IsWalk
        <4> QED
          BY <4>1, <4>2, <4>3
      <3> QED
        BY <1>2, <3>1, <3>2
    <2>4. v = [i \in 1..m |-> v[i]]
      OBVIOUS
    <2> HIDE DEF v
    <2>5. IsWalk(v, link, n, null, m)
      BY <2>3, <2>4 DEF IsWalk
    <2> QED
      BY <1>2, <2>5
  <1> QED
    BY <1>3, <1>4

(* A walk begins at n and goes on along the link, until null.              *)
LEMMA WalkSteps ==
  ASSUME NEW link, NEW n, NEW null, NEW N \in Nat
  PROVE  /\ N # 0 => Walk(link, n, null, N)[1] = n
         /\ \A i \in 1..(N - 1) :
              LET m == Walk(link, n, null, N)[i]
              IN  Walk(link, n, null, N)[i + 1] = IF m = null THEN null ELSE link[m]
  <1> DEFINE w == Walk(link, n, null, N)
  <1>1. w = CHOOSE v : IsWalk(v, link, n, null, N)
    BY DEF Walk, IsWalk
  <1>2. IsWalk(w, link, n, null, N)
    BY <1>1, WalkExists
  <1> HIDE DEF w
  <1>3. ASSUME NEW i \in 1..N
        PROVE  w[i] = IF i = 1 THEN n
                      ELSE IF w[i - 1] = null THEN null ELSE link[w[i - 1]]
    BY <1>2, <1>3 DEF IsWalk
  <1>4. N # 0 => w[1] = n
    BY <1>3
  <1>5. ASSUME NEW i \in 1..(N - 1)
        PROVE  w[i + 1] = IF w[i] = null THEN null ELSE link[w[i]]
    <2>1. i + 1 \in 1..N /\ i + 1 # 1 /\ (i + 1) - 1 = i
      OBVIOUS
    <2> QED
      BY <1>3, <2>1
  <1> QED
    BY <1>4, <1>5 DEF w

(* The links of the nodes of q lead from each to the next, and from the    *)
(* last to end.                                                            *)
Spells(S, link, q, end) ==
  /\ q \in Seq(S) /\ IsInjective(q)
  /\ \A i \in 1..Len(q) : link[q[i]] = IF i < Len(q) THEN q[i + 1] ELSE end

First(q, null) == IF q = <<>> THEN null ELSE q[1]

(* A list of different nodes is no longer than the table.                  *)
LEMMA NoLonger ==
  ASSUME NEW S, IsFiniteSet(S), NEW q \in Seq(S), IsInjective(q)
  PROVE  Len(q) <= Cardinality(S)
  <1>1. Range(q) \subseteq S
    BY MemberType
  <1>2. Cardinality(Range(q)) = Len(q)
    BY QueueCardinality
  <1> QED
    BY <1>1, <1>2, FS_Subset

(* Two positions of a list hold two nodes.                                 *)
LEMMA Positions ==
  ASSUME NEW S, NEW q \in Seq(S), IsInjective(q)
  PROVE  /\ Len(q) \in Nat /\ DOMAIN q = 1..Len(q)
         /\ \A i \in 1..Len(q) : q[i] \in S /\ q[i] \in Range(q)
         /\ \A i, j \in 1..Len(q) : q[i] = q[j] => i = j
         /\ \A x \in Range(q) : \E i \in 1..Len(q) : x = q[i]
  BY DEF IsInjective, Range

(* The walk along such links visits the list in its order.                 *)
LEMMA WalkSpells ==
  ASSUME NEW S, NEW null, null \notin S, NEW N \in Nat, NEW link, NEW q, NEW end,
         Spells(S, link, q, end), q # <<>>, NEW j \in 1..Len(q), j <= N
  PROVE  Walk(link, q[1], null, N)[j] = q[j]
  <1> DEFINE w == Walk(link, q[1], null, N)
             Bad == {i \in Nat : i \in 1..Len(q) /\ i <= N /\ w[i] # q[i]}
  <1> SUFFICES ASSUME Bad # {} PROVE FALSE
    OBVIOUS
  <1>0. /\ q \in Seq(S) /\ Len(q) \in Nat
        /\ \A i \in 1..Len(q) : q[i] \in S
        /\ \A i \in 1..Len(q) : link[q[i]] = IF i < Len(q) THEN q[i + 1] ELSE end
    BY Positions DEF Spells
  <1>1. PICK k \in Bad : \A i \in Bad : k <= i
    BY LeastPosition
  <1>2. /\ N # 0 => w[1] = q[1]
        /\ \A i \in 1..(N - 1) : w[i + 1] = IF w[i] = null THEN null ELSE link[w[i]]
    BY WalkSteps
  <1> HIDE DEF w
  <1>3. k # 1 /\ k - 1 \in Nat /\ k - 1 \in 1..Len(q) /\ k - 1 \in 1..(N - 1) /\ k - 1 < Len(q)
    BY <1>0, <1>2
  <1>4. k - 1 \notin Bad
    BY <1>1, <1>3
  <1>5. w[k - 1] = q[k - 1]
    BY <1>3, <1>4
  <1>6. (k - 1) + 1 = k
    BY <1>3
  <1>7. w[k] = link[q[k - 1]]
    BY <1>0, <1>2, <1>3, <1>5, <1>6
  <1>8. link[q[k - 1]] = q[k]
    BY <1>0, <1>3, <1>6
  <1> QED
    BY <1>7, <1>8

(* A walk that begins with q, cut where q ends.                            *)
LEMMA SubSeqIsPrefix ==
  ASSUME NEW S, NEW q \in Seq(S), NEW w, \A i \in 1..Len(q) : w[i] = q[i]
  PROVE  SubSeq(w, 1, Len(q)) = q
  <1>1. Len(q) \in Nat /\ \A i \in 1..Len(q) : w[i] \in S
    OBVIOUS
  <1>2. /\ SubSeq(w, 1, Len(q)) \in Seq(S)
        /\ Len(SubSeq(w, 1, Len(q))) = IF 1 <= Len(q) THEN Len(q) - 1 + 1 ELSE 0
        /\ \A i \in 1..(Len(q) - 1 + 1) : SubSeq(w, 1, Len(q))[i] = w[1 + i - 1]
    BY <1>1, SubSeqProperties
  <1> DEFINE r == SubSeq(w, 1, Len(q))
  <1> HIDE DEF r
  <1>3. r \in Seq(S) /\ Len(r) = Len(q)
    BY <1>1, <1>2 DEF r
  <1>4. ASSUME NEW i \in 1..Len(q) PROVE r[i] = q[i]
    <2>1. i \in 1..(Len(q) - 1 + 1) /\ 1 + i - 1 = i
      BY <1>1
    <2> QED
      BY <1>2, <2>1 DEF r
  <1>5. r = q
    BY <1>3, <1>4, SeqEqual
  <1> QED
    BY <1>5 DEF r

(* What Linked makes of a list that ends or comes back to its first node.  *)
LEMMA LinkedSpells ==
  ASSUME NEW S, NEW null, null \notin S, NEW N \in Nat, NEW link, NEW q, NEW end,
         Spells(S, link, q, end), Len(q) <= N,
         end = null \/ (q # <<>> /\ end = q[1])
  PROVE  Linked(link, First(q, null), null, N) = q
  <1> DEFINE n == First(q, null)
             w == Walk(link, n, null, N)
             On(j) == w[j] # null /\ (j > 1 => w[j] # n)
  <1>0. /\ q \in Seq(S) /\ Len(q) \in Nat /\ IsInjective(q)
        /\ \A i \in 1..Len(q) : q[i] \in S
        /\ \A i, j \in 1..Len(q) : q[i] = q[j] => i = j
        /\ \A i \in 1..Len(q) : link[q[i]] = IF i < Len(q) THEN q[i + 1] ELSE end
    BY Positions DEF Spells
  <1>1. ASSUME NEW i \in 1..Len(q) PROVE w[i] = q[i]
    <2>1. q # <<>> /\ i <= N /\ n = q[1]
      BY <1>0 DEF First
    <2> QED
      BY <1>0, <2>1, WalkSpells
  <1>2. /\ N # 0 => w[1] = n
        /\ \A i \in 1..(N - 1) : w[i + 1] = IF w[i] = null THEN null ELSE link[w[i]]
    BY WalkSteps
  <1>3. Linked(link, n, null, N) = [i \in {k \in 1..N : \A j \in 1..k : On(j)} |-> w[i]]
    BY DEF Linked
  <1> HIDE DEF w, n
  <1>4. ASSUME NEW i \in 1..Len(q) PROVE On(i)
    <2>1. w[i] \in S
      BY <1>0, <1>1
    <2>2. i > 1 => n = q[1] /\ 1 \in 1..Len(q)
      BY <1>0 DEF First, n
    <2> QED
      BY <1>0, <1>1, <2>1, <2>2
  <1>5. ASSUME Len(q) < N PROVE ~ On(Len(q) + 1)
    <2>1. CASE q = <<>>
      <3>1. Len(q) = 0 /\ n = null /\ N # 0
        BY <1>0, <1>5, <2>1 DEF First, n
      <3> QED
        BY <1>2, <3>1
    <2>2. CASE q # <<>>
      <3>1. Len(q) \in 1..Len(q) /\ Len(q) \in 1..(N - 1)
        BY <1>0, <1>5, <2>2
      <3>2. w[Len(q)] = q[Len(q)] /\ q[Len(q)] \in S
        BY <1>0, <1>1, <3>1
      <3>3. w[Len(q) + 1] = end
        BY <1>0, <1>2, <3>1, <3>2
      <3>4. Len(q) + 1 > 1
        BY <1>0, <3>1
      <3>5. end = null \/ end = n
        BY <2>2 DEF First, n
      <3> QED
        BY <3>3, <3>4, <3>5
    <2> QED
      BY <2>1, <2>2
  <1> HIDE DEF On
  <1>6. {k \in 1..N : \A j \in 1..k : On(j)} = 1..Len(q)
    <2>1. ASSUME NEW k \in 1..Len(q) PROVE k \in 1..N /\ \A j \in 1..k : On(j)
      <3>1. k \in 1..N /\ \A j \in 1..k : j \in 1..Len(q)
        BY <1>0
      <3> QED
        BY <1>4, <3>1
    <2>2. ASSUME NEW k \in 1..N, \A j \in 1..k : On(j) PROVE k \in 1..Len(q)
      <3>1. CASE Len(q) < k
        <4>1. Len(q) < N /\ Len(q) + 1 \in 1..k
          BY <1>0, <3>1
        <4> QED
          BY <1>5, <2>2, <4>1
      <3> QED
        BY <1>0, <3>1
    <2> QED
      BY <2>1, <2>2
  <1>7. [i \in 1..Len(q) |-> w[i]] = q
    BY <1>0, <1>1
  <1> QED
    BY <1>3, <1>6, <1>7 DEF n

(* q is r without its k-th element.                                        *)
Without(S, r, q, k) ==
  /\ r \in Seq(S) /\ q \in Seq(S) /\ Len(r) = Len(q) + 1 /\ k \in 1..Len(r)
  /\ \A i \in 1..(k - 1) : q[i] = r[i]
  /\ \A i \in k..Len(q) : q[i] = r[i + 1]

(* The elements and their difference, of r and of q.                       *)
LEMMA WithoutMembers ==
  ASSUME NEW S, NEW r, NEW q, NEW k, Without(S, r, q, k)
  PROVE  /\ Range(r) = Range(q) \cup {r[k]}
         /\ IsInjective(r) <=> IsInjective(q) /\ r[k] \notin Range(q)
  <1>1. /\ Len(r) \in Nat /\ Len(q) \in Nat /\ Len(r) = Len(q) + 1 /\ k \in 1..Len(r)
        /\ DOMAIN r = 1..Len(r) /\ DOMAIN q = 1..Len(q)
        /\ \A i \in 1..(k - 1) : q[i] = r[i]
        /\ \A i \in k..Len(q) : q[i] = r[i + 1]
    BY DEF Without
  <1>2. \A i \in 1..Len(r) : \/ i < k /\ i \in 1..Len(q) /\ r[i] = q[i]
                             \/ i = k
                             \/ i > k /\ i - 1 \in 1..Len(q) /\ r[i] = q[i - 1]
    <2> SUFFICES ASSUME NEW i \in 1..Len(r), i > k
                 PROVE  i - 1 \in 1..Len(q) /\ r[i] = q[i - 1]
      BY <1>1
    <2>1. i - 1 \in k..Len(q) /\ (i - 1) + 1 = i /\ i - 1 \in 1..Len(q)
      BY <1>1
    <2> QED
      BY <1>1, <2>1
  <1>3. \A i \in 1..Len(q) : \/ i < k /\ i \in 1..Len(r) /\ q[i] = r[i]
                             \/ i >= k /\ i + 1 \in 1..Len(r) /\ q[i] = r[i + 1]
    BY <1>1
  <1>4. Range(r) \subseteq Range(q) \cup {r[k]}
    BY <1>1, <1>2 DEF Range
  <1>5. Range(q) \cup {r[k]} \subseteq Range(r)
    BY <1>1, <1>3 DEF Range
  <1>6. ASSUME IsInjective(r) PROVE IsInjective(q) /\ r[k] \notin Range(q)
    <2>1. \A i, j \in 1..Len(r) : r[i] = r[j] => i = j
      BY <1>1, <1>6 DEF IsInjective
    <2>2. IsInjective(q)
      BY <1>1, <1>3, <2>1 DEF IsInjective
    <2>3. ASSUME NEW i \in 1..Len(q) PROVE q[i] # r[k]
      BY <1>1, <1>3, <2>1
    <2> QED
      BY <1>1, <2>2, <2>3 DEF Range
  <1>7. ASSUME IsInjective(q), r[k] \notin Range(q) PROVE IsInjective(r)
    <2>1. \A i, j \in 1..Len(q) : q[i] = q[j] => i = j
      BY <1>1, <1>7 DEF IsInjective
    <2>2. \A i \in 1..Len(q) : q[i] # r[k]
      BY <1>1, <1>7 DEF Range
    <2>3. ASSUME NEW i \in 1..Len(r), NEW j \in 1..Len(r), r[i] = r[j], i < j
          PROVE  FALSE
      <3>1. CASE i < k
        <4>1. CASE j < k
          BY <1>1, <1>2, <2>1, <2>3, <3>1, <4>1
        <4>2. CASE j = k
          BY <1>1, <1>2, <2>2, <2>3, <3>1, <4>2
        <4>3. CASE j > k
          BY <1>1, <1>2, <2>1, <2>3, <3>1, <4>3
        <4> QED
          BY <1>1, <4>1, <4>2, <4>3
      <3>2. CASE i = k
        BY <1>1, <1>2, <2>2, <2>3, <3>2
      <3>3. CASE i > k
        BY <1>1, <1>2, <2>1, <2>3, <3>3
      <3> QED
        BY <1>1, <3>1, <3>2, <3>3
    <2>4. \A i, j \in 1..Len(r) : r[i] = r[j] => i = j
      <3> SUFFICES ASSUME NEW i \in 1..Len(r), NEW j \in 1..Len(r), r[i] = r[j], i # j
                   PROVE  FALSE
        OBVIOUS
      <3>1. i < j \/ j < i
        BY <1>1
      <3> QED
        BY <2>3, <3>1
    <2> QED
      BY <1>1, <2>4 DEF IsInjective
  <1> QED
    BY <1>4, <1>5, <1>6, <1>7

(* How Without comes about.                                                *)
LEMMA WithoutRemoved ==
  ASSUME NEW S, NEW r \in Seq(S), NEW k \in 1..Len(r)
  PROVE  Without(S, r, RemoveAt(r, k), k)
  <1>1. /\ RemoveAt(r, k) \in Seq(S) /\ Len(RemoveAt(r, k)) = Len(r) - 1
        /\ \A i \in 1..(k - 1) : RemoveAt(r, k)[i] = r[i]
        /\ \A i \in k..(Len(r) - 1) : RemoveAt(r, k)[i] = r[i + 1]
    BY RemoveAtShifts
  <1> QED
    BY <1>1 DEF Without

(* Taking out what was inserted leaves the list.                           *)
LEMMA WithoutInserted ==
  ASSUME NEW S, NEW q \in Seq(S), NEW x \in S, NEW k \in 1..(Len(q) + 1)
  PROVE  Without(S, InsertAt(q, k, x), q, k) /\ InsertAt(q, k, x)[k] = x
  <1>1. /\ InsertAt(q, k, x) \in Seq(S) /\ Len(InsertAt(q, k, x)) = Len(q) + 1
        /\ InsertAt(q, k, x)[k] = x
        /\ \A i \in 1..(k - 1) : InsertAt(q, k, x)[i] = q[i]
        /\ \A i \in k..Len(q) : InsertAt(q, k, x)[i + 1] = q[i]
    BY InsertAtShifts
  <1> QED
    BY <1>1 DEF Without

(* The longer list is the shorter one with an element put in.              *)
LEMMA WithoutInserts ==
  ASSUME NEW S, NEW r, NEW q, NEW k, Without(S, r, q, k)
  PROVE  r = InsertAt(q, k, r[k])
  <1> DEFINE t == InsertAt(q, k, r[k])
  <1>1. /\ r \in Seq(S) /\ q \in Seq(S) /\ Len(r) = Len(q) + 1 /\ k \in 1..Len(r)
        /\ Len(q) \in Nat
        /\ \A i \in 1..(k - 1) : q[i] = r[i]
        /\ \A i \in k..Len(q) : q[i] = r[i + 1]
    BY DEF Without
  <1>2. r[k] \in S /\ k \in 1..(Len(q) + 1)
    BY <1>1
  <1>3. /\ t \in Seq(S) /\ Len(t) = Len(q) + 1 /\ t[k] = r[k]
        /\ \A i \in 1..(k - 1) : t[i] = q[i]
        /\ \A i \in k..Len(q) : t[i + 1] = q[i]
    BY <1>1, <1>2, InsertAtShifts
  <1> HIDE DEF t
  <1>4. ASSUME NEW i \in 1..Len(r) PROVE r[i] = t[i]
    <2>1. CASE i < k
      BY <1>1, <1>3, <2>1
    <2>2. CASE i = k
      BY <1>3, <2>2
    <2>3. CASE i > k
      <3>1. PICK j \in k..Len(q) : j + 1 = i
        <4>1. (i - 1) \in k..Len(q) /\ (i - 1) + 1 = i
          BY <1>1, <2>3
        <4> QED
          BY <4>1
      <3>2. t[j + 1] = q[j] /\ q[j] = r[j + 1]
        BY <1>1, <1>3
      <3> QED
        BY <3>1, <3>2
    <2>4. i \in Nat /\ k \in Nat
      BY <1>1
    <2> QED
      BY <2>1, <2>2, <2>3, <2>4
  <1>5. r = [i \in 1..Len(r) |-> r[i]] /\ t = [i \in 1..Len(t) |-> t[i]]
    BY <1>1, <1>3
  <1> QED
    BY <1>1, <1>3, <1>4, <1>5 DEF t

(* A link that agrees on the nodes of a list spells the same list.         *)
LEMMA SpellsKept ==
  ASSUME NEW S, NEW link, NEW other, NEW q, NEW end, Spells(S, link, q, end),
         \A x \in Range(q) : other[x] = link[x]
  PROVE  Spells(S, other, q, end)
  <1>1. \A i \in 1..Len(q) : q[i] \in Range(q)
    BY Positions DEF Spells
  <1> QED
    BY <1>1 DEF Spells

(* One node less on a list that ends: the first.                           *)
LEMMA SpellsPop ==
  ASSUME NEW S, NEW link, NEW q, NEW end, Spells(S, link, q, end), q # <<>>
  PROVE  /\ Spells(S, link, Tail(q), end) /\ First(Tail(q), end) = link[q[1]]
         /\ Range(Tail(q)) = Range(q) \ {q[1]}
  <1> DEFINE r == Tail(q)
  <1>1. /\ q \in Seq(S) /\ Len(q) \in Nat \ {0} /\ IsInjective(q)
        /\ \A i \in 1..Len(q) : link[q[i]] = IF i < Len(q) THEN q[i + 1] ELSE end
    BY DEF Spells
  <1>2. /\ r \in Seq(S) /\ Len(r) = Len(q) - 1
        /\ \A i \in 1..(Len(q) - 1) : r[i] = q[i + 1]
    BY <1>1
  <1>3. Without(S, q, r, 1)
    BY <1>1, <1>2 DEF Without
  <1> HIDE DEF r
  <1>4. IsInjective(r) /\ Range(r) = Range(q) \ {q[1]}
    BY <1>1, <1>3, WithoutMembers
  <1>5. ASSUME NEW i \in 1..Len(r) PROVE link[r[i]] = IF i < Len(r) THEN r[i + 1] ELSE end
    <2>1. i + 1 \in 1..Len(q) /\ r[i] = q[i + 1] /\ (i < Len(r) <=> i + 1 < Len(q))
      BY <1>1, <1>2
    <2>2. i < Len(r) => r[i + 1] = q[(i + 1) + 1]
      BY <1>1, <1>2
    <2> QED
      BY <1>1, <2>1, <2>2
  <1>6. Spells(S, link, r, end)
    BY <1>2, <1>4, <1>5 DEF Spells
  <1>7. First(r, end) = link[q[1]]
    <2>1. link[q[1]] = IF 1 < Len(q) THEN q[1 + 1] ELSE end
      BY <1>1
    <2>2. r = <<>> <=> Len(r) = 0
      BY <1>2
    <2> QED
      BY <1>1, <1>2, <2>1, <2>2 DEF First
  <1> QED
    BY <1>4, <1>6, <1>7 DEF r

(* One node more: in front ...                                             *)
LEMMA SpellsPush ==
  ASSUME NEW S, NEW link, NEW other, NEW q, NEW end, Spells(S, link, q, end),
         NEW x \in S, x \notin Range(q), other[x] = First(q, end),
         \A y \in Range(q) : other[y] = link[y]
  PROVE  /\ Spells(S, other, InsertAt(q, 1, x), end) /\ First(InsertAt(q, 1, x), end) = x
         /\ Range(InsertAt(q, 1, x)) = Range(q) \cup {x}
  <1> DEFINE r == InsertAt(q, 1, x)
  <1>1. /\ q \in Seq(S) /\ Len(q) \in Nat /\ IsInjective(q)
        /\ \A i \in 1..Len(q) : q[i] \in Range(q)
        /\ \A i \in 1..Len(q) : link[q[i]] = IF i < Len(q) THEN q[i + 1] ELSE end
    BY Positions DEF Spells
  <1>2. Without(S, r, q, 1) /\ r[1] = x
    <2>1. 1 \in 1..(Len(q) + 1)
      BY <1>1
    <2> QED
      BY <1>1, <2>1, WithoutInserted
  <1> HIDE DEF r
  <1>3. Range(r) = Range(q) \cup {x} /\ IsInjective(r)
    BY <1>1, <1>2, WithoutMembers
  <1>4. /\ r \in Seq(S) /\ Len(r) = Len(q) + 1 /\ r # <<>>
        /\ \A i \in 1..Len(q) : q[i] = r[i + 1]
    BY <1>1, <1>2 DEF Without
  <1>5. ASSUME NEW i \in 1..Len(r) PROVE other[r[i]] = IF i < Len(r) THEN r[i + 1] ELSE end
    <2>1. CASE i = 1
      <3>1. q = <<>> <=> Len(q) = 0
        BY <1>1
      <3>2. Len(q) # 0 => q[1] = r[1 + 1]
        BY <1>1, <1>4
      <3> QED
        BY <1>1, <1>2, <1>4, <2>1, <3>1, <3>2 DEF First
    <2>2. CASE i # 1
      <3>1. i - 1 \in 1..Len(q) /\ (i - 1) + 1 = i /\ (i - 1 < Len(q) <=> i < Len(r))
        BY <1>1, <1>4, <2>2
      <3>2. r[i] = q[i - 1] /\ other[r[i]] = link[q[i - 1]]
        BY <1>1, <1>4, <3>1
      <3>3. link[q[i - 1]] = IF i - 1 < Len(q) THEN q[i] ELSE end
        BY <1>1, <3>1
      <3>4. i < Len(r) => q[i] = r[i + 1]
        BY <1>1, <1>4
      <3> QED
        BY <3>1, <3>2, <3>3, <3>4
    <2> QED
      BY <2>1, <2>2
  <1>6. Spells(S, other, r, end)
    BY <1>3, <1>4, <1>5 DEF Spells
  <1>7. First(r, end) = x
    BY <1>2, <1>4 DEF First
  <1> QED
    BY <1>3, <1>6, <1>7 DEF r

(* ... or behind another.                                                  *)
LEMMA SpellsWeave ==
  ASSUME NEW S, NEW link, NEW other, NEW q, NEW end, Spells(S, link, q, end),
         NEW k \in 1..Len(q), NEW x \in S, x \notin Range(q),
         other[q[k]] = x, other[x] = link[q[k]],
         \A y \in Range(q) \ {q[k]} : other[y] = link[y]
  PROVE  /\ Spells(S, other, InsertAt(q, k + 1, x), end)
         /\ Without(S, InsertAt(q, k + 1, x), q, k + 1)
         /\ InsertAt(q, k + 1, x)[k + 1] = x
         /\ Range(InsertAt(q, k + 1, x)) = Range(q) \cup {x}
  <1> DEFINE r == InsertAt(q, k + 1, x)
  <1>1. /\ q \in Seq(S) /\ Len(q) \in Nat /\ IsInjective(q)
        /\ \A i \in 1..Len(q) : q[i] \in Range(q)
        /\ \A i, j \in 1..Len(q) : q[i] = q[j] => i = j
        /\ \A i \in 1..Len(q) : link[q[i]] = IF i < Len(q) THEN q[i + 1] ELSE end
    BY Positions DEF Spells
  <1>2. Without(S, r, q, k + 1) /\ r[k + 1] = x
    <2>1. k + 1 \in 1..(Len(q) + 1)
      BY <1>1
    <2> QED
      BY <1>1, <2>1, WithoutInserted
  <1> HIDE DEF r
  <1>3. Range(r) = Range(q) \cup {x} /\ IsInjective(r)
    BY <1>1, <1>2, WithoutMembers
  <1>4. /\ r \in Seq(S) /\ Len(r) = Len(q) + 1
        /\ \A i \in 1..k : q[i] = r[i]
        /\ \A i \in (k + 1)..Len(q) : q[i] = r[i + 1]
    <2>1. (k + 1) - 1 = k
      OBVIOUS
    <2> QED
      BY <1>1, <1>2, <2>1 DEF Without
  <1>5. ASSUME NEW i \in 1..Len(r) PROVE other[r[i]] = IF i < Len(r) THEN r[i + 1] ELSE end
    <2>1. CASE i < k
      <3>1. i \in 1..Len(q) /\ i \in 1..k /\ i + 1 \in 1..k /\ i < Len(q) /\ i < Len(r) /\ i # k
        BY <1>1, <1>4, <2>1
      <3>2. other[q[i]] = link[q[i]]
        BY <1>1, <3>1
      <3> QED
        BY <1>1, <1>4, <3>1, <3>2
    <2>2. CASE i = k
      BY <1>1, <1>2, <1>4, <2>2
    <2>3. CASE i = k + 1
      <3>1. other[r[i]] = link[q[k]]
        BY <1>2, <2>3
      <3>2. link[q[k]] = IF k < Len(q) THEN q[k + 1] ELSE end
        BY <1>1
      <3>0. k < Len(q) => k + 1 \in (k + 1)..Len(q)
        BY <1>1
      <3>3. k < Len(q) => q[k + 1] = r[(k + 1) + 1]
        BY <1>4, <3>0
      <3> QED
        BY <1>1, <1>4, <2>3, <3>1, <3>2, <3>3
    <2>4. CASE i > k + 1
      <3>1. i - 1 \in 1..Len(q) /\ i - 1 \in (k + 1)..Len(q) /\ (i - 1) + 1 = i /\ i - 1 # k
            /\ (i - 1 < Len(q) <=> i < Len(r))
        BY <1>1, <1>4, <2>4
      <3>2. r[i] = q[i - 1] /\ other[q[i - 1]] = link[q[i - 1]]
        BY <1>1, <1>4, <3>1
      <3>3. link[q[i - 1]] = IF i - 1 < Len(q) THEN q[i] ELSE end
        BY <1>1, <3>1
      <3>4. i < Len(r) => q[i] = r[i + 1]
        BY <1>1, <1>4, <2>4
      <3> QED
        BY <3>1, <3>2, <3>3, <3>4
    <2> QED
      BY <1>4, <2>1, <2>2, <2>3, <2>4
  <1>6. Spells(S, other, r, end)
    BY <1>3, <1>4, <1>5 DEF Spells
  <1> QED
    BY <1>2, <1>3, <1>6 DEF r

(* One node less: the one behind another.                                  *)
LEMMA SpellsUnweave ==
  ASSUME NEW S, NEW link, NEW other, NEW q, NEW end, Spells(S, link, q, end),
         NEW k \in 1..Len(q), k < Len(q), other[q[k]] = link[q[k + 1]],
         \A y \in Range(q) \ {q[k], q[k + 1]} : other[y] = link[y]
  PROVE  /\ Spells(S, other, RemoveAt(q, k + 1), end)
         /\ Without(S, q, RemoveAt(q, k + 1), k + 1)
         /\ Range(RemoveAt(q, k + 1)) = Range(q) \ {q[k + 1]}
  <1> DEFINE r == RemoveAt(q, k + 1)
  <1>1. /\ q \in Seq(S) /\ Len(q) \in Nat /\ IsInjective(q)
        /\ \A i \in 1..Len(q) : q[i] \in Range(q)
        /\ \A i, j \in 1..Len(q) : q[i] = q[j] => i = j
        /\ \A i \in 1..Len(q) : link[q[i]] = IF i < Len(q) THEN q[i + 1] ELSE end
    BY Positions DEF Spells
  <1>2. Without(S, q, r, k + 1)
    <2>1. k + 1 \in 1..Len(q)
      BY <1>1
    <2> QED
      BY <1>1, <2>1, WithoutRemoved
  <1> HIDE DEF r
  <1>3. Range(r) = Range(q) \ {q[k + 1]} /\ IsInjective(r)
    BY <1>1, <1>2, WithoutMembers
  <1>4. /\ r \in Seq(S) /\ Len(q) = Len(r) + 1 /\ Len(r) \in Nat
        /\ \A i \in 1..k : r[i] = q[i]
        /\ \A i \in (k + 1)..Len(r) : r[i] = q[i + 1]
    <2>1. (k + 1) - 1 = k
      OBVIOUS
    <2> QED
      BY <1>1, <1>2, <2>1 DEF Without
  <1>5. ASSUME NEW i \in 1..Len(r) PROVE other[r[i]] = IF i < Len(r) THEN r[i + 1] ELSE end
    <2>1. CASE i < k
      <3>1. /\ i \in 1..Len(q) /\ i \in 1..k /\ i + 1 \in 1..k /\ i < Len(q) /\ i < Len(r)
            /\ k + 1 \in 1..Len(q) /\ i # k /\ i # k + 1
        BY <1>1, <1>4, <2>1
      <3>2. other[q[i]] = link[q[i]]
        BY <1>1, <3>1
      <3> QED
        BY <1>1, <1>4, <3>1, <3>2
    <2>2. CASE i = k
      <3>1. other[r[i]] = link[q[k + 1]]
        BY <1>4, <2>2
      <3>2. k + 1 \in 1..Len(q) /\ (k + 1 < Len(q) <=> k < Len(r))
        BY <1>1, <1>4
      <3>3. link[q[k + 1]] = IF k + 1 < Len(q) THEN q[(k + 1) + 1] ELSE end
        BY <1>1, <3>2
      <3>4. k < Len(r) => r[k + 1] = q[(k + 1) + 1]
        BY <1>4
      <3> QED
        BY <2>2, <3>1, <3>2, <3>3, <3>4
    <2>3. CASE i > k
      <3>1. /\ i \in (k + 1)..Len(r) /\ i + 1 \in 1..Len(q) /\ k + 1 \in 1..Len(q)
            /\ i + 1 # k /\ i + 1 # k + 1 /\ (i + 1 < Len(q) <=> i < Len(r))
        BY <1>1, <1>4, <2>3
      <3>2. r[i] = q[i + 1] /\ other[q[i + 1]] = link[q[i + 1]]
        BY <1>1, <1>4, <3>1
      <3>3. link[q[i + 1]] = IF i + 1 < Len(q) THEN q[(i + 1) + 1] ELSE end
        BY <1>1, <3>1
      <3>4. i < Len(r) => r[i + 1] = q[(i + 1) + 1]
        BY <1>4, <3>1
      <3> QED
        BY <3>1, <3>2, <3>3, <3>4
    <2> QED
      BY <1>4, <2>1, <2>2, <2>3
  <1>6. Spells(S, other, r, end)
    BY <1>3, <1>4, <1>5 DEF Spells
  <1> QED
    BY <1>2, <1>3, <1>6 DEF r

(* A list with links both ways: e and b are what its ends lead to.         *)
Twined(S, fwd, bwd, q, e, b) ==
  /\ q \in Seq(S) /\ IsInjective(q)
  /\ \A i \in 1..Len(q) : /\ fwd[q[i]] = IF i < Len(q) THEN q[i + 1] ELSE e
                          /\ bwd[q[i]] = IF i > 1 THEN q[i - 1] ELSE b

(* A circle: its ends lead to each other.                                  *)
Ring(S, fwd, bwd, q) == Twined(S, fwd, bwd, q, q[1], q[Len(q)])

(* Of the two links of such a list, the first spells it.                   *)
LEMMA TwinedSpells ==
  ASSUME NEW S, NEW fwd, NEW bwd, NEW q, NEW e, NEW b, Twined(S, fwd, bwd, q, e, b)
  PROVE  Spells(S, fwd, q, e)
  BY DEF Twined, Spells

(* Links that agree on its nodes spell the same list.                      *)
LEMMA TwinedKept ==
  ASSUME NEW S, NEW fwd, NEW bwd, NEW q, NEW e, NEW b, Twined(S, fwd, bwd, q, e, b),
         NEW f2, NEW b2, \A x \in Range(q) : f2[x] = fwd[x] /\ b2[x] = bwd[x]
  PROVE  Twined(S, f2, b2, q, e, b)
  <1>1. \A i \in 1..Len(q) : q[i] \in Range(q)
    BY Positions DEF Twined
  <1> QED
    BY <1>1 DEF Twined

(* Both links of a node of a circle agree.                                 *)
LEMMA RingAgrees ==
  ASSUME NEW S, NEW fwd, NEW bwd, NEW q, Ring(S, fwd, bwd, q), NEW x \in Range(q)
  PROVE  /\ fwd[x] \in Range(q) /\ bwd[x] \in Range(q)
         /\ bwd[fwd[x]] = x /\ fwd[bwd[x]] = x
  <1>1. /\ q \in Seq(S) /\ Len(q) \in Nat
        /\ \A i \in 1..Len(q) : q[i] \in Range(q)
        /\ \A i \in 1..Len(q) : /\ fwd[q[i]] = IF i < Len(q) THEN q[i + 1] ELSE q[1]
                                /\ bwd[q[i]] = IF i > 1 THEN q[i - 1] ELSE q[Len(q)]
    BY Positions DEF Ring, Twined
  <1>2. PICK i \in 1..Len(q) : x = q[i]
    BY Positions DEF Ring, Twined
  <1>3. i + 1 \in 1..Len(q) \/ i = Len(q)
    BY <1>1
  <1>4. i - 1 \in 1..Len(q) \/ i = 1
    BY <1>1
  <1>5. fwd[x] \in Range(q) /\ bwd[fwd[x]] = x
    <2>1. CASE i < Len(q)
      <3>1. i + 1 \in 1..Len(q) /\ i + 1 > 1 /\ (i + 1) - 1 = i
        BY <1>1, <2>1
      <3> QED
        BY <1>1, <1>2, <2>1, <3>1
    <2>2. CASE i = Len(q)
      <3>1. 1 \in 1..Len(q)
        BY <1>1
      <3>2. fwd[x] = q[1] /\ bwd[q[1]] = q[Len(q)]
        BY <1>1, <1>2, <2>2, <3>1
      <3> QED
        BY <1>1, <1>2, <2>2, <3>1, <3>2
    <2> QED
      BY <1>1, <2>1, <2>2
  <1>6. bwd[x] \in Range(q) /\ fwd[bwd[x]] = x
    <2>1. CASE i > 1
      <3>1. i - 1 \in 1..Len(q) /\ i - 1 < Len(q) /\ (i - 1) + 1 = i
        BY <1>1, <2>1
      <3> QED
        BY <1>1, <1>2, <2>1, <3>1
    <2>2. CASE i = 1
      <3>1. Len(q) \in 1..Len(q)
        BY <1>1
      <3>2. bwd[x] = q[Len(q)] /\ fwd[q[Len(q)]] = q[1]
        BY <1>1, <1>2, <2>2, <3>1
      <3> QED
        BY <1>1, <1>2, <2>2, <3>1, <3>2
    <2> QED
      BY <1>1, <2>1, <2>2
  <1> QED
    BY <1>5, <1>6

(* A node that goes between the last and the first becomes the last.       *)
LEMMA RingJoin ==
  ASSUME NEW S, NEW fwd, NEW bwd, NEW q, Ring(S, fwd, bwd, q),
         NEW f2, NEW b2, NEW x \in S, x \notin Range(q),
         q = <<>> => f2[x] = x /\ b2[x] = x,
         q # <<>> => /\ f2[x] = q[1] /\ b2[q[1]] = x
                     /\ f2[q[Len(q)]] = x /\ b2[x] = q[Len(q)],
         \A y \in Range(q) : /\ y # q[Len(q)] => f2[y] = fwd[y]
                             /\ y # q[1] => b2[y] = bwd[y]
  PROVE  Ring(S, f2, b2, Append(q, x))
  <1> DEFINE r == Append(q, x)
  <1>1. /\ q \in Seq(S) /\ Len(q) \in Nat /\ IsInjective(q)
        /\ \A i \in 1..Len(q) : q[i] \in Range(q)
        /\ \A i, j \in 1..Len(q) : q[i] = q[j] => i = j
        /\ \A i \in 1..Len(q) : /\ fwd[q[i]] = IF i < Len(q) THEN q[i + 1] ELSE q[1]
                                /\ bwd[q[i]] = IF i > 1 THEN q[i - 1] ELSE q[Len(q)]
    BY Positions DEF Ring, Twined
  <1>2. r \in Seq(S) /\ IsInjective(r)
    BY <1>1, AppendMembers
  <1>3. /\ Len(r) = Len(q) + 1 /\ r[Len(q) + 1] = x
        /\ \A i \in 1..Len(q) : r[i] = q[i]
    BY <1>1
  <1>4. q = <<>> <=> Len(q) = 0
    BY <1>1
  <1> HIDE DEF r
  <1>5. ASSUME NEW i \in 1..Len(r)
        PROVE  /\ f2[r[i]] = IF i < Len(r) THEN r[i + 1] ELSE r[1]
               /\ b2[r[i]] = IF i > 1 THEN r[i - 1] ELSE r[Len(r)]
    <2>1. CASE Len(q) = 0
      <3>1. i = 1 /\ r[i] = x /\ Len(r) = 1 /\ r[1] = x
        BY <1>3, <2>1
      <3> QED
        BY <1>4, <2>1, <3>1
    <2>2. CASE Len(q) # 0 /\ i = Len(q) + 1
      <3>1. 1 \in 1..Len(q) /\ Len(q) \in 1..Len(q) /\ i - 1 = Len(q) /\ i > 1 /\ ~ (i < Len(r))
        BY <1>1, <1>3, <2>2
      <3> QED
        BY <1>3, <1>4, <2>2, <3>1
    <2>3. CASE i \in 1..Len(q)
      <3>1. /\ 1 \in 1..Len(q) /\ Len(q) \in 1..Len(q) /\ Len(q) # 0
            /\ i < Len(r) /\ r[i] = q[i] /\ q[i] \in Range(q)
        BY <1>1, <1>3, <2>3
      <3>2. f2[q[i]] = r[i + 1]
        <4>1. CASE i = Len(q)
          BY <1>3, <1>4, <3>1, <4>1
        <4>2. CASE i # Len(q)
          <5>1. i < Len(q) /\ i + 1 \in 1..Len(q)
            BY <1>1, <2>3, <4>2
          <5>2. q[i] # q[Len(q)]
            BY <1>1, <2>3, <3>1, <4>2
          <5>3. f2[q[i]] = fwd[q[i]]
            BY <3>1, <5>2
          <5> QED
            BY <1>1, <1>3, <2>3, <5>1, <5>3
        <4> QED
          BY <4>1, <4>2
      <3>3. b2[q[i]] = IF i > 1 THEN r[i - 1] ELSE r[Len(r)]
        <4>1. CASE i = 1
          BY <1>3, <1>4, <3>1, <4>1
        <4>2. CASE i # 1
          <5>1. i > 1 /\ i - 1 \in 1..Len(q)
            BY <1>1, <2>3, <4>2
          <5>2. q[i] # q[1]
            BY <1>1, <2>3, <3>1, <4>2
          <5>3. b2[q[i]] = bwd[q[i]]
            BY <3>1, <5>2
          <5> QED
            BY <1>1, <1>3, <2>3, <5>1, <5>3
        <4> QED
          BY <4>1, <4>2
      <3> QED
        BY <3>1, <3>2, <3>3
    <2>4. i = Len(q) + 1 \/ i \in 1..Len(q)
      BY <1>1, <1>3
    <2> QED
      BY <2>1, <2>2, <2>3, <2>4
  <1>6. Ring(S, f2, b2, r)
    BY <1>2, <1>5 DEF Ring, Twined, r
  <1> QED
    BY <1>6 DEF r

(* The neighbours of n, and of the nodes of T only they, pass n by.        *)
Bypassed(T, n, fwd, bwd, f2, b2) ==
  \A y \in T \ {n} :
    /\ f2[y] = IF y = bwd[n] THEN fwd[n] ELSE fwd[y]
    /\ b2[y] = IF y = fwd[n] THEN bwd[n] ELSE bwd[y]

(* What is left when the two neighbours of a node are linked to each other.*)
LEMMA RingLeave ==
  ASSUME NEW S, NEW fwd, NEW bwd, NEW r, Ring(S, fwd, bwd, r),
         NEW k \in 1..Len(r), NEW f2, NEW b2,
         Bypassed(Range(r), r[k], fwd, bwd, f2, b2)
  PROVE  Ring(S, f2, b2, RemoveAt(r, k))
  <1> DEFINE q == RemoveAt(r, k)
  <1>1. /\ r \in Seq(S) /\ Len(r) \in Nat /\ IsInjective(r)
        /\ \A i \in 1..Len(r) : r[i] \in Range(r)
        /\ \A i, j \in 1..Len(r) : r[i] = r[j] => i = j
        /\ \A i \in 1..Len(r) : /\ fwd[r[i]] = IF i < Len(r) THEN r[i + 1] ELSE r[1]
                                /\ bwd[r[i]] = IF i > 1 THEN r[i - 1] ELSE r[Len(r)]
    BY Positions DEF Ring, Twined
  <1>2. Without(S, r, q, k)
    BY <1>1, WithoutRemoved
  <1> HIDE DEF q
  <1>3. IsInjective(q)
    BY <1>1, <1>2, WithoutMembers
  <1>4. /\ q \in Seq(S) /\ Len(r) = Len(q) + 1 /\ Len(q) \in Nat
        /\ \A i \in 1..(k - 1) : q[i] = r[i]
        /\ \A i \in k..Len(q) : q[i] = r[i + 1]
    BY <1>2 DEF Without
  <1>5. \A i \in 1..Len(r) \ {k} :
          /\ f2[r[i]] = IF r[i] = bwd[r[k]] THEN fwd[r[k]] ELSE fwd[r[i]]
          /\ b2[r[i]] = IF r[i] = fwd[r[k]] THEN bwd[r[k]] ELSE bwd[r[i]]
    BY <1>1 DEF Bypassed
  <1>6. 1 \in 1..Len(r) /\ Len(r) \in 1..Len(r) /\ k \in Nat
    BY <1>1
  <1> DEFINE up(i) == IF i < Len(r) THEN i + 1 ELSE 1
             dn(i) == IF i > 1 THEN i - 1 ELSE Len(r)
  <1>7. ASSUME NEW i \in 1..Len(r)
        PROVE  /\ up(i) \in 1..Len(r) /\ fwd[r[i]] = r[up(i)]
               /\ dn(i) \in 1..Len(r) /\ bwd[r[i]] = r[dn(i)]
    BY <1>1, <1>6
  <1>8. ASSUME NEW i \in 1..Len(r), i # k
        PROVE  /\ f2[r[i]] = IF i = dn(k) THEN r[up(k)] ELSE r[up(i)]
               /\ b2[r[i]] = IF i = up(k) THEN r[dn(k)] ELSE r[dn(i)]
    <2>1. /\ up(i) \in 1..Len(r) /\ fwd[r[i]] = r[up(i)]
          /\ dn(i) \in 1..Len(r) /\ bwd[r[i]] = r[dn(i)]
          /\ up(k) \in 1..Len(r) /\ fwd[r[k]] = r[up(k)]
          /\ dn(k) \in 1..Len(r) /\ bwd[r[k]] = r[dn(k)]
      BY <1>7
    <2> HIDE DEF up, dn
    <2>2. (r[i] = r[dn(k)] <=> i = dn(k)) /\ (r[i] = r[up(k)] <=> i = up(k))
      BY <1>1, <2>1
    <2>3. /\ f2[r[i]] = IF r[i] = bwd[r[k]] THEN fwd[r[k]] ELSE fwd[r[i]]
          /\ b2[r[i]] = IF r[i] = fwd[r[k]] THEN bwd[r[k]] ELSE bwd[r[i]]
      BY <1>5, <1>8
    <2> QED
      BY <2>1, <2>2, <2>3
  <1>9. ASSUME NEW i \in 1..Len(q)
        PROVE  /\ f2[q[i]] = IF i < Len(q) THEN q[i + 1] ELSE q[1]
               /\ b2[q[i]] = IF i > 1 THEN q[i - 1] ELSE q[Len(q)]
    <2>1. CASE i < k
      <3>1. i \in 1..Len(r) /\ i # k /\ i \in 1..(k - 1) /\ q[i] = r[i]
        BY <1>4, <1>6, <2>1
      <3>2. f2[q[i]] = IF i < Len(q) THEN q[i + 1] ELSE q[1]
        <4>1. CASE i = k - 1
          <5>1. i = dn(k)
            BY <1>6, <4>1, <3>1
          <5>2. f2[q[i]] = r[up(k)]
            BY <1>8, <3>1, <5>1
          <5>3. CASE k < Len(r)
            <6>1. up(k) = k + 1 /\ i < Len(q) /\ i + 1 = k /\ k \in k..Len(q)
              BY <1>4, <1>6, <4>1, <5>3
            <6> QED
              BY <1>4, <5>2, <6>1
          <5>4. CASE k = Len(r)
            <6>1. up(k) = 1 /\ ~ (i < Len(q)) /\ 1 \in 1..(k - 1)
              BY <1>4, <1>6, <4>1, <5>4, <3>1
            <6> QED
              BY <1>4, <5>2, <6>1
          <5> QED
            BY <1>6, <5>3, <5>4
        <4>2. CASE i # k - 1
          <5>1. i # dn(k) /\ up(i) = i + 1 /\ i < Len(q) /\ i + 1 \in 1..(k - 1)
            BY <1>4, <1>6, <4>2, <2>1, <3>1
          <5> QED
            BY <1>4, <1>8, <3>1, <5>1
        <4> QED
          BY <4>1, <4>2
      <3>3. b2[q[i]] = IF i > 1 THEN q[i - 1] ELSE q[Len(q)]
        <4>1. CASE i > 1
          <5>1. i # up(k) /\ dn(i) = i - 1 /\ i - 1 \in 1..(k - 1)
            BY <1>4, <1>6, <4>1, <2>1, <3>1
          <5> QED
            BY <1>4, <1>8, <3>1, <4>1, <5>1
        <4>2. CASE i = 1 /\ k = Len(r)
          <5>1. i = up(k) /\ dn(k) = k - 1 /\ Len(q) = k - 1 /\ Len(q) \in 1..(k - 1)
            BY <1>4, <1>6, <4>2, <2>1, <3>1
          <5>2. b2[q[i]] = r[dn(k)]
            BY <1>8, <3>1, <5>1
          <5>3. r[k - 1] = q[k - 1]
            BY <1>4, <5>1
          <5> HIDE DEF dn, up
          <5> QED
            BY <4>2, <5>1, <5>2, <5>3
        <4>3. CASE i = 1 /\ k # Len(r)
          <5>1. i # up(k) /\ dn(i) = Len(r) /\ Len(q) \in k..Len(q) /\ Len(q) + 1 = Len(r)
            BY <1>4, <1>6, <4>3, <2>1, <3>1
          <5> QED
            BY <1>4, <1>8, <3>1, <4>3, <5>1
        <4> QED
          BY <4>1, <4>2, <4>3
      <3> QED
        BY <3>2, <3>3
    <2>2. CASE i >= k
      <3> DEFINE j == i + 1
      <3>1. j \in 1..Len(r) /\ j # k /\ i \in k..Len(q) /\ q[i] = r[j] /\ j > 1
        BY <1>4, <1>6, <2>2
      <3> HIDE DEF j
      <3>2. f2[q[i]] = IF i < Len(q) THEN q[i + 1] ELSE q[1]
        <4>1. CASE i < Len(q)
          <5>1. j # dn(k) /\ up(j) = (i + 1) + 1 /\ i + 1 \in k..Len(q)
            BY <1>4, <1>6, <4>1, <2>2, <3>1 DEF j
          <5> QED
            BY <1>4, <1>8, <3>1, <4>1, <5>1
        <4>2. CASE i = Len(q) /\ k = 1
          <5>1. j = dn(k) /\ up(k) = 1 + 1 /\ 1 \in k..Len(q)
            BY <1>4, <1>6, <4>2, <2>2, <3>1 DEF j
          <5> QED
            BY <1>4, <1>8, <3>1, <4>2, <5>1
        <4>3. CASE i = Len(q) /\ k # 1
          <5>1. j # dn(k) /\ up(j) = 1 /\ 1 \in 1..(k - 1)
            BY <1>4, <1>6, <4>3, <2>2, <3>1 DEF j
          <5> QED
            BY <1>4, <1>8, <3>1, <4>3, <5>1
        <4> QED
          BY <4>1, <4>2, <4>3
      <3>3. b2[q[i]] = IF i > 1 THEN q[i - 1] ELSE q[Len(q)]
        <4>1. CASE i = k /\ k > 1
          <5>1. j = up(k) /\ dn(k) = k - 1 /\ k - 1 \in 1..(k - 1)
            BY <1>4, <1>6, <4>1, <2>2, <3>1 DEF j
          <5> QED
            BY <1>4, <1>8, <3>1, <4>1, <5>1
        <4>2. CASE i = k /\ k = 1
          <5>1. j = up(k) /\ dn(k) = Len(r) /\ Len(q) \in k..Len(q) /\ Len(q) + 1 = Len(r)
            BY <1>4, <1>6, <4>2, <2>2, <3>1 DEF j
          <5> QED
            BY <1>4, <1>8, <3>1, <4>2, <5>1
        <4>3. CASE i > k
          <5>1. j # up(k) /\ dn(j) = i /\ i - 1 \in k..Len(q) /\ (i - 1) + 1 = i /\ i > 1
            BY <1>4, <1>6, <4>3, <2>2, <3>1 DEF j
          <5> QED
            BY <1>4, <1>8, <3>1, <4>3, <5>1
        <4> QED
          BY <1>6, <2>2, <4>1, <4>2, <4>3
      <3> QED
        BY <3>2, <3>3
    <2> QED
      BY <1>4, <1>6, <2>1, <2>2
  <1>10. Ring(S, f2, b2, q)
    BY <1>3, <1>4, <1>9 DEF Ring, Twined
  <1> QED
    BY <1>10 DEF q

(* The same for a list that ends: null lies behind both its ends.          *)
LEMMA TwinedFront ==
  ASSUME NEW S, NEW null, NEW fwd, NEW bwd, NEW q, Twined(S, fwd, bwd, q, null, null),
         NEW f2, NEW b2, NEW x \in S, x \notin Range(q),
         f2[x] = First(q, null), b2[x] = null,
         \A y \in Range(q) : f2[y] = fwd[y] /\ b2[y] = IF y = q[1] THEN x ELSE bwd[y]
  PROVE  /\ Twined(S, f2, b2, InsertAt(q, 1, x), null, null)
         /\ Range(InsertAt(q, 1, x)) = Range(q) \cup {x}
         /\ First(InsertAt(q, 1, x), null) = x
  <1> DEFINE r == InsertAt(q, 1, x)
  <1>1. /\ q \in Seq(S) /\ Len(q) \in Nat /\ IsInjective(q)
        /\ \A i \in 1..Len(q) : q[i] \in Range(q)
        /\ \A i, j \in 1..Len(q) : q[i] = q[j] => i = j
        /\ \A i \in 1..Len(q) : /\ fwd[q[i]] = IF i < Len(q) THEN q[i + 1] ELSE null
                                /\ bwd[q[i]] = IF i > 1 THEN q[i - 1] ELSE null
    BY Positions DEF Twined
  <1>2. Without(S, r, q, 1) /\ r[1] = x
    <2>1. 1 \in 1..(Len(q) + 1)
      BY <1>1
    <2> QED
      BY <1>1, <2>1, WithoutInserted
  <1> HIDE DEF r
  <1>3. Range(r) = Range(q) \cup {x} /\ IsInjective(r)
    BY <1>1, <1>2, WithoutMembers
  <1>4. /\ r \in Seq(S) /\ Len(r) = Len(q) + 1 /\ r # <<>>
        /\ \A i \in 1..Len(q) : q[i] = r[i + 1]
    BY <1>1, <1>2 DEF Without
  <1>5. ASSUME NEW i \in 1..Len(r)
        PROVE  /\ f2[r[i]] = IF i < Len(r) THEN r[i + 1] ELSE null
               /\ b2[r[i]] = IF i > 1 THEN r[i - 1] ELSE null
    <2>1. CASE i = 1
      <3>1. q = <<>> <=> Len(q) = 0
        BY <1>1
      <3>2. Len(q) # 0 => q[1] = r[1 + 1]
        BY <1>1, <1>4
      <3>3. f2[r[i]] = First(q, null) /\ b2[r[i]] = null
        BY <1>2, <2>1
      <3> QED
        BY <1>1, <1>4, <2>1, <3>1, <3>2, <3>3 DEF First
    <2>2. CASE i # 1
      <3> DEFINE j == i - 1
      <3>1. j \in 1..Len(q) /\ j + 1 = i /\ (j < Len(q) <=> i < Len(r)) /\ i > 1
        BY <1>1, <1>4, <2>2
      <3> HIDE DEF j
      <3>2. r[i] = q[j] /\ q[j] \in Range(q)
        BY <1>1, <1>4, <3>1
      <3>3. f2[r[i]] = IF i < Len(r) THEN r[i + 1] ELSE null
        <4>1. f2[r[i]] = IF j < Len(q) THEN q[j + 1] ELSE null
          BY <1>1, <3>1, <3>2
        <4>2. j < Len(q) => j + 1 \in 1..Len(q) /\ q[j + 1] = r[(j + 1) + 1]
          BY <1>1, <1>4, <3>1
        <4> QED
          BY <3>1, <4>1, <4>2
      <3>4. b2[r[i]] = r[j]
        <4>1. CASE j = 1
          BY <1>2, <3>2, <4>1
        <4>2. CASE j # 1
          <5>1. j - 1 \in 1..Len(q) /\ j > 1 /\ 1 \in 1..Len(q) /\ (j - 1) + 1 = j
            BY <1>1, <3>1, <4>2
          <5>2. q[j] # q[1]
            BY <1>1, <3>1, <4>2, <5>1
          <5>3. b2[q[j]] = q[j - 1]
            BY <1>1, <3>1, <3>2, <5>1, <5>2
          <5> QED
            BY <1>4, <3>2, <5>1, <5>3
        <4> QED
          BY <4>1, <4>2
      <3> QED
        BY <3>1, <3>3, <3>4 DEF j
    <2> QED
      BY <2>1, <2>2
  <1>6. Twined(S, f2, b2, r, null, null) /\ First(r, null) = x
    BY <1>2, <1>3, <1>4, <1>5 DEF Twined, First
  <1> QED
    BY <1>3, <1>6 DEF r

(* A node leaves such a list: its neighbours are linked to each other.     *)
LEMMA TwinedLeave ==
  ASSUME NEW S, NEW null, null \notin S,
         NEW fwd, NEW bwd, NEW r, Twined(S, fwd, bwd, r, null, null),
         NEW k \in 1..Len(r), NEW f2, NEW b2,
         Bypassed(Range(r), r[k], fwd, bwd, f2, b2)
  PROVE  /\ Twined(S, f2, b2, RemoveAt(r, k), null, null)
         /\ Range(RemoveAt(r, k)) = Range(r) \ {r[k]}
         /\ First(RemoveAt(r, k), null) = IF k = 1 THEN fwd[r[1]] ELSE r[1]
  <1> DEFINE q == RemoveAt(r, k)
  <1>1. /\ r \in Seq(S) /\ Len(r) \in Nat /\ IsInjective(r)
        /\ \A i \in 1..Len(r) : r[i] \in Range(r) /\ r[i] # null
        /\ \A i, j \in 1..Len(r) : r[i] = r[j] => i = j
        /\ \A i \in 1..Len(r) : /\ fwd[r[i]] = IF i < Len(r) THEN r[i + 1] ELSE null
                                /\ bwd[r[i]] = IF i > 1 THEN r[i - 1] ELSE null
    BY Positions DEF Twined
  <1>2. Without(S, r, q, k)
    BY <1>1, WithoutRemoved
  <1> HIDE DEF q
  <1>3. IsInjective(q) /\ Range(q) = Range(r) \ {r[k]}
    BY <1>1, <1>2, WithoutMembers
  <1>4. /\ q \in Seq(S) /\ Len(r) = Len(q) + 1 /\ Len(q) \in Nat
        /\ \A i \in 1..(k - 1) : q[i] = r[i]
        /\ \A i \in k..Len(q) : q[i] = r[i + 1]
    BY <1>2 DEF Without
  <1>6. 1 \in 1..Len(r) /\ k \in Nat /\ k >= 1 /\ k <= Len(r)
    BY <1>1
  <1>8. ASSUME NEW i \in 1..Len(r), i # k
        PROVE  /\ i + 1 # k => f2[r[i]] = IF i < Len(r) THEN r[i + 1] ELSE null
               /\ i + 1 = k => f2[r[i]] = IF k < Len(r) THEN r[k + 1] ELSE null
               /\ i - 1 # k => b2[r[i]] = IF i > 1 THEN r[i - 1] ELSE null
               /\ i - 1 = k => b2[r[i]] = IF k > 1 THEN r[k - 1] ELSE null
    <2>1. /\ f2[r[i]] = IF r[i] = bwd[r[k]] THEN fwd[r[k]] ELSE fwd[r[i]]
          /\ b2[r[i]] = IF r[i] = fwd[r[k]] THEN bwd[r[k]] ELSE bwd[r[i]]
      BY <1>1, <1>8 DEF Bypassed
    <2>2. r[i] = bwd[r[k]] <=> i + 1 = k
      <3>1. CASE k > 1
        <4>1. k - 1 \in 1..Len(r) /\ (i + 1 = k <=> i = k - 1)
          BY <1>1, <1>6, <3>1
        <4> QED
          BY <1>1, <3>1, <4>1
      <3>2. CASE k = 1
        BY <1>1, <1>6, <3>2
      <3> QED
        BY <1>6, <3>1, <3>2
    <2>3. r[i] = fwd[r[k]] <=> i - 1 = k
      <3>1. CASE k < Len(r)
        <4>1. k + 1 \in 1..Len(r) /\ (i - 1 = k <=> i = k + 1)
          BY <1>1, <1>6, <3>1
        <4> QED
          BY <1>1, <3>1, <4>1
      <3>2. CASE k = Len(r)
        BY <1>1, <1>6, <3>2
      <3> QED
        BY <1>1, <1>6, <3>1, <3>2
    <2> QED
      BY <1>1, <2>1, <2>2, <2>3
  <1>9. ASSUME NEW i \in 1..Len(q)
        PROVE  /\ f2[q[i]] = IF i < Len(q) THEN q[i + 1] ELSE null
               /\ b2[q[i]] = IF i > 1 THEN q[i - 1] ELSE null
    <2>1. CASE i < k
      <3>1. /\ i \in 1..Len(r) /\ i # k /\ i \in 1..(k - 1) /\ q[i] = r[i] /\ i < Len(r)
            /\ i - 1 # k
        BY <1>4, <1>6, <2>1
      <3>2. b2[q[i]] = IF i > 1 THEN q[i - 1] ELSE null
        <4>1. i > 1 => i - 1 \in 1..(k - 1)
          BY <3>1
        <4> QED
          BY <1>4, <1>8, <3>1, <4>1
      <3>3. CASE i + 1 = k /\ k < Len(r)
        <4>1. i < Len(q) /\ k \in k..Len(q)
          BY <1>4, <1>6, <3>3
        <4> QED
          BY <1>4, <1>8, <3>1, <3>2, <3>3, <4>1
      <3>4. CASE i + 1 = k /\ k = Len(r)
        <4>1. ~ (i < Len(q))
          BY <1>4, <1>6, <3>4
        <4> QED
          BY <1>8, <3>1, <3>2, <3>4, <4>1
      <3>5. CASE i + 1 # k
        <4>1. i < Len(q) /\ i + 1 \in 1..(k - 1)
          BY <1>4, <1>6, <3>1, <3>5
        <4> QED
          BY <1>4, <1>8, <3>1, <3>2, <3>5, <4>1
      <3> QED
        BY <1>1, <1>6, <3>3, <3>4, <3>5
    <2>2. CASE i >= k
      <3> DEFINE j == i + 1
      <3>1. /\ j \in 1..Len(r) /\ j # k /\ i \in k..Len(q) /\ q[i] = r[j] /\ j > 1
            /\ j - 1 = i /\ j + 1 # k /\ (j < Len(r) <=> i < Len(q))
        BY <1>4, <1>6, <2>2
      <3>2. i < Len(q) => i + 1 \in k..Len(q) /\ q[i + 1] = r[j + 1]
        BY <1>4, <3>1
      <3> HIDE DEF j
      <3>3. f2[q[i]] = IF i < Len(q) THEN q[i + 1] ELSE null
        BY <1>8, <3>1, <3>2
      <3>4. b2[q[i]] = IF i > 1 THEN q[i - 1] ELSE null
        <4>1. CASE i = k
          <5>1. k > 1 => k - 1 \in 1..(k - 1)
            BY <1>6
          <5> QED
            BY <1>4, <1>8, <3>1, <4>1, <5>1
        <4>2. CASE i > k
          <5>1. i - 1 \in k..Len(q) /\ (i - 1) + 1 = i /\ i > 1
            BY <1>4, <1>6, <4>2
          <5> QED
            BY <1>4, <1>8, <3>1, <4>2, <5>1
        <4> QED
          BY <1>6, <2>2, <4>1, <4>2
      <3> QED
        BY <3>3, <3>4
    <2> QED
      BY <1>4, <1>6, <2>1, <2>2
  <1>10. Twined(S, f2, b2, q, null, null)
    BY <1>3, <1>4, <1>9 DEF Twined
  <1>11. First(q, null) = IF k = 1 THEN fwd[r[1]] ELSE r[1]
    <2>1. q = <<>> <=> Len(q) = 0
      BY <1>4
    <2>2. CASE k = 1
      <3>1. fwd[r[1]] = IF 1 < Len(r) THEN r[1 + 1] ELSE null
        BY <1>1, <1>6
      <3>2. Len(q) # 0 => 1 \in k..Len(q) /\ q[1] = r[1 + 1]
        BY <1>4, <2>2
      <3> QED
        BY <1>4, <2>1, <2>2, <3>1, <3>2 DEF First
    <2>3. CASE k # 1
      <3>1. 1 \in 1..(k - 1) /\ Len(q) # 0
        BY <1>4, <1>6, <2>3
      <3> QED
        BY <1>4, <2>1, <2>3, <3>1 DEF First
    <2> QED
      BY <2>2, <2>3
  <1> QED
    BY <1>3, <1>10, <1>11 DEF q

(* The search from each node, as findPreviousDelayd and getPrevSemd do it. *)
IsSearch(from, S, link, null, key, a) ==
  from = [n \in S |->
           IF link[n] # null /\ key[link[n]] < a THEN from[link[n]] ELSE n]

Search(S, link, null, key, a) == CHOOSE from : IsSearch(from, S, link, null, key, a)

(* There is such a search when every step comes nearer to an end.          *)
LEMMA SearchExists ==
  ASSUME NEW S, NEW link, NEW null, NEW key, NEW a, NEW M \in Nat,
         NEW rank, \A n \in S : rank[n] \in Nat /\ rank[n] < M,
         \A n \in S : link[n] # null => link[n] \in S /\ rank[link[n]] < rank[n]
  PROVE  \E from : IsSearch(from, S, link, null, key, a)
  <1> DEFINE Below(m) == {n \in S : rank[n] < m}
             Bad == {m \in Nat : ~ \E from : IsSearch(from, Below(m), link, null, key, a)}
  <1>1. CASE Bad # {}
    <2>1. PICK m \in Bad : \A k \in Bad : m <= k
      BY <1>1, LeastPosition
    <2>2. m \in Nat /\ ~ \E from : IsSearch(from, Below(m), link, null, key, a)
      OBVIOUS
    <2>3. CASE m = 0
      <3>1. Below(m) = {}
        BY <2>3
      <3> HIDE DEF Below
      <3>2. IsSearch([n \in {} |-> n], Below(m), link, null, key, a)
        BY <3>1 DEF IsSearch
      <3> QED
        BY <2>2, <3>2
    <2>4. CASE m # 0
      <3>1. m \in Nat
        BY <2>2
      <3> HIDE DEF Bad
      <3>2. m - 1 \in Nat /\ ~ (m <= m - 1)
        BY <2>4, <3>1
      <3>3. m - 1 \in Nat /\ m - 1 \notin Bad
        BY <2>1, <3>2
      <3> USE DEF Bad
      <3>4. PICK f : IsSearch(f, Below(m - 1), link, null, key, a)
        BY <3>3
      <3> DEFINE g == [n \in Below(m) |->
                        IF n \in Below(m - 1) THEN f[n]
                        ELSE IF link[n] # null /\ key[link[n]] < a THEN f[link[n]] ELSE n]
      <3>5. ASSUME NEW n \in Below(m)
            PROVE  g[n] = IF link[n] # null /\ key[link[n]] < a THEN g[link[n]] ELSE n
        <4>1. link[n] # null => /\ link[n] \in Below(m) /\ link[n] \in Below(m - 1)
          <5>1. n \in S /\ rank[n] \in Nat /\ rank[n] < m
            OBVIOUS
          <5>2. link[n] # null => link[n] \in S /\ rank[link[n]] < rank[n] /\ rank[link[n]] \in Nat
            BY <5>1
          <5> QED
            BY <2>2, <5>1, <5>2
        <4> HIDE DEF Below
        <4>2. link[n] # null => g[link[n]] = f[link[n]]
          BY <4>1
        <4>3. CASE n \in Below(m - 1)
          <5>1. f[n] = IF link[n] # null /\ key[link[n]] < a THEN f[link[n]] ELSE n
            BY <3>4, <4>3 DEF IsSearch
          <5>2. g[n] = f[n]
            BY <4>3
          <5> HIDE DEF g
          <5> QED
            BY <4>2, <5>1, <5>2
        <4>4. CASE n \notin Below(m - 1)
          <5>1. g[n] = IF link[n] # null /\ key[link[n]] < a THEN f[link[n]] ELSE n
            BY <4>4
          <5> HIDE DEF g
          <5> QED
            BY <4>2, <5>1
        <4> QED
          BY <4>3, <4>4
      <3>6. g = [n \in Below(m) |-> g[n]]
        OBVIOUS
      <3> HIDE DEF g
      <3>7. IsSearch(g, Below(m), link, null, key, a)
        BY <3>5, <3>6 DEF IsSearch
      <3> QED
        BY <2>2, <3>7
    <2> QED
      BY <2>3, <2>4
  <1>2. CASE Bad = {}
    <2>1. \E from : IsSearch(from, Below(M), link, null, key, a)
      BY <1>2
    <2>2. Below(M) = S
      OBVIOUS
    <2> QED
      BY <2>1, <2>2
  <1> QED
    BY <1>1, <1>2

(* A table whose nodes are on a list or on another.                        *)
TwoLists(S, link, null, q, f) ==
  /\ Spells(S, link, q, null) /\ Spells(S, link, f, null)
  /\ Range(q) \cap Range(f) = {} /\ Range(q) \cup Range(f) = S

(* Where a search of q stops: at the first node whose successor, if it has *)
(* one, is not before a.                                                   *)
StopsAt(q, k, key, a) ==
  /\ k \in 1..Len(q)
  /\ k < Len(q) => ~ (key[q[k + 1]] < a)
  /\ \A i \in 1..(k - 1) : key[q[i + 1]] < a

Finds(S, link, null, key, a, q) ==
  \E k : StopsAt(q, k, key, a) /\ Search(S, link, null, key, a)[q[1]] = q[k]

(* The search from the first node stops where StopsAt says.                *)
LEMMA SearchFinds ==
  ASSUME NEW S, NEW null, null \notin S, NEW link, NEW q, NEW f, NEW key, NEW a,
         TwoLists(S, link, null, q, f), q # <<>>
  PROVE  Finds(S, link, null, key, a, q)
  <1>1. /\ q \in Seq(S) /\ Len(q) \in Nat \ {0} /\ f \in Seq(S) /\ Len(f) \in Nat
        /\ \A i \in 1..Len(q) : q[i] \in S /\ q[i] \in Range(q)
        /\ \A i, j \in 1..Len(q) : q[i] = q[j] => i = j
        /\ \A x \in Range(q) : \E i \in 1..Len(q) : x = q[i]
        /\ \A i \in 1..Len(q) : link[q[i]] = IF i < Len(q) THEN q[i + 1] ELSE null
        /\ \A i \in 1..Len(f) : f[i] \in S /\ f[i] \in Range(f)
        /\ \A i, j \in 1..Len(f) : f[i] = f[j] => i = j
        /\ \A x \in Range(f) : \E i \in 1..Len(f) : x = f[i]
        /\ \A i \in 1..Len(f) : link[f[i]] = IF i < Len(f) THEN f[i + 1] ELSE null
    BY Positions DEF Spells, TwoLists
  <1> DEFINE rank == [n \in S |-> IF n \in Range(q)
                                   THEN Len(q) - CHOOSE i \in 1..Len(q) : n = q[i]
                                   ELSE Len(f) - CHOOSE i \in 1..Len(f) : n = f[i]]
             from == Search(S, link, null, key, a)
  <1>2. ASSUME NEW i \in 1..Len(q) PROVE rank[q[i]] = Len(q) - i
    <2>1. (CHOOSE j \in 1..Len(q) : q[i] = q[j]) = i
      BY <1>1
    <2> QED
      BY <1>1, <2>1
  <1>3. ASSUME NEW i \in 1..Len(f) PROVE rank[f[i]] = Len(f) - i
    <2>1. (CHOOSE j \in 1..Len(f) : f[i] = f[j]) = i
      BY <1>1
    <2>2. f[i] \notin Range(q)
      BY <1>1 DEF TwoLists
    <2> QED
      BY <1>1, <2>1, <2>2
  <1> HIDE DEF rank
  <1>4. ASSUME NEW n \in S
        PROVE  /\ rank[n] \in Nat /\ rank[n] < Len(q) + Len(f)
               /\ link[n] # null => link[n] \in S /\ rank[link[n]] < rank[n]
    <2>1. CASE n \in Range(q)
      <3>1. PICK i \in 1..Len(q) : n = q[i]
        BY <1>1, <2>1
      <3>2. rank[n] = Len(q) - i /\ rank[n] \in Nat /\ rank[n] < Len(q) + Len(f)
        BY <1>1, <1>2, <3>1
      <3>3. CASE i < Len(q)
        <4>1. i + 1 \in 1..Len(q) /\ link[n] = q[i + 1]
          BY <1>1, <3>1, <3>3
        <4>2. rank[link[n]] = Len(q) - (i + 1) /\ link[n] \in S
          BY <1>1, <1>2, <4>1
        <4> QED
          BY <1>1, <3>2, <4>2
      <3>4. CASE i = Len(q)
        BY <1>1, <3>1, <3>2, <3>4
      <3> QED
        BY <1>1, <3>3, <3>4
    <2>2. CASE n \in Range(f)
      <3>1. PICK i \in 1..Len(f) : n = f[i]
        BY <1>1, <2>2
      <3>2. rank[n] = Len(f) - i /\ rank[n] \in Nat /\ rank[n] < Len(q) + Len(f)
        BY <1>1, <1>3, <3>1
      <3>3. CASE i < Len(f)
        <4>1. i + 1 \in 1..Len(f) /\ link[n] = f[i + 1]
          BY <1>1, <3>1, <3>3
        <4>2. rank[link[n]] = Len(f) - (i + 1) /\ link[n] \in S
          BY <1>1, <1>3, <4>1
        <4> QED
          BY <1>1, <3>2, <4>2
      <3>4. CASE i = Len(f)
        BY <1>1, <3>1, <3>2, <3>4
      <3> QED
        BY <1>1, <3>3, <3>4
    <2> QED
      BY <2>1, <2>2 DEF TwoLists
  <1>5. Len(q) + Len(f) \in Nat
    BY <1>1
  <1>6. \E g : IsSearch(g, S, link, null, key, a)
    BY <1>4, <1>5, SearchExists
  <1>7. IsSearch(from, S, link, null, key, a)
    BY <1>6 DEF Search
  <1> HIDE DEF from
  <1>8. ASSUME NEW n \in S
        PROVE  from[n] = IF link[n] # null /\ key[link[n]] < a THEN from[link[n]] ELSE n
    BY <1>7 DEF IsSearch
  <1> DEFINE Stops == {i \in 1..Len(q) : i < Len(q) => ~ (key[q[i + 1]] < a)}
             k == Min(Stops)
  <1>9. k \in Stops /\ \A i \in Stops : k <= i
    <2>1. Len(q) \in Stops /\ Stops \in SUBSET Nat
      BY <1>1
    <2> QED
      BY <2>1, LeastPosition
  <1> HIDE DEF k
  <1>10. k \in 1..Len(q) /\ k \in Nat /\ (k < Len(q) => ~ (key[q[k + 1]] < a))
    BY <1>9
  <1>11. ASSUME NEW i \in 1..(k - 1) PROVE i \in 1..Len(q) /\ i < Len(q) /\ key[q[i + 1]] < a
    <2>1. i \in 1..Len(q) /\ i < Len(q) /\ ~ (k <= i)
      BY <1>1, <1>10
    <2> QED
      BY <1>9, <2>1
  <1>12. from[q[k]] = q[k]
    <2>1. link[q[k]] = IF k < Len(q) THEN q[k + 1] ELSE null
      BY <1>1, <1>10
    <2>2. ~ (link[q[k]] # null /\ key[link[q[k]]] < a)
      BY <1>10, <2>1
    <2> QED
      BY <1>1, <1>8, <1>10, <2>2
  <1>13. ASSUME NEW i \in 1..(k - 1) PROVE from[q[i]] = from[q[i + 1]]
    <2>1. i \in 1..Len(q) /\ i + 1 \in 1..Len(q) /\ i < Len(q) /\ key[q[i + 1]] < a
      BY <1>1, <1>11
    <2>2. link[q[i]] = q[i + 1] /\ q[i + 1] # null
      BY <1>1, <2>1
    <2> QED
      BY <1>1, <1>8, <2>1, <2>2
  <1>14. from[q[1]] = q[k]
    <2> DEFINE Bad == {i \in Nat : i \in 1..k /\ from[q[1]] # from[q[i]]}
    <2>1. CASE Bad # {}
      <3>1. PICK i \in Bad : \A j \in Bad : i <= j
        BY <2>1, LeastPosition
      <3>2. i # 1 /\ i - 1 \in Nat /\ i - 1 \in 1..k /\ i - 1 \in 1..(k - 1) /\ (i - 1) + 1 = i
        BY <1>10
      <3>3. i - 1 \notin Bad
        BY <3>1, <3>2
      <3>4. from[q[i - 1]] = from[q[i]]
        BY <1>13, <3>2
      <3> QED
        BY <3>2, <3>3, <3>4
    <2>2. CASE Bad = {}
      <3>1. k \in 1..k
        BY <1>10
      <3>2. from[q[1]] = from[q[k]]
        BY <1>10, <2>2, <3>1
      <3> QED
        BY <1>12, <3>2
    <2> QED
      BY <2>1, <2>2
  <1> QED
    BY <1>10, <1>11, <1>14 DEF from, StopsAt, Finds

(* The first node of a list that is not empty.                             *)
LEMMA FirstOf ==
  ASSUME NEW S, NEW null, null \notin S, NEW link, NEW end, NEW q, Spells(S, link, q, end)
  PROVE  /\ First(q, null) = null <=> q = <<>>
         /\ q # <<>> => /\ First(q, null) = q[1] /\ q[1] \in Range(q) /\ q[1] \in S
                        /\ Len(q) \in Nat \ {0} /\ 1 \in 1..Len(q)
         /\ Range(q) \subseteq S
         /\ \A i \in 1..Len(q) : q[i] \in Range(q)
  <1>1. q \in Seq(S) /\ (q # <<>> => Len(q) \in Nat \ {0})
    BY DEF Spells
  <1>2. \A i \in 1..Len(q) : q[i] \in S /\ q[i] \in Range(q)
    BY Positions DEF Spells
  <1>3. Range(q) \subseteq S
    BY <1>1, MemberType
  <1> QED
    BY <1>1, <1>2, <1>3 DEF First

(* The empty list, as a circle and as a chain.                             *)
LEMMA EmptyList ==
  ASSUME NEW S, NEW next, NEW prev, NEW null
  PROVE  /\ Spells(S, next, <<>>, null) /\ Ring(S, next, prev, <<>>)
         /\ First(<<>>, null) = null /\ Range(<<>>) = {}
  BY EmptyQueue DEF Spells, Ring, Twined, First

(* What Linked makes of a circle.                                          *)
LEMMA RingLinked ==
  ASSUME NEW S, IsFiniteSet(S), NEW null, null \notin S,
         NEW next, NEW prev, NEW q, Ring(S, next, prev, q)
  PROVE  Linked(next, First(q, null), null, Cardinality(S)) = q
  <1>1. Spells(S, next, q, q[1])
    BY TwinedSpells DEF Ring
  <1>2. Cardinality(S) \in Nat
    BY FS_CardinalityType
  <1>3. Len(q) <= Cardinality(S)
    BY <1>1, NoLonger DEF Spells
  <1>4. CASE q = <<>>
    <2>1. Spells(S, next, q, null)
      BY <1>4, EmptyList
    <2> QED
      BY <1>2, <1>3, <2>1, LinkedSpells
  <1>5. CASE q # <<>>
    BY <1>1, <1>2, <1>3, <1>5, LinkedSpells
  <1> QED
    BY <1>4, <1>5

(* What the links of a node of such a list lead to.                        *)
LEMMA TwinedAgrees ==
  ASSUME NEW S, NEW null, null \notin S, NEW fwd, NEW bwd, NEW q,
         Twined(S, fwd, bwd, q, null, null), NEW x \in Range(q)
  PROVE  /\ x \in S
         /\ fwd[x] # null => fwd[x] \in Range(q) /\ bwd[fwd[x]] = x
         /\ bwd[x] # null => bwd[x] \in Range(q) /\ fwd[bwd[x]] = x
         /\ fwd[x] # x /\ bwd[x] # x
         /\ First(q, null) \in Range(q) /\ bwd[First(q, null)] = null
         /\ x = First(q, null) <=> bwd[x] = null
  <1>1. /\ q \in Seq(S) /\ Len(q) \in Nat
        /\ \A i \in 1..Len(q) : q[i] \in Range(q) /\ q[i] \in S
        /\ \A i, j \in 1..Len(q) : q[i] = q[j] => i = j
        /\ \A i \in 1..Len(q) : /\ fwd[q[i]] = IF i < Len(q) THEN q[i + 1] ELSE null
                                /\ bwd[q[i]] = IF i > 1 THEN q[i - 1] ELSE null
    BY Positions DEF Twined
  <1>2. PICK i \in 1..Len(q) : x = q[i]
    BY Positions DEF Twined
  <1>3. i < Len(q) => i + 1 \in 1..Len(q) /\ i + 1 > 1 /\ (i + 1) - 1 = i /\ i + 1 # i
    BY <1>1
  <1>4. i > 1 => i - 1 \in 1..Len(q) /\ i - 1 < Len(q) /\ (i - 1) + 1 = i /\ i - 1 # i
    BY <1>1
  <1>5. x \in S /\ x # null
    BY <1>1, <1>2
  <1>6. /\ fwd[x] # null => fwd[x] \in Range(q) /\ bwd[fwd[x]] = x
        /\ fwd[x] # x
    BY <1>1, <1>2, <1>3, <1>5
  <1>7. /\ bwd[x] # null => bwd[x] \in Range(q) /\ fwd[bwd[x]] = x
        /\ bwd[x] # x
    BY <1>1, <1>2, <1>4, <1>5
  <1>8. 1 \in 1..Len(q) /\ First(q, null) = q[1]
    <2>1. q # <<>> /\ 1 \in 1..Len(q)
      BY <1>1, <1>2
    <2> QED
      BY <2>1 DEF First
  <1>9. First(q, null) \in Range(q) /\ bwd[First(q, null)] = null
    BY <1>1, <1>8
  <1>10. x = First(q, null) <=> bwd[x] = null
    <2>1. bwd[x] = null <=> i = 1
      BY <1>1, <1>2, <1>4
    <2> QED
      BY <1>1, <1>2, <1>8, <2>1
  <1> QED
    BY <1>5, <1>6, <1>7, <1>9, <1>10

(* The table may have other nodes.                                         *)
LEMMA SpellsWider ==
  ASSUME NEW S, NEW T, S \subseteq T, NEW link, NEW q, NEW end, Spells(S, link, q, end)
  PROVE  Spells(T, link, q, end)
  BY DEF Spells

(* The nodes a table of N nodes frees in their order.                      *)
LEMMA StackOfAll ==
  ASSUME NEW N \in Nat \ {0}, NEW next, \A n \in 1..N : next[n] = n - 1
  PROVE  \E f : Spells(1..N, next, f, 0) /\ First(f, 0) = N /\ Range(f) = 1..N
  <1> DEFINE f == [i \in 1..N |-> N + 1 - i]
  <1>1. f \in Seq(1..N) /\ Len(f) = N /\ f # <<>> /\ f[1] = N
    OBVIOUS
  <1>2. IsInjective(f)
    BY DEF IsInjective
  <1>3. Range(f) = 1..N
    <2>1. ASSUME NEW n \in 1..N PROVE n \in Range(f)
      <3>1. N + 1 - n \in DOMAIN f /\ f[N + 1 - n] = n
        OBVIOUS
      <3> QED
        BY <3>1 DEF Range
    <2>2. Range(f) \subseteq 1..N
      BY DEF Range
    <2> QED
      BY <2>1, <2>2
  <1>4. ASSUME NEW i \in 1..N PROVE next[f[i]] = IF i < N THEN f[i + 1] ELSE 0
    <2>1. f[i] = N + 1 - i /\ f[i] \in 1..N /\ (i < N => f[i + 1] = N - i)
      OBVIOUS
    <2> HIDE DEF f
    <2>2. next[f[i]] = N - i
      BY <2>1
    <2> QED
      BY <2>1, <2>2
  <1> HIDE DEF f
  <1>5. Spells(1..N, next, f, 0)
    BY <1>1, <1>2, <1>4 DEF Spells
  <1> QED
    BY <1>1, <1>3, <1>5 DEF First

(* The ends of a list with one more at its end.                            *)
LEMMA AppendEnds ==
  ASSUME NEW S, NEW q \in Seq(S), NEW x \in S
  PROVE  /\ Append(q, x) \in Seq(S) /\ Range(Append(q, x)) = Range(q) \cup {x}
         /\ Append(q, x) # <<>> /\ Append(q, x)[Len(Append(q, x))] = x
         /\ q # <<>> => Append(q, x)[1] = q[1]
         /\ q = <<>> => Append(q, x)[1] = x
  <1>1. Append(q, x) \in Seq(S) /\ Range(Append(q, x)) = Range(q) \cup {x}
    BY AppendMembers
  <1> QED
    BY <1>1

(* What lies at the ends of a circle.                                      *)
LEMMA RingEnds ==
  ASSUME NEW S, NEW fwd, NEW bwd, NEW q, Ring(S, fwd, bwd, q), q # <<>>
  PROVE  /\ q \in Seq(S) /\ IsInjective(q) /\ Len(q) \in Nat \ {0}
         /\ 1 \in 1..Len(q) /\ Len(q) \in 1..Len(q)
         /\ Range(q) \subseteq S /\ \A i \in 1..Len(q) : q[i] \in Range(q)
         /\ q[1] \in Range(q) /\ q[Len(q)] \in Range(q)
         /\ fwd[q[Len(q)]] = q[1] /\ bwd[q[1]] = q[Len(q)]
         /\ fwd[q[Len(q)]] = q[Len(q)] <=> Len(q) = 1
         /\ Len(q) # 1 => bwd[q[Len(q)]] = q[Len(q) - 1]
  <1>1. /\ q \in Seq(S) /\ IsInjective(q) /\ Len(q) \in Nat \ {0}
        /\ 1 \in 1..Len(q) /\ Len(q) \in 1..Len(q)
    BY DEF Ring, Twined
  <1>2. /\ Range(q) \subseteq S /\ \A i \in 1..Len(q) : q[i] \in Range(q)
        /\ \A i, j \in 1..Len(q) : q[i] = q[j] => i = j
    BY <1>1, MemberType, Positions
  <1>3. /\ fwd[q[Len(q)]] = q[1] /\ bwd[q[1]] = q[Len(q)]
        /\ Len(q) # 1 => bwd[q[Len(q)]] = q[Len(q) - 1]
    <2>1. \A i \in 1..Len(q) : /\ fwd[q[i]] = IF i < Len(q) THEN q[i + 1] ELSE q[1]
                               /\ bwd[q[i]] = IF i > 1 THEN q[i - 1] ELSE q[Len(q)]
      BY DEF Ring, Twined
    <2>2. ~ (Len(q) < Len(q)) /\ ~ (1 > 1) /\ (Len(q) # 1 => Len(q) > 1)
      <3>1. \A m \in Nat \ {0} : ~ (m < m) /\ ~ (1 > 1) /\ (m # 1 => m > 1)
        OBVIOUS
      <3> QED
        BY <1>1, <3>1, Zenon
    <2> QED
      BY <1>1, <2>1, <2>2
  <1>4. fwd[q[Len(q)]] = q[Len(q)] <=> Len(q) = 1
    BY <1>1, <1>2, <1>3
  <1> QED
    BY <1>1, <1>2, <1>3, <1>4

(* What the tail pointer of a circle should be.                            *)
TailOf(q, null) == IF q = <<>> THEN null ELSE q[Len(q)]

(* The tail after an insertion.                                            *)
LEMMA EndAppended ==
  ASSUME NEW S, NEW null, NEW q \in Seq(S), NEW x \in S
  PROVE  TailOf(Append(q, x), null) = x
  BY AppendEnds DEF TailOf

(* The tail after the tail has left.                                       *)
LEMMA EndRemoved ==
  ASSUME NEW S, NEW null, NEW r \in Seq(S), NEW k \in 1..Len(r)
  PROVE  TailOf(RemoveAt(r, k), null) = IF k < Len(r) THEN r[Len(r)]
                                     ELSE IF Len(r) = 1 THEN null ELSE r[Len(r) - 1]
  <1> DEFINE q == RemoveAt(r, k)
             left == IF k < Len(r) THEN r[Len(r)]
                     ELSE IF Len(r) = 1 THEN null ELSE r[Len(r) - 1]
  <1> SUFFICES TailOf(q, null) = left
    OBVIOUS
  <1>1. Without(S, r, q, k)
    BY WithoutRemoved
  <1> HIDE DEF q
  <1>2. /\ Len(r) \in Nat /\ Len(q) \in Nat /\ Len(r) = Len(q) + 1 /\ (q = <<>> <=> Len(q) = 0)
        /\ \A i \in 1..(k - 1) : q[i] = r[i]
        /\ \A i \in k..Len(q) : q[i] = r[i + 1]
    BY <1>1 DEF Without
  <1>3. CASE k < Len(r)
    <2>1. Len(q) \in k..Len(q) /\ Len(q) # 0 /\ Len(q) + 1 = Len(r)
      BY <1>2, <1>3
    <2> QED
      BY <1>2, <1>3, <2>1 DEF TailOf
  <1>4. CASE k = Len(r) /\ Len(r) # 1
    <2>1. Len(q) \in 1..(k - 1) /\ Len(q) # 0 /\ Len(q) = Len(r) - 1 /\ ~ (k < Len(r))
      BY <1>2, <1>4
    <2> QED
      BY <1>2, <1>4, <2>1 DEF TailOf
  <1>5. CASE k = Len(r) /\ Len(r) = 1
    BY <1>2, <1>5 DEF TailOf
  <1>6. k < Len(r) \/ k = Len(r)
    BY <1>2
  <1> QED
    BY <1>3, <1>4, <1>5, <1>6

(* Of a sequence without repetition outProcQ removes the only position of  *)
(* the element.                                                            *)
LEMMA RemoveFirstAt ==
  ASSUME NEW S, NEW q \in Seq(S), IsInjective(q), NEW k \in 1..Len(q)
  PROVE  RemoveFirst(q, q[k]) = RemoveAt(q, k)
  <1> DEFINE I == {i \in 1..Len(q) : q[i] = q[k]}
  <1>1. \A i, j \in 1..Len(q) : q[i] = q[j] => i = j
    BY DEF IsInjective
  <1>2. I = {k}
    BY <1>1
  <1>3. I \in SUBSET Nat /\ I # {}
    BY <1>2
  <1>4. SelectInSeq(q, LAMBDA v : v = q[k]) = Min(I)
    BY <1>3 DEF SelectInSeq
  <1>5. Min(I) = k
    BY <1>2, <1>3, LeastPosition
  <1>6. \E i \in 1..Len(q) : q[i] = q[k]
    OBVIOUS
  <1>7. RemoveFirst(q, q[k]) = RemoveAt(q, SelectInSeq(q, LAMBDA v : v = q[k]))
    BY <1>6 DEF RemoveFirst
  <1> QED
    BY <1>4, <1>5, <1>7

(* Removal at the head.                                                    *)
LEMMA HeadRemoved ==
  ASSUME NEW S, NEW q \in Seq(S), q # <<>>
  PROVE  RemoveAt(q, 1) = Tail(q) /\ Head(q) = q[1] /\ 1 \in 1..Len(q)
  <1>1. Len(q) \in Nat \ {0} /\ 1 \in 1..Len(q) /\ Head(q) = q[1]
    OBVIOUS
  <1> DEFINE r == RemoveAt(q, 1)
             t == Tail(q)
  <1>2. /\ r \in Seq(S) /\ Len(r) = Len(q) - 1
        /\ \A i \in 1..(Len(q) - 1) : r[i] = q[i + 1]
    BY <1>1, RemoveAtShifts
  <1>3. /\ t \in Seq(S) /\ Len(t) = Len(q) - 1
        /\ \A i \in 1..(Len(q) - 1) : t[i] = q[i + 1]
    BY <1>1
  <1> HIDE DEF r, t
  <1>4. r = t
    BY <1>1, <1>2, <1>3, SeqEqual
  <1> QED
    BY <1>1, <1>4 DEF r, t

(* insertChild puts a child in front.                                      *)
LEMMA FrontInserted ==
  ASSUME NEW S, NEW q \in Seq(S), NEW x \in S
  PROVE  InsertAt(q, 1, x) = Cons(x, q)
  <1> DEFINE r == InsertAt(q, 1, x)
             t == Cons(x, q)
  <1>1. /\ r \in Seq(S) /\ Len(r) = Len(q) + 1 /\ r[1] = x
        /\ \A i \in 1..Len(q) : r[i + 1] = q[i]
    BY InsertAtShifts
  <1>2. /\ t \in Seq(S) /\ Len(t) = Len(q) + 1 /\ t[1] = x
        /\ \A i \in 1..Len(q) : t[i + 1] = q[i]
    BY DEF Cons
  <1> HIDE DEF r, t
  <1>3. ASSUME NEW i \in 1..(Len(q) + 1) PROVE r[i] = t[i]
    <2>1. i = 1 \/ (i - 1 \in 1..Len(q) /\ (i - 1) + 1 = i)
      OBVIOUS
    <2> QED
      BY <1>1, <1>2, <2>1
  <1>4. r = t
    BY <1>1, <1>2, <1>3, SeqEqual
  <1> QED
    BY <1>4 DEF r, t
==========================================================================
