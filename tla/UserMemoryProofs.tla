------------------------- MODULE UserMemoryProofs ------------------------
(***************************************************************************)
(* The paging of the user processes for any number of processes, frames,   *)
(* pages and disks, when no two processes share a page: FramesAgree, with  *)
(* IInv, which says who holds swapSem and what the holder has done so far; *)
(* then what the processes find in their pages: Coherent, and              *)
(* BuffersAreOwn.  CInv follows the contents of each page from the tape    *)
(* through the backing store into a frame and back; DInv adds that a disk  *)
(* has one user at a time, whose data are in its buffer.  The types, with  *)
(* shared pages too, come last: TInv.                                      *)
(***************************************************************************)
EXTENDS UserMemory, QueueLemmas

Critical == {"write out", "read in", "map"}
Replacing == \E p \in Proc : at[p] \in Critical

(* The types that the steps of paging rely on.                             *)
PagingTypes ==
  /\ pte \in [Key -> Frame \cup {INVALID, GARBAGE}] /\ tlb \in [Key -> Frame \cup {INVALID}]
  /\ swapPool \in [Frame -> (Proc \X Key) \cup {FREE}] /\ nextFrame \in Frame
  /\ swapSem \in DOMAIN queue /\ queue[swapSem] \in Seq(Proc)
  /\ at = [p \in Proc |-> at[p]] /\ page \in [Proc -> Key \cup {OLD}]
  /\ resume \in [Proc -> {"user", "copy out", "copy in", "terminal"}]

(* swapSem excludes: a process that replaces an occupant holds it.         *)
SwapMutex ==
  /\ IsInjective(queue[swapSem])
  /\ \A p \in Range(queue[swapSem]) : at[p] \in Faulting \cup {"dying"}
  /\ \A p \in Proc : at[p] \in Critical => Has(p, swapSem)

(* A process faults on a page of its own that no frame has.                *)
Missing ==
  /\ \A p \in Proc : at[p] \in Faulting => page[p] \in Key /\ pte[page[p]] = INVALID
  /\ \A p \in Proc : page[p] \in Key => page[p][1] = p

Emptied    == Replacing => \A k \in Key : pte[k] # nextFrame
Translated == \A k \in Key : tlb[k] \in Frame => pte[k] = tlb[k]
Mapped     == \A k \in Key : pte[k] \in Frame => swapPool[pte[k]] # FREE /\ PageIn(pte[k]) = k

Occupied == \A f \in Frame : swapPool[f] # FREE =>
  /\ PageIn(f)[1] = Owner(f) /\ ~Gone(Owner(f))
  /\ pte[PageIn(f)] = f \/ (f = nextFrame /\ Replacing)

Garbage == \A k \in Key : pte[k] = GARBAGE => Gone(k[1])

IInv == /\ PagingTypes /\ SwapMutex /\ Missing /\ Emptied
        /\ Translated /\ Mapped /\ Occupied /\ Garbage

---------------------------------------------------------------------------
(* Without shared pages every page is of one process, and the special      *)
(* values are no pages and no frames.                                      *)
LEMMA KeyFacts ==
  ASSUME Shared = {}
  PROVE  /\ \A k \in Key : k[1] \in Proc /\ k[2] \in Nat /\ k = <<k[1], k[2]>>
         /\ \A p \in Proc : \A k \in Pages(p) : k \in Key /\ k[1] = p
         /\ OLD \notin Key /\ FREE \notin Proc \X Key
         /\ Frame \subseteq Nat /\ 0 \in Frame /\ 0 \notin Proc
         /\ INVALID \notin Frame /\ GARBAGE \notin Frame
  <1>1. Key = UNION {{p} \X Page[p] : p \in Proc}
    BY DEF Key
  <1>2. \A k \in Key : \E p \in Proc : k[1] = p /\ k[2] \in Page[p] /\ k = <<k[1], k[2]>>
    BY <1>1
  <1>3. Proc \subseteq Nat \ {0} /\ \A p \in Proc : Page[p] \subseteq Nat
    BY MemoryAssumption DEF Proc
  <1>4. \A k \in Key : k[1] \in Proc /\ k[2] \in Nat /\ k = <<k[1], k[2]>>
    BY <1>2, <1>3
  <1>5. 0 \notin Proc
    BY <1>3
  <1>6. OLD \notin Key
    BY <1>4, <1>5 DEF OLD
  <1>7. FREE \notin Proc \X Key
    BY <1>5 DEF FREE
  <1>8. Frame \subseteq Nat /\ 0 \in Frame /\ INVALID \notin Frame /\ GARBAGE \notin Frame
    BY MemoryAssumption DEF Frame, INVALID, GARBAGE
  <1>9. \A p \in Proc : \A k \in Pages(p) : k \in Key /\ k[1] = p
    BY <1>4, <1>5 DEF Pages
  <1> QED
    BY <1>4, <1>5, <1>6, <1>7, <1>8, <1>9

(* The names of the semaphores differ.                                     *)
LEMMA SemaphoreNames ==
  /\ swapSem # backingSem
  /\ \A d : swapSem # diskSem(d)
  /\ \A p : swapSem # termSem(p)
  BY DEF swapSem, backingSem, diskSem, termSem

LEMMA InitInv ==
  ASSUME Shared = {}, Init
  PROVE  IInv
  <1>1. PagingTypes
    <2>1. swapSem \in DOMAIN queue /\ queue[swapSem] = <<>> /\ <<>> \in Seq(Proc)
      BY DEF Init
    <2>2. /\ pte \in [Key -> Frame \cup {INVALID, GARBAGE}]
          /\ tlb \in [Key -> Frame \cup {INVALID}]
          /\ swapPool \in [Frame -> (Proc \X Key) \cup {FREE}] /\ nextFrame \in Frame
      BY KeyFacts DEF Init
    <2>3. /\ at = [p \in Proc |-> at[p]] /\ page \in [Proc -> Key \cup {OLD}]
          /\ resume \in [Proc -> {"user", "copy out", "copy in", "terminal"}]
      BY DEF Init
    <2> QED
      BY <2>1, <2>2, <2>3 DEF PagingTypes
  <1>2. SwapMutex
    BY EmptyQueue DEF Init, SwapMutex, Critical
  <1>3. \A p \in Proc : at[p] = "tape" /\ page[p] = OLD
    BY DEF Init
  <1>4. \A k \in Key : pte[k] = INVALID /\ tlb[k] = INVALID
    BY DEF Init
  <1>5. \A f \in Frame : swapPool[f] = FREE
    BY DEF Init
  <1>6. INVALID # GARBAGE
    BY DEF INVALID, GARBAGE
  <1> QED
    BY <1>1, <1>2, <1>3, <1>4, <1>5, <1>6, KeyFacts
    DEF IInv, Missing, Emptied, Translated, Mapped, Occupied, Garbage, Faulting,
        Critical, Replacing

(* An access puts into the TLB what the page table has.                    *)
LEMMA AccessFills ==
  ASSUME Shared = {}, IInv, NEW k \in Key, Access(k)
  PROVE  /\ tlb' \in [Key -> Frame \cup {INVALID}]
         /\ \A j \in Key : tlb'[j] \in Frame => pte[j] = tlb'[j]
         /\ Reach(k) = pte[k] /\ pte[k] \in Frame
  BY KeyFacts DEF IInv, PagingTypes, Translated, Access, Reach

(* The steps in which no process starts or ends a fault, joins the queue   *)
(* of swapSem or dies, and no page is moved.                               *)
LEMMA Aside ==
  ASSUME Shared = {}, IInv, UNCHANGED <<pte, swapPool, nextFrame>>,
         tlb' = tlb \/ \E k \in Key : Access(k),
         swapSem \in DOMAIN queue', queue'[swapSem] = queue[swapSem],
         at' = [r \in Proc |-> at'[r]], page' \in [Proc -> Key \cup {OLD}],
         resume' = resume,
         \A p \in Proc :
           /\ at'[p] \in Faulting <=> at[p] \in Faulting
           /\ at'[p] \in Critical <=> at[p] \in Critical
           /\ at'[p] = "dying" <=> at[p] = "dying"
           /\ Gone(p)' <=> Gone(p)
           /\ page'[p] = page[p] \/ (at[p] \notin Faulting /\ (page'[p] \in Key => page'[p][1] = p))
  PROVE  IInv'
  <1> USE DEF IInv
  <1>1. /\ tlb' \in [Key -> Frame \cup {INVALID}]
        /\ \A j \in Key : tlb'[j] \in Frame => pte[j] = tlb'[j]
    BY AccessFills DEF PagingTypes, Translated
  <1>2. PagingTypes'
    BY <1>1 DEF PagingTypes
  <1>3. SwapMutex'
    <2>1. Range(queue[swapSem]) \subseteq Proc
      BY MemberType DEF PagingTypes
    <2> QED
      BY <2>1 DEF SwapMutex, Has
  <1>4. Missing'
    BY DEF Missing
  <1>5. Replacing' <=> Replacing
    BY DEF Replacing
  <1>6. Emptied' /\ Translated' /\ Mapped'
    BY <1>1, <1>5 DEF Emptied, Translated, Mapped, PageIn
  <1>7. \A k \in Key : k[1] \in Proc
    BY KeyFacts
  <1>8. \A f \in Frame : swapPool[f] # FREE => Owner(f) \in Proc
    BY DEF PagingTypes, Owner
  <1>9. Occupied'
    BY <1>5, <1>8 DEF Occupied, PageIn, Owner
  <1>10. Garbage'
    BY <1>7 DEF Garbage
  <1> QED
    BY <1>2, <1>3, <1>4, <1>6, <1>9, <1>10

---------------------------------------------------------------------------
(* What the queue of swapSem is after a P, of a process that is not in it. *)
LEMMA SwapAsked ==
  ASSUME PagingTypes, NEW p \in Proc, Enter(p, swapSem)
  PROVE  /\ swapSem \in DOMAIN queue'
         /\ queue'[swapSem] \in {queue[swapSem], Append(queue[swapSem], p)}
  BY DEF Enter, Ask, PagingTypes

LEMMA SwapLeft ==
  ASSUME PagingTypes, queue' = Leave(queue, swapSem)
  PROVE  swapSem \in DOMAIN queue' /\ queue'[swapSem] = Tail(queue[swapSem])
  BY DEF Leave, PagingTypes

LEMMA OtherAsked ==
  ASSUME PagingTypes, NEW p, NEW l, l # swapSem,
         queue' \in {queue, Ask(queue, p, l), Leave(queue, l), Ask(Leave(queue, l), p, l)}
  PROVE  swapSem \in DOMAIN queue' /\ queue'[swapSem] = queue[swapSem]
  BY DEF Ask, Leave, PagingTypes

(* A process joins the queue of swapSem: the front stays as it is, unless  *)
(* the queue was empty, and then no process was replacing.                 *)
LEMMA JoinsQueue ==
  ASSUME IInv, NEW p \in Proc, NEW x, Go(p, x),
         x \in {"choose", "dying"}, at[p] \notin Faulting \cup {"dying"},
         swapSem \in DOMAIN queue',
         queue'[swapSem] \in {queue[swapSem], Append(queue[swapSem], p)}
  PROVE  /\ SwapMutex' /\ queue'[swapSem] \in Seq(Proc)
         /\ at' = [r \in Proc |-> at'[r]] /\ (Replacing' <=> Replacing)
  <1> USE DEF IInv
  <1> DEFINE q == queue[swapSem]
  <1>1. q \in Seq(Proc) /\ IsInjective(q) /\ at = [r \in Proc |-> at[r]]
    BY DEF PagingTypes, SwapMutex
  <1>2. p \notin Range(q)
    BY DEF SwapMutex
  <1>3. /\ Append(q, p) \in Seq(Proc) /\ IsInjective(Append(q, p))
        /\ Range(Append(q, p)) = Range(q) \cup {p}
    BY <1>1, <1>2, AppendMembers
  <1>4. q # <<>> => Append(q, p) # <<>> /\ Head(Append(q, p)) = Head(q)
    BY <1>1
  <1>5. at' = [at EXCEPT ![p] = x]
    BY DEF Go
  <1>6. at' = [r \in Proc |-> at'[r]]
    BY <1>1, <1>5
  <1>7. \A r \in Proc : at'[r] \in Critical <=> at[r] \in Critical
    BY <1>1, <1>5 DEF Critical, Faulting
  <1>8. \A r \in Range(q) \cup {p} : at'[r] \in Faulting \cup {"dying"}
    <2>1. Range(q) \subseteq Proc
      BY <1>1, MemberType
    <2> QED
      BY <1>1, <1>5, <2>1 DEF SwapMutex, Faulting
  <1>9. \A r \in Proc : at'[r] \in Critical => queue'[swapSem] # <<>> /\ Head(queue'[swapSem]) = r
    BY <1>4, <1>7 DEF SwapMutex, Has
  <1>10. SwapMutex'
    BY <1>1, <1>3, <1>8, <1>9 DEF SwapMutex, Has
  <1> QED
    BY <1>1, <1>3, <1>6, <1>7, <1>10 DEF Replacing

(* The holder gives swapSem up: no process is replacing any more.          *)
LEMMA GivesUp ==
  ASSUME IInv, NEW p \in Proc, NEW x, Go(p, x),
         x \notin Critical, Has(p, swapSem),
         swapSem \in DOMAIN queue', queue'[swapSem] = Tail(queue[swapSem])
  PROVE  /\ SwapMutex' /\ queue'[swapSem] \in Seq(Proc)
         /\ at' = [r \in Proc |-> at'[r]] /\ ~Replacing'
         /\ \A r \in Proc : at[r] \in Critical => r = p
  <1> USE DEF IInv
  <1> DEFINE q == queue[swapSem]
  <1>1. q \in Seq(Proc) /\ IsInjective(q) /\ at = [r \in Proc |-> at[r]]
        /\ q # <<>> /\ Head(q) = p
    BY DEF PagingTypes, SwapMutex, Has
  <1>2. /\ Tail(q) \in Seq(Proc) /\ IsInjective(Tail(q))
        /\ Range(Tail(q)) = Range(q) \ {p}
    BY <1>1, TailMembers
  <1>3. \A r \in Proc : at[r] \in Critical => r = p
    BY <1>1 DEF SwapMutex, Has
  <1>4. at' = [at EXCEPT ![p] = x]
    BY DEF Go
  <1>5. at' = [r \in Proc |-> at'[r]]
    BY <1>1, <1>4
  <1>6. \A r \in Proc : at'[r] \notin Critical
    BY <1>1, <1>3, <1>4
  <1>7. Range(q) \subseteq Proc
    BY <1>1, MemberType
  <1>8. \A r \in Range(q) \ {p} : at'[r] \in Faulting \cup {"dying"}
    BY <1>1, <1>4, <1>7 DEF SwapMutex
  <1>9. SwapMutex'
    BY <1>2, <1>6, <1>8 DEF SwapMutex
  <1> QED
    BY <1>2, <1>3, <1>5, <1>6, <1>9 DEF Replacing

(* vmMemHandler as far as its P.                                           *)
LEMMA FaultInv ==
  ASSUME Shared = {}, IInv, NEW p \in Proc, NEW k \in Key, Fault(p, k)
  PROVE  IInv'
  <1> USE DEF IInv
  <1>1. at[p] \in {"user", "copy out", "copy in", "terminal"} /\ at[p] \notin Faulting
    BY DEF Fault, At, Faulting
  <1>2. /\ page' = [page EXCEPT ![p] = k] /\ resume' = [resume EXCEPT ![p] = at[p]]
        /\ Go(p, "choose") /\ UNCHANGED paging /\ Enter(p, swapSem)
    BY DEF Fault
  <1>3. k[1] = p
    BY KeyFacts DEF Fault, At, Missing
  <1>4. pte[k] = INVALID
    <2>1. tlb[k] \in Frame \cup {INVALID} /\ INVALID \notin Frame
      BY KeyFacts DEF PagingTypes
    <2> QED
      BY <2>1 DEF Fault, Reach
  <1>5. swapSem \in DOMAIN queue' /\ queue'[swapSem] \in {queue[swapSem], Append(queue[swapSem], p)}
    BY <1>2, SwapAsked
  <1>6. /\ SwapMutex' /\ queue'[swapSem] \in Seq(Proc)
        /\ at' = [r \in Proc |-> at'[r]] /\ (Replacing' <=> Replacing)
    BY <1>1, <1>2, <1>5, JoinsQueue
  <1>7. PagingTypes'
    BY <1>1, <1>2, <1>5, <1>6 DEF PagingTypes, paging
  <1>8. at' = [at EXCEPT ![p] = "choose"] /\ at = [r \in Proc |-> at[r]]
    BY <1>2 DEF Go, PagingTypes
  <1>9. \A r \in Proc : Gone(r)' <=> Gone(r)
    BY <1>1, <1>8 DEF Gone
  <1>10. Missing'
    BY <1>2, <1>3, <1>4, <1>8 DEF Missing, paging, PagingTypes, Faulting
  <1>11. Emptied' /\ Translated' /\ Mapped'
    BY <1>2, <1>6 DEF Emptied, Translated, Mapped, paging, PageIn
  <1>12. Occupied' /\ Garbage'
    <2>1. \A f \in Frame : swapPool[f] # FREE => Owner(f) \in Proc
      BY DEF PagingTypes, Owner
    <2> QED
      BY <1>2, <1>6, <1>9, <2>1, KeyFacts DEF Occupied, Garbage, paging, PageIn, Owner
  <1> QED
    BY <1>6, <1>7, <1>10, <1>11, <1>12

(* virtualDeath as far as its P.                                           *)
LEMMA DieInv ==
  ASSUME Shared = {}, IInv, NEW p \in Proc, Die(p)
  PROVE  IInv'
  <1> USE DEF IInv
  <1>1. at[p] \in {"user", "copy out", "copy in", "terminal"}
        /\ at[p] \notin Faulting \cup {"dying"}
    BY DEF Die, At, Faulting
  <1>2. Go(p, "dying") /\ UNCHANGED <<paging, page, resume>> /\ Enter(p, swapSem)
    BY DEF Die
  <1>3. swapSem \in DOMAIN queue' /\ queue'[swapSem] \in {queue[swapSem], Append(queue[swapSem], p)}
    BY <1>2, SwapAsked
  <1>4. /\ SwapMutex' /\ queue'[swapSem] \in Seq(Proc)
        /\ at' = [r \in Proc |-> at'[r]] /\ (Replacing' <=> Replacing)
    BY <1>1, <1>2, <1>3, JoinsQueue
  <1>5. PagingTypes'
    BY <1>2, <1>3, <1>4 DEF PagingTypes, paging
  <1>6. at' = [at EXCEPT ![p] = "dying"] /\ at = [r \in Proc |-> at[r]]
    BY <1>2 DEF Go, PagingTypes
  <1>7. \A r \in Proc : Gone(r)' <=> Gone(r)
    BY <1>1, <1>6 DEF Gone
  <1>8. Missing'
    BY <1>2, <1>6 DEF Missing, paging, Faulting
  <1>9. Emptied' /\ Translated' /\ Mapped'
    BY <1>2, <1>4 DEF Emptied, Translated, Mapped, paging, PageIn
  <1>10. Occupied' /\ Garbage'
    <2>1. \A f \in Frame : swapPool[f] # FREE => Owner(f) \in Proc
      BY DEF PagingTypes, Owner
    <2> QED
      BY <1>2, <1>4, <1>7, <2>1, KeyFacts DEF Occupied, Garbage, paging, PageIn, Owner
  <1> QED
    BY <1>4, <1>5, <1>8, <1>9, <1>10

(* chooseFrame: the holder takes the next frame in turn, and its occupant  *)
(* can no longer be reached.                                               *)
LEMMA ChooseInv ==
  ASSUME Shared = {}, IInv, NEW p \in Proc, Choose(p)
  PROVE  IInv'
  <1> USE DEF IInv
  <1> DEFINE f == chooseFrame
  <1>1. /\ at[p] = "choose" /\ Has(p, swapSem) /\ nextFrame' = f
        /\ queue' = Ask(queue, p, backingSem) /\ UNCHANGED <<swapPool, page, resume>>
    BY DEF Choose, At
  <1>2. f \in Frame
    <2>0. SWAPSIZE \in Nat \ {0} /\ nextFrame \in Frame
      BY MemoryAssumption DEF PagingTypes
    <2>1. SWAPSIZE \in Nat /\ SWAPSIZE > 0 /\ nextFrame + 1 \in Int
      BY <2>0 DEF Frame
    <2>2. \A a \in Int, b \in Nat : b > 0 => a % b \in 0..b - 1
      OBVIOUS
    <2> QED
      BY <2>1, <2>2 DEF Frame, chooseFrame
  <1>3. at' = [at EXCEPT ![p] = "write out"] \/ at' = [at EXCEPT ![p] = "read in"]
    BY DEF Choose, Go
  <1>4. \A r \in Proc : at[r] \in Critical => r = p
    BY <1>1 DEF SwapMutex, Has
  <1>5. ~Replacing
    BY <1>1, <1>4 DEF Replacing, Critical
  <1>6. swapSem \in DOMAIN queue' /\ queue'[swapSem] = queue[swapSem]
    BY <1>1, OtherAsked, SemaphoreNames
  <1>7. at = [r \in Proc |-> at[r]] /\ at' = [r \in Proc |-> at'[r]]
    BY <1>3 DEF PagingTypes
  <1>8. /\ \A r \in Proc : r # p => at'[r] = at[r]
        /\ at'[p] \in Critical /\ at[p] \in Faulting /\ at'[p] \in Faulting
    BY <1>1, <1>3, <1>7 DEF Critical, Faulting
  <1>9. SwapMutex'
    <2>1. Range(queue[swapSem]) \subseteq Proc
      BY MemberType DEF PagingTypes
    <2> QED
      BY <1>1, <1>4, <1>6, <1>8, <2>1 DEF SwapMutex, Has
  <1>10. \A r \in Proc : Gone(r)' <=> Gone(r)
    BY <1>1, <1>8 DEF Gone, Critical
  <1>11. Replacing'
    BY <1>8 DEF Replacing
  <1>12. \A g \in Frame : swapPool[g] # FREE =>
           PageIn(g) \in Key /\ Owner(g) \in Proc /\ pte[PageIn(g)] = g
    BY <1>5 DEF PagingTypes, PageIn, Owner, Occupied
  <1>13. CASE swapPool[f] = FREE
    <2>1. pte' = pte /\ tlb' = tlb
      BY <1>13 DEF Choose
    <2>2. PagingTypes'
      BY <1>1, <1>2, <1>6, <1>7, <2>1 DEF PagingTypes
    <2>3. Missing'
      BY <1>1, <1>8, <2>1 DEF Missing
    <2>4. Emptied' /\ Translated' /\ Mapped'
      BY <1>1, <1>2, <1>13, <2>1 DEF Emptied, Translated, Mapped, PageIn
    <2>5. Occupied' /\ Garbage'
      BY <1>1, <1>10, <1>12, <2>1, KeyFacts DEF Occupied, Garbage, PageIn, Owner
    <2> QED
      BY <1>9, <2>2, <2>3, <2>4, <2>5
  <1>14. CASE swapPool[f] # FREE
    <2>1. pte' = [pte EXCEPT ![PageIn(f)] = INVALID] /\ tlb' = Cleared
      BY <1>14 DEF Choose
    <2>2. PagingTypes'
      BY <1>1, <1>2, <1>6, <1>7, <2>1 DEF PagingTypes, Cleared
    <2>3. pte = [k \in Key |-> pte[k]] /\ tlb' = [k \in Key |-> INVALID]
      BY <2>1 DEF PagingTypes, Cleared
    <2>4. Missing'
      BY <1>1, <1>8, <2>1, <2>3 DEF Missing
    <2>5. Emptied'
      BY <1>1, <1>2, <2>1, <2>3, KeyFacts DEF Emptied, Mapped, PageIn
    <2>6. Translated' /\ Mapped'
      BY <1>1, <2>1, <2>3, KeyFacts DEF Translated, Mapped, PageIn
    <2>7. Occupied'
      <3> SUFFICES ASSUME NEW g \in Frame, swapPool[g] # FREE
                   PROVE  /\ PageIn(g)[1] = Owner(g) /\ ~Gone(Owner(g))'
                          /\ pte'[PageIn(g)] = g \/ g = f
        BY <1>1, <1>11 DEF Occupied, PageIn, Owner
      <3>1. PageIn(g) \in Key /\ Owner(g) \in Proc /\ pte[PageIn(g)] = g
        BY <1>12
      <3>2. g # f => PageIn(g) # PageIn(f)
        BY <1>2, <1>12, <1>14
      <3> QED
        BY <1>1, <1>10, <2>1, <2>3, <3>1, <3>2 DEF Occupied, PageIn, Owner
    <2>8. Garbage'
      <3>1. INVALID # GARBAGE
        BY DEF INVALID, GARBAGE
      <3> QED
        BY <1>10, <2>1, <2>3, <3>1, KeyFacts DEF Garbage
    <2> QED
      BY <1>9, <2>2, <2>4, <2>5, <2>6, <2>7, <2>8
  <1> QED
    BY <1>13, <1>14

(* The end of vmMemHandler: the frame has the page, and swapSem is free.   *)
LEMMA MapInv ==
  ASSUME Shared = {}, IInv, NEW p \in Proc, Map(p)
  PROVE  IInv'
  <1> USE DEF IInv
  <1> DEFINE k == page[p]
             n == nextFrame
  <1>1. /\ at[p] = "map" /\ swapPool' = [swapPool EXCEPT ![n] = <<p, k>>]
        /\ pte' = [pte EXCEPT ![k] = n] /\ tlb' = Cleared /\ nextFrame' = n
        /\ Go(p, resume[p]) /\ resume' = [resume EXCEPT ![p] = "user"]
        /\ page' = [page EXCEPT ![p] = IF resume[p] = "user" THEN OLD ELSE k]
        /\ queue' = Leave(queue, swapSem)
    BY DEF Map, At
  <1>2. /\ k \in Key /\ pte[k] = INVALID /\ k[1] = p /\ Has(p, swapSem) /\ Replacing
        /\ at[p] \in Critical /\ n \in Frame
    BY <1>1 DEF Missing, SwapMutex, Critical, Faulting, Replacing, PagingTypes
  <1>3. swapSem \in DOMAIN queue' /\ queue'[swapSem] = Tail(queue[swapSem])
    BY <1>1, SwapLeft
  <1>4. resume[p] \in {"user", "copy out", "copy in", "terminal"}
        /\ resume[p] \notin Critical \cup Faulting
    BY DEF PagingTypes, Critical, Faulting
  <1>5. /\ SwapMutex' /\ queue'[swapSem] \in Seq(Proc)
        /\ at' = [r \in Proc |-> at'[r]] /\ ~Replacing'
        /\ \A r \in Proc : at[r] \in Critical => r = p
    BY <1>1, <1>2, <1>3, <1>4, GivesUp
  <1>6. at' = [at EXCEPT ![p] = resume[p]] /\ at = [r \in Proc |-> at[r]]
    BY <1>1 DEF Go, PagingTypes
  <1>7. <<p, k>> \in Proc \X Key /\ <<p, k>> # FREE
    BY <1>2, KeyFacts
  <1>8. /\ pte = [j \in Key |-> pte[j]] /\ swapPool = [f \in Frame |-> swapPool[f]]
        /\ tlb' = [j \in Key |-> INVALID]
    BY <1>1 DEF PagingTypes, Cleared
  <1>9. PagingTypes'
    <2>1. pte' \in [Key -> Frame \cup {INVALID, GARBAGE}] /\ tlb' \in [Key -> Frame \cup {INVALID}]
      BY <1>1, <1>2, <1>8 DEF PagingTypes
    <2>2. swapPool' \in [Frame -> (Proc \X Key) \cup {FREE}]
      BY <1>1, <1>2, <1>7 DEF PagingTypes
    <2>3. page' \in [Proc -> Key \cup {OLD}]
          /\ resume' \in [Proc -> {"user", "copy out", "copy in", "terminal"}]
      BY <1>1, <1>2 DEF PagingTypes
    <2> QED
      BY <1>1, <1>2, <1>3, <1>5, <2>1, <2>2, <2>3 DEF PagingTypes
  <1>10. \A r \in Proc : Gone(r)' <=> Gone(r)
    BY <1>1, <1>4, <1>6 DEF Gone
  <1>11. Missing'
    <2>1. \A r \in Proc : r # p => at'[r] = at[r] /\ page'[r] = page[r]
      BY <1>1, <1>6 DEF PagingTypes
    <2>2. at'[p] \notin Faulting /\ page'[p] \in {OLD, k}
      BY <1>1, <1>4, <1>6 DEF PagingTypes
    <2>3. \A r \in Proc : page'[r] \in Key => page'[r][1] = r
      BY <1>2, <2>1, <2>2, KeyFacts DEF Missing
    <2>4. \A r \in Proc : at'[r] \in Faulting =>
            page'[r] \in Key /\ page'[r] # k /\ pte[page'[r]] = INVALID
      BY <1>2, <2>1, <2>2 DEF Missing
    <2>5. \A r \in Proc : at'[r] \in Faulting => pte'[page'[r]] = INVALID
      BY <1>1, <1>8, <2>4
    <2> QED
      BY <2>3, <2>4, <2>5 DEF Missing
  <1>12. Emptied' /\ Translated'
    BY <1>5, <1>8, KeyFacts DEF Emptied, Translated
  <1>13. Mapped'
    <2> SUFFICES ASSUME NEW j \in Key, pte'[j] \in Frame
                 PROVE  swapPool'[pte'[j]] # FREE /\ swapPool'[pte'[j]][2] = j
      BY DEF Mapped, PageIn
    <2>1. CASE j = k
      BY <1>1, <1>2, <1>7, <1>8, <2>1
    <2>2. CASE j # k
      <3>1. pte'[j] = pte[j] /\ pte[j] # n
        BY <1>1, <1>2, <1>8, <2>2 DEF Emptied
      <3> QED
        BY <1>1, <1>8, <3>1 DEF Mapped, PageIn
    <2> QED
      BY <2>1, <2>2
  <1>14. Occupied'
    <2> SUFFICES ASSUME NEW f \in Frame, swapPool'[f] # FREE
                 PROVE  /\ swapPool'[f][2][1] = swapPool'[f][1]
                        /\ at'[swapPool'[f][1]] \notin {"buried", "ended"}
                        /\ pte'[swapPool'[f][2]] = f
      BY DEF Occupied, PageIn, Owner, Gone
    <2>1. CASE f = n
      <3>1. swapPool'[f] = <<p, k>> /\ pte'[k] = n
        BY <1>1, <1>2, <1>8, <2>1
      <3>2. at'[p] \notin {"buried", "ended"}
        BY <1>1, <1>10 DEF Gone
      <3> QED
        BY <1>2, <2>1, <3>1, <3>2
    <2>2. CASE f # n
      <3>1. swapPool'[f] = swapPool[f]
        BY <1>1, <1>8, <2>2
      <3>2. /\ PageIn(f)[1] = Owner(f) /\ ~Gone(Owner(f)) /\ pte[PageIn(f)] = f
            /\ PageIn(f) \in Key /\ Owner(f) \in Proc
        BY <2>2, <3>1 DEF Occupied, PagingTypes, PageIn, Owner
      <3>3. PageIn(f) # k
        BY <1>2, <3>2, KeyFacts
      <3> QED
        BY <1>1, <1>8, <1>10, <3>1, <3>2, <3>3 DEF PageIn, Owner, Gone
    <2> QED
      BY <2>1, <2>2
  <1>15. Garbage'
    BY <1>1, <1>2, <1>8, <1>10, KeyFacts DEF Garbage
  <1> QED
    BY <1>5, <1>9, <1>11, <1>12, <1>13, <1>14, <1>15

(* virtualDeath: the frames of the process are free, and its pages are     *)
(* gone with it.                                                           *)
LEMMA BuryInv ==
  ASSUME Shared = {}, IInv, NEW p \in Proc, Bury(p)
  PROVE  IInv'
  <1> USE DEF IInv
  <1> DEFINE Buried(k) == \E f \in Owned(p) : PageIn(f) = k
  <1>1. /\ at[p] = "dying" /\ Has(p, swapSem) /\ Go(p, "buried")
        /\ pte' = [k \in Key |-> IF Buried(k) THEN GARBAGE ELSE pte[k]]
        /\ swapPool' = [f \in Frame |-> IF f \in Owned(p) THEN FREE ELSE swapPool[f]]
        /\ tlb' = IF Owned(p) = {} THEN tlb ELSE Cleared
        /\ queue' = Leave(queue, swapSem) /\ UNCHANGED <<nextFrame, page, resume>>
    BY DEF Bury, At
  <1>2. "buried" \notin Critical \cup Faulting /\ "dying" \notin Critical \cup Faulting
    BY DEF Critical, Faulting
  <1>3. swapSem \in DOMAIN queue' /\ queue'[swapSem] = Tail(queue[swapSem])
    BY <1>1, SwapLeft
  <1>4. /\ SwapMutex' /\ queue'[swapSem] \in Seq(Proc)
        /\ at' = [r \in Proc |-> at'[r]] /\ ~Replacing'
        /\ \A r \in Proc : at[r] \in Critical => r = p
    BY <1>1, <1>2, <1>3, GivesUp
  <1>5. ~Replacing
    BY <1>1, <1>2, <1>4 DEF Replacing
  <1>6. at' = [at EXCEPT ![p] = "buried"] /\ at = [r \in Proc |-> at[r]]
    BY <1>1 DEF Go, PagingTypes
  <1>7. at'[p] = "buried" /\ \A r \in Proc : r # p => at'[r] = at[r]
    BY <1>6
  <1>8. PagingTypes'
    <2>1. pte' \in [Key -> Frame \cup {INVALID, GARBAGE}] /\ tlb' \in [Key -> Frame \cup {INVALID}]
      BY <1>1 DEF PagingTypes, Cleared
    <2>2. swapPool' \in [Frame -> (Proc \X Key) \cup {FREE}]
      BY <1>1 DEF PagingTypes
    <2> QED
      BY <1>1, <1>3, <1>4, <2>1, <2>2 DEF PagingTypes
  <1>9. \A f \in Frame : swapPool[f] # FREE =>
          PageIn(f) \in Key /\ Owner(f) \in Proc /\ pte[PageIn(f)] = f /\ PageIn(f)[1] = Owner(f)
    BY <1>5 DEF PagingTypes, PageIn, Owner, Occupied
  <1>10. Owned(p) \subseteq Frame /\ \A f \in Owned(p) : swapPool[f] # FREE /\ Owner(f) = p
    <2>1. FREE[1] \notin Proc
      BY KeyFacts DEF FREE
    <2> QED
      BY <2>1 DEF Owned, Owner
  <1>11. \A k \in Key : Buried(k) => k[1] = p
    BY <1>9, <1>10
  <1>12. \A k \in Key : pte'[k] = IF Buried(k) THEN GARBAGE ELSE pte[k]
    BY <1>1
  <1> HIDE DEF Buried
  <1>13. Missing'
    <2>1. \A r \in Proc : at'[r] \in Faulting => r # p /\ at[r] \in Faulting
      BY <1>2, <1>7
    <2>2. \A r \in Proc : at'[r] \in Faulting =>
            page[r] \in Key /\ ~Buried(page[r]) /\ pte[page[r]] = INVALID
      BY <1>11, <2>1 DEF Missing
    <2> QED
      BY <1>1, <1>12, <2>2 DEF Missing
  <1>14. Emptied'
    BY <1>4 DEF Emptied
  <1>15. Translated'
    <2>1. CASE Owned(p) = {}
      BY <1>1, <1>12, <2>1 DEF Translated, Buried
    <2>2. CASE Owned(p) # {}
      BY <1>1, <2>2, KeyFacts DEF Translated, Cleared
    <2> QED
      BY <2>1, <2>2
  <1>16. Mapped'
    <2> SUFFICES ASSUME NEW k \in Key, pte'[k] \in Frame
                 PROVE  swapPool'[pte'[k]] # FREE /\ swapPool'[pte'[k]][2] = k
      BY DEF Mapped, PageIn
    <2>1. ~Buried(k) /\ pte'[k] = pte[k]
      BY <1>12, KeyFacts
    <2>2. swapPool[pte[k]] # FREE /\ PageIn(pte[k]) = k
      BY <2>1 DEF Mapped
    <2>3. pte[k] \notin Owned(p)
      BY <2>1, <2>2 DEF Buried
    <2>4. swapPool'[pte[k]] = swapPool[pte[k]]
      BY <1>1, <2>1, <2>3
    <2> QED
      BY <2>1, <2>2, <2>4 DEF PageIn
  <1>17. Occupied'
    <2> SUFFICES ASSUME NEW f \in Frame, swapPool'[f] # FREE
                 PROVE  /\ swapPool'[f][2][1] = swapPool'[f][1]
                        /\ at'[swapPool'[f][1]] \notin {"buried", "ended"}
                        /\ pte'[swapPool'[f][2]] = f
      BY DEF Occupied, PageIn, Owner, Gone
    <2>1. f \notin Owned(p) /\ swapPool'[f] = swapPool[f]
      BY <1>1
    <2>2. /\ PageIn(f)[1] = Owner(f) /\ ~Gone(Owner(f)) /\ pte[PageIn(f)] = f
          /\ PageIn(f) \in Key /\ Owner(f) \in Proc
      BY <1>9, <2>1 DEF Occupied
    <2>3. Owner(f) # p
      BY <2>1 DEF Owned
    <2>4. ~Buried(PageIn(f))
      BY <1>11, <2>2, <2>3
    <2> QED
      BY <1>7, <1>12, <2>1, <2>2, <2>3, <2>4 DEF PageIn, Owner, Gone
  <1>18. Garbage'
    <2> SUFFICES ASSUME NEW k \in Key, pte'[k] = GARBAGE
                 PROVE  at'[k[1]] \in {"buried", "ended"}
      BY DEF Garbage, Gone
    <2>1. k[1] \in Proc
      BY KeyFacts
    <2>2. CASE Buried(k)
      BY <1>7, <1>11, <2>2
    <2>3. CASE ~Buried(k)
      BY <1>7, <1>12, <2>1, <2>3 DEF Garbage, Gone
    <2> QED
      BY <2>2, <2>3
  <1> QED
    BY <1>4, <1>8, <1>13, <1>14, <1>15, <1>16, <1>17, <1>18

---------------------------------------------------------------------------
(* One process goes on, outside of a fault or from one stage of it to the  *)
(* next, and may take up another page only outside.                        *)
LEMMA GoesOn ==
  ASSUME Shared = {}, IInv, UNCHANGED <<pte, swapPool, nextFrame, resume>>,
         tlb' = tlb \/ \E k \in Key : Access(k),
         NEW p \in Proc, NEW l, l # swapSem, NEW x, Go(p, x),
         queue' \in {queue, Ask(queue, p, l), Leave(queue, l), Ask(Leave(queue, l), p, l)},
         \/ {x, at[p]} \cap ({"dying", "buried", "ended"} \cup Faulting) = {}
         \/ {x, at[p]} \subseteq Critical
         \/ {x, at[p]} \subseteq {"buried", "ended"},
         \/ page' = page
         \/ /\ at[p] \notin Faulting
            /\ \E v \in {OLD} \cup Pages(p) : page' = [page EXCEPT ![p] = v]
  PROVE  IInv'
  <1>1. at = [r \in Proc |-> at[r]] /\ at' = [at EXCEPT ![p] = x]
        /\ page \in [Proc -> Key \cup {OLD}]
    BY DEF IInv, PagingTypes, Go
  <1>2. at' = [r \in Proc |-> at'[r]] /\ at'[p] = x /\ \A r \in Proc : r # p => at'[r] = at[r]
    BY <1>1
  <1>3. swapSem \in DOMAIN queue' /\ queue'[swapSem] = queue[swapSem]
    BY OtherAsked DEF IInv
  <1>4. /\ page' \in [Proc -> Key \cup {OLD}]
        /\ \A r \in Proc : \/ page'[r] = page[r]
                           \/ at[r] \notin Faulting /\ (page'[r] \in Key => page'[r][1] = r)
    BY <1>1, KeyFacts
  <1>5. \A r \in Proc :
          /\ at'[r] \in Faulting <=> at[r] \in Faulting
          /\ at'[r] \in Critical <=> at[r] \in Critical
          /\ at'[r] = "dying" <=> at[r] = "dying"
          /\ at'[r] \in {"buried", "ended"} <=> at[r] \in {"buried", "ended"}
    <2>1. Critical \subseteq Faulting /\ {"dying", "buried", "ended"} \cap Faulting = {}
      BY DEF Critical, Faulting
    <2> QED
      BY <1>2, <2>1
  <1> QED
    BY <1>2, <1>3, <1>4, <1>5, Aside DEF Gone

(* The loading of the tape, and the transfers of a fault.                  *)
LEMMA TransfersInv ==
  ASSUME Shared = {}, IInv, NEW p \in Proc,
         TapeRead(p) \/ Store(p) \/ WriteOut(p) \/ ReadIn(p) \/ Get(p)
  PROVE  IInv'
  <1>1. {"tape", "store", "store last", "user", "get", "copy in"}
          \cap ({"dying", "buried", "ended"} \cup Faulting) = {}
    BY DEF Faulting
  <1>2. {"write out", "read in", "map"} \subseteq Critical
    BY DEF Critical
  <1>3. CASE TapeRead(p)
    <2>1. \E x \in {"store", "store last"} : Go(p, x)
      BY <1>3 DEF TapeRead
    <2> QED
      BY <1>1, <1>3, <2>1, GoesOn, SemaphoreNames DEF TapeRead, At, paging
  <1>4. CASE Store(p)
    <2>1. \E x \in {"tape", "user"} : Go(p, x)
      BY <1>4 DEF Store
    <2> QED
      BY <1>1, <1>4, <2>1, GoesOn, SemaphoreNames DEF Store, At, paging
  <1>5. CASE WriteOut(p)
    BY <1>2, <1>5, GoesOn, SemaphoreNames DEF WriteOut, At, paging
  <1>6. CASE ReadIn(p)
    BY <1>2, <1>6, GoesOn, SemaphoreNames DEF ReadIn, At, paging
  <1>7. CASE Get(p)
    BY <1>1, <1>7, GoesOn, SemaphoreNames DEF Get, At, paging
  <1> QED
    BY <1>3, <1>4, <1>5, <1>6, <1>7

(* The program's accesses and the SYSCALLs for disks and terminals.        *)
LEMMA CallsInv ==
  ASSUME Shared = {}, IInv, NEW p \in Proc,
         \/ \E k \in Key : TermCall(p, k) \/ \E d \in Disk : DiskCall(p, d, k)
         \/ CopyOut(p) \/ Put(p) \/ CopyIn(p) \/ TermEnd(p)
  PROVE  IInv'
  <1>1. {"user", "copy out", "get", "put", "copy in", "terminal"}
          \cap ({"dying", "buried", "ended"} \cup Faulting) = {}
    BY DEF Faulting
  <1>2. \A l : Enter(p, l) => queue' \in {queue, Ask(queue, p, l)}
    BY DEF Enter
  <1>3. ASSUME NEW k \in Key, TermCall(p, k) PROVE IInv'
    BY <1>1, <1>2, <1>3, GoesOn, SemaphoreNames DEF TermCall, At, paging
  <1>4. ASSUME NEW k \in Key, NEW d \in Disk, DiskCall(p, d, k) PROVE IInv'
    <2>1. \E x \in {"copy out", "get"} : Go(p, x)
      BY <1>4 DEF DiskCall
    <2> QED
      BY <1>1, <1>2, <1>4, <2>1, GoesOn, SemaphoreNames DEF DiskCall, At, paging
  <1>5. Access(page[p]) => tlb' = tlb \/ \E k \in Key : Access(k)
    <2>1. page[p] \notin Key => [tlb EXCEPT ![page[p]] = Reach(page[p])] = tlb
      BY DEF IInv, PagingTypes
    <2> QED
      BY <2>1 DEF Access
  <1>6. CASE CopyOut(p)
    BY <1>1, <1>5, <1>6, GoesOn, SemaphoreNames DEF CopyOut, At
  <1>7. CASE Put(p)
    BY <1>1, <1>7, GoesOn, SemaphoreNames DEF Put, Return, At, paging
  <1>8. CASE CopyIn(p)
    BY <1>1, <1>5, <1>8, GoesOn, SemaphoreNames DEF CopyIn, Write, Return, At
  <1>9. CASE TermEnd(p)
    BY <1>1, <1>9, GoesOn, SemaphoreNames DEF TermEnd, Return, At, paging
  <1> QED
    BY <1>3, <1>4, <1>6, <1>7, <1>8, <1>9

(* Steps in which no process goes on: accesses, and test().                *)
LEMMA StaysInv ==
  ASSUME Shared = {}, IInv, UNCHANGED <<pte, swapPool, nextFrame, queue, proc>>,
         tlb' = tlb \/ \E k \in Key : Access(k)
  PROVE  IInv'
  <1>1. UNCHANGED <<at, page, resume>>
    BY DEF proc
  <1>2. /\ swapSem \in DOMAIN queue /\ at = [r \in Proc |-> at[r]]
        /\ page \in [Proc -> Key \cup {OLD}]
    BY DEF IInv, PagingTypes
  <1> QED
    BY <1>1, <1>2, Aside DEF Gone

LEMMA NextInv ==
  ASSUME Shared = {}, IInv, [Next]_vars
  PROVE  IInv'
  <1>1. ASSUME NEW p \in Proc, Access(page[p]) PROVE tlb' = tlb \/ \E k \in Key : Access(k)
    <2>1. page[p] \notin Key => [tlb EXCEPT ![page[p]] = Reach(page[p])] = tlb
      BY DEF IInv, PagingTypes
    <2> QED
      BY <1>1, <2>1 DEF Access
  <1>2. ASSUME NEW p \in Proc, Kernel(p) \/ Program(p) PROVE IInv'
    <2>1. CASE TapeRead(p) \/ Store(p) \/ WriteOut(p) \/ ReadIn(p) \/ Get(p)
      BY <2>1, TransfersInv
    <2>2. CASE \/ \E k \in Key : TermCall(p, k) \/ \E d \in Disk : DiskCall(p, d, k)
               \/ CopyOut(p) \/ Put(p) \/ CopyIn(p) \/ TermEnd(p)
      BY <2>2, CallsInv
    <2>3. CASE Choose(p)
      BY <2>3, ChooseInv
    <2>4. CASE Map(p)
      BY <2>4, MapInv
    <2>5. CASE Bury(p)
      BY <2>5, BuryInv
    <2>6. CASE \E k \in Key : Fault(p, k)
      BY <2>6, FaultInv
    <2>7. CASE Die(p)
      BY <2>7, DieInv
    <2>8. CASE Terminate(p)
      BY <2>8, GoesOn, SemaphoreNames DEF Terminate, At, paging
    <2>9. ASSUME NEW k \in Key, Use(p, k) PROVE IInv'
      BY <2>9, StaysInv DEF Use, Write
    <2>10. CASE TermChar(p)
      BY <1>1, <2>10, StaysInv DEF TermChar, Write
    <2>11. CASE TermPanic(p)
      BY <2>11, StaysInv DEF TermPanic, paging
    <2> QED
      BY <1>2, <2>1, <2>2, <2>3, <2>4, <2>5, <2>6, <2>7, <2>8, <2>9, <2>10, <2>11
      DEF Kernel, Program
  <1>3. CASE Join
    BY <1>3, StaysInv DEF Join, paging
  <1>4. CASE Halted \/ UNCHANGED vars
    BY <1>4, StaysInv DEF Halted, vars, paging
  <1> QED
    BY <1>2, <1>3, <1>4 DEF Next

---------------------------------------------------------------------------
(* Page tables, TLB and swap pool agree (vmMemHandler, virtualDeath).      *)
LEMMA InvAgrees ==
  ASSUME Shared = {}, IInv
  PROVE  FramesAgree
  <1> USE DEF IInv
  <1>1. ASSUME NEW k \in Key, Live(k), Reach(k) # INVALID
        PROVE  Reach(k) = pte[k] /\ pte[k] \in Frame /\ PageIn(pte[k]) = k
    <2>1. tlb[k] \in Frame => Reach(k) = pte[k]
      BY DEF Translated, Reach
    <2>2. Reach(k) = pte[k] /\ pte[k] \in Frame \cup {GARBAGE}
      BY <1>1, <2>1 DEF Reach, PagingTypes
    <2>3. pte[k] # GARBAGE
      BY <1>1, KeyFacts DEF Live, Garbage
    <2> QED
      BY <2>2, <2>3 DEF Mapped
  <1>2. ASSUME NEW f \in Frame, swapPool[f] # FREE
        PROVE  /\ ~Gone(Owner(f))
               /\ \/ pte[PageIn(f)] = f
                  \/ f = nextFrame /\ \E p \in Proc : at[p] \in Faulting \ {"choose"}
    BY <1>2 DEF Occupied, Replacing, Critical, Faulting
  <1> QED
    BY <1>1, <1>2 DEF FramesAgree

(* However many processes fault and die, and in whatever order, page       *)
(* tables, TLB and swap pool agree (vmMemHandler, virtualDeath), provided  *)
(* that no two processes share a page.                                     *)
THEOREM PagingIsConsistent == Shared = {} => (Spec => []FramesAgree)
  <1> SUFFICES ASSUME Shared = {} PROVE Spec => []FramesAgree
    OBVIOUS
  <1>1. Init => IInv
    BY InitInv
  <1>2. IInv /\ [Next]_vars => IInv'
    BY NextInv
  <1>3. IInv => FramesAgree
    BY InvAgrees
  <1> QED
    BY <1>1, <1>2, <1>3, PTL DEF Spec

---------------------------------------------------------------------------
(* Contents.                                                               *)

BuffersApart == \A p \in Proc : p - 1 \notin Disk    \* DISKBUFFER and the tapes' buffers

LoadingSteps == {"tape", "store", "store last"}
DiskSteps    == {"copy out", "put", "get", "copy in"}

SectorOf(k) == Sector(k[1], k[2])

(* The tape has put the page in the backing store, or never will.          *)
Stored(k) ==
  \/ at[k[1]] \notin LoadingSteps
  \/ k[2] \notin 0..TapeBlocks[k[1]] - 1
  \/ k[2] < block[k[1]]

BeingWritten(k) == \E p \in Proc : at[p] = "write out" /\ PageIn(nextFrame) = k

ContentTypes ==
  /\ mem = [c \in Place |-> mem[c]] /\ failed \in BOOLEAN
  /\ block \in [Proc -> Nat] /\ disk = [p \in Proc |-> disk[p]]

(* A process that still loads its tape has no page in a frame.             *)
Fresh ==
  /\ \A p \in Proc : at[p] \in LoadingSteps =>
       /\ block[p] < TapeBlocks[p] /\ page[p] = OLD
       /\ \A k \in Key : k[1] = p => pte[k] = INVALID
  /\ \A p \in Proc : at[p] = "store" => block[p] + 1 < TapeBlocks[p]
  /\ \A f \in Frame : swapPool[f] # FREE => at[Owner(f)] \notin LoadingSteps

(* The occupant that is being written out can no longer be reached.        *)
Replaced == \A p \in Proc : at[p] = "write out" =>
  swapPool[nextFrame] # FREE /\ pte[PageIn(nextFrame)] = INVALID

(* A SYSCALL for a disk or the terminal has the numbers it was given, also *)
(* after a fault.                                                          *)
Callers == \A p \in Proc :
  /\ at[p] \in DiskSteps \/ (at[p] \in Faulting /\ resume[p] \in DiskSteps) => disk[p] \in Disk
  /\ at[p] \in DiskSteps \cup {"terminal"} => page[p] \in Key

(* Where the contents of each page are.                                    *)
InFrame  == \A k \in Key : pte[k] \in Frame => mem[FrameOf(pte[k])] = k
InSector == \A k \in Key :
  pte[k] = INVALID /\ Stored(k) /\ ~BeingWritten(k) => mem[SectorOf(k)] = k
InTransit == \A p \in Proc :
  /\ at[p] = "write out" => mem[FrameOf(nextFrame)] = PageIn(nextFrame)
  /\ at[p] = "map" => mem[FrameOf(nextFrame)] = page[p]
InBuffer == \A p \in Proc :
  /\ at[p] \in {"store", "store last"} => mem[TapeBuffer(p)] = <<p, block[p]>>
  /\ at[p] = "store last" => block[p] + 1 = TapeBlocks[p]

Contents == ~failed => InFrame /\ InSector /\ InTransit /\ InBuffer

Steps == ContentTypes /\ Fresh /\ Replaced /\ Callers
CInv  == Steps /\ Contents

---------------------------------------------------------------------------
(* The places of frames, sectors and buffers.                              *)
LEMMA PlaceFacts ==
  ASSUME Shared = {}, BuffersApart
  PROVE  /\ \A f \in Frame : FrameOf(f) \in Place
         /\ \A k \in Key : SectorOf(k) \in Place
         /\ \A p \in Proc : TapeBuffer(p) \in Place
         /\ \A f, g \in Frame : FrameOf(f) = FrameOf(g) => f = g
         /\ \A j, k \in Key : SectorOf(j) = SectorOf(k) => j = k
         /\ \A p, r \in Proc : TapeBuffer(p) = TapeBuffer(r) => p = r
         /\ \A f \in Frame, k \in Key : FrameOf(f) # SectorOf(k)
         /\ \A f \in Frame, p \in Proc : FrameOf(f) # TapeBuffer(p)
         /\ \A k \in Key, p \in Proc : SectorOf(k) # TapeBuffer(p)
  <1>1. \A k \in Key : k[1] \in Proc /\ k[2] \in AllPages /\ k = <<k[1], k[2]>>
    BY KeyFacts DEF Key, AllPages
  <1>2. \A k \in Key : SectorOf(k) \in Place
    BY <1>1 DEF SectorOf, Place
  <1>3. \A j, k \in Key : SectorOf(j) = SectorOf(k) => j = k
    BY <1>1 DEF SectorOf, Sector
  <1>4. \A p, r \in Proc : TapeBuffer(p) = TapeBuffer(r) => p = r
    BY MemoryAssumption DEF TapeBuffer, Buffer, Proc
  <1>5. /\ \A f \in Frame : FrameOf(f) \in Place
        /\ \A p \in Proc : TapeBuffer(p) \in Place
    BY DEF Place
  <1>6. /\ \A f, g \in Frame : FrameOf(f) = FrameOf(g) => f = g
        /\ \A f \in Frame, k \in Key : FrameOf(f) # SectorOf(k)
        /\ \A f \in Frame, p \in Proc : FrameOf(f) # TapeBuffer(p)
        /\ \A k \in Key, p \in Proc : SectorOf(k) # TapeBuffer(p)
    BY DEF FrameOf, SectorOf, Sector, TapeBuffer, Buffer
  <1> QED
    BY <1>2, <1>3, <1>4, <1>5, <1>6

(* The buffers and the blocks of the disks hold no page.                   *)
LEMMA DiskPlaces ==
  ASSUME Shared = {}, BuffersApart, NEW d \in Disk
  PROVE  \A c \in {DiskBuffer(d), Block(d)} :
           /\ c \in Place
           /\ \A f \in Frame : c # FrameOf(f)
           /\ \A k \in Key : c # SectorOf(k)
           /\ \A p \in Proc : c # TapeBuffer(p)
  <1>1. DiskBuffer(d) \in Place /\ Block(d) \in Place
    BY DEF Place
  <1>2. \A p \in Proc : d # p - 1
    BY DEF BuffersApart
  <1> QED
    BY <1>1, <1>2 DEF DiskBuffer, Block, FrameOf, SectorOf, Sector, TapeBuffer, Buffer

(* What a page was given is not what a process has put on a disk.          *)
LEMMA FilesAreNoPages ==
  ASSUME Shared = {}, NEW p
  PROVE  File(p) \notin Key
  <1>1. \A k \in Key : k[2] \in Nat
    BY KeyFacts
  <1> QED
    BY <1>1 DEF File

LEMMA InitContents ==
  ASSUME Shared = {}, BuffersApart, Init
  PROVE  CInv
  <1>1. /\ \A p \in Proc : at[p] = "tape" /\ page[p] = OLD /\ block[p] = 0
        /\ \A k \in Key : pte[k] = INVALID
        /\ \A f \in Frame : swapPool[f] = FREE
    BY DEF Init
  <1>2. ContentTypes
    BY DEF Init, ContentTypes
  <1>3. \A p \in Proc : 0 < TapeBlocks[p]
    BY MemoryAssumption
  <1>4. Fresh
    BY <1>1, <1>3 DEF Fresh
  <1>5. Replaced /\ Callers
    BY <1>1 DEF Replaced, Callers, DiskSteps, Faulting
  <1>6. INVALID \notin Frame
    BY KeyFacts
  <1>7. InFrame /\ InTransit /\ InBuffer
    BY <1>1, <1>6 DEF InFrame, InTransit, InBuffer
  <1>8. InSector
    <2> SUFFICES ASSUME NEW k \in Key, Stored(k) PROVE mem[SectorOf(k)] = k
      BY DEF InSector
    <2>1. k[1] \in Proc /\ k[2] \in Nat /\ k = <<k[1], k[2]>>
      BY KeyFacts
    <2>2. k[2] \notin 0..TapeBlocks[k[1]] - 1
      <3>1. at[k[1]] \in LoadingSteps
        BY <1>1, <2>1 DEF LoadingSteps
      <3>2. ~ (k[2] < block[k[1]])
        BY <1>1, <2>1
      <3> QED
        BY <3>1, <3>2 DEF Stored
    <2>3. SectorOf(k) \notin Unloaded
      BY <2>1, <2>2 DEF SectorOf, Sector, Unloaded
    <2>4. /\ SectorOf(k)[1] = "backing" /\ SectorOf(k)[2] = k[1] /\ SectorOf(k)[3] = k[2]
      BY DEF SectorOf, Sector
    <2>5. SectorOf(k) \in Place
      BY PlaceFacts
    <2> QED
      BY <2>1, <2>3, <2>4, <2>5 DEF Init
  <1> QED
    BY <1>2, <1>4, <1>5, <1>7, <1>8 DEF CInv, Steps, Contents

---------------------------------------------------------------------------
(* What a transfer and new contents do as long as nothing fails.           *)
LEMMA Transferred ==
  ASSUME ContentTypes, NEW from, NEW to, Transfer(from, to)
  PROVE  /\ mem' = [c \in Place |-> mem'[c]] /\ failed' \in BOOLEAN
         /\ failed => failed'
         /\ ~failed' /\ to \in Place => mem'[to] = mem[from]
         /\ ~failed' => \A c \in Place : c # to => mem'[c] = mem[c]
  BY DEF ContentTypes, Transfer, Keep

LEMMA Renewed ==
  ASSUME ContentTypes, NEW c \in Place, NEW x, Renew(c, x), UNCHANGED failed
  PROVE  /\ mem' = [d \in Place |-> mem'[d]] /\ failed' \in BOOLEAN
         /\ ~failed' => mem'[c] = x
         /\ ~failed' => \A d \in Place : d # c /\ mem[d] # x => mem'[d] = mem[d]
  BY DEF ContentTypes, Renew, Keep

(* The block that a process copies from its tape is one of its pages.      *)
LEMMA TapePage ==
  ASSUME Shared = {}, ContentTypes, Fresh, NEW p \in Proc, at[p] \in LoadingSteps
  PROVE  /\ <<p, block[p]>> \in Key /\ block[p] \in 0..TapeBlocks[p] - 1
         /\ pte[<<p, block[p]>>] = INVALID /\ ~Stored(<<p, block[p]>>)
  <1>1. TapeBlocks[p] \in Nat /\ block[p] \in Nat /\ block[p] < TapeBlocks[p]
    BY MemoryAssumption DEF ContentTypes, Fresh
  <1>2. block[p] \in 0..TapeBlocks[p] - 1
    BY <1>1
  <1>3. block[p] \in Page[p]
    BY <1>2, MemoryAssumption
  <1>4. <<p, block[p]>> \in Key
    <2>1. <<p, block[p]>> \in {p} \X Page[p]
      BY <1>3
    <2> QED
      BY <2>1 DEF Key
  <1>5. ~ (block[p] < block[p])
    BY <1>1
  <1> QED
    BY <1>2, <1>4, <1>5 DEF Fresh, Stored

(* The places whose contents matter to the pages.                          *)
Held == {FrameOf(f) : f \in Frame} \cup {SectorOf(k) : k \in Key}
          \cup {TapeBuffer(p) : p \in Proc}

(* Steps outside of the loading and the replacing, in which no page moves: *)
(* the contents of a page are lost nowhere unless its frame has them.      *)
LEMMA Elsewhere ==
  ASSUME Shared = {}, BuffersApart, IInv, CInv,
         UNCHANGED <<pte, swapPool, nextFrame, block>>,
         mem' = [c \in Place |-> mem'[c]], failed' \in BOOLEAN, failed => failed',
         disk' = [p \in Proc |-> disk'[p]],
         \A p \in Proc : \/ at'[p] = at[p]
                        \/ {at[p], at'[p]} \cap (LoadingSteps \cup {"write out", "map"}) = {},
         \A p \in Proc : at[p] \in LoadingSteps \cup {"map"} => page'[p] = page[p],
         Callers',
         ~failed' => \A c \in Held :
           \/ mem'[c] = mem[c] \/ mem[c] \notin Key
           \/ pte[mem[c]] \in Frame /\ mem'[FrameOf(pte[mem[c]])] = mem[c]
  PROVE  CInv'
  <1> USE DEF CInv, Steps
  <1>1. ContentTypes'
    BY DEF ContentTypes
  <1>2. \A p \in Proc : \A x \in LoadingSteps \cup {"write out", "map"} : at'[p] = x <=> at[p] = x
    OBVIOUS
  <1>3. \A f \in Frame : swapPool[f] # FREE =>
          Owner(f) \in Proc /\ PageIn(f) \in Key
    BY DEF IInv, PagingTypes, Owner, PageIn
  <1>4. Fresh'
    <2>1. \A p \in Proc : at'[p] \in LoadingSteps =>
            at[p] \in LoadingSteps /\ page'[p] = page[p]
      BY <1>2
    <2>2. \A p \in Proc : at'[p] = "store" <=> at[p] = "store"
      BY <1>2 DEF LoadingSteps
    <2>3. \A f \in Frame : swapPool[f] # FREE => at'[swapPool[f][1]] \notin LoadingSteps
      BY <1>3, <2>1 DEF Fresh, Owner
    <2>4. ASSUME NEW p \in Proc, at'[p] \in LoadingSteps
          PROVE  /\ block'[p] < TapeBlocks[p] /\ page'[p] = OLD
                 /\ \A k \in Key : k[1] = p => pte'[k] = INVALID
      <3>1. at[p] \in LoadingSteps /\ page'[p] = page[p]
        BY <2>1, <2>4
      <3> QED
        BY <3>1 DEF Fresh
    <2>5. \A p \in Proc : at'[p] = "store" => block'[p] + 1 < TapeBlocks[p]
      BY <2>2 DEF Fresh
    <2> QED
      BY <2>3, <2>4, <2>5 DEF Fresh, Owner
  <1>5. Replaced'
    BY <1>2 DEF Replaced, PageIn
  <1>6. ASSUME ~failed' PROVE InFrame' /\ InSector' /\ InTransit' /\ InBuffer'
    <2>1. InFrame /\ InSector /\ InTransit /\ InBuffer
      BY <1>6 DEF Contents
    <2>2. INVALID \notin Frame /\ nextFrame \in Frame
      BY KeyFacts DEF IInv, PagingTypes
    <2>3. ASSUME NEW c \in Held, mem[c] \in Key, pte[mem[c]] = INVALID
          PROVE  mem'[c] = mem[c]
      BY <1>6, <2>2, <2>3
    <2>4. InFrame'
      <3> SUFFICES ASSUME NEW k \in Key, pte[k] \in Frame PROVE mem'[FrameOf(pte[k])] = k
        BY DEF InFrame
      <3>1. mem[FrameOf(pte[k])] = k /\ FrameOf(pte[k]) \in Held
        BY <2>1 DEF InFrame, Held
      <3> QED
        BY <1>6, <3>1
    <2>5. InSector'
      <3> SUFFICES ASSUME NEW k \in Key, pte[k] = INVALID, Stored(k)', ~BeingWritten(k)'
                   PROVE  mem'[SectorOf(k)] = k
        BY DEF InSector
      <3>1. k[1] \in Proc /\ SectorOf(k) \in Held
        BY KeyFacts DEF Held
      <3>2. Stored(k) /\ ~BeingWritten(k)
        BY <1>2, <3>1 DEF Stored, BeingWritten, PageIn
      <3> QED
        BY <2>1, <2>3, <3>1, <3>2 DEF InSector
    <2>6. InTransit'
      <3>1. FrameOf(nextFrame) \in Held
        BY <2>2 DEF Held
      <3>2. ASSUME NEW p \in Proc, at'[p] = "write out"
            PROVE  mem'[FrameOf(nextFrame)] = PageIn(nextFrame)
        <4>1. at[p] = "write out"
          BY <1>2, <3>2
        <4>2. PageIn(nextFrame) \in Key /\ pte[PageIn(nextFrame)] = INVALID
          BY <1>3, <2>2, <4>1 DEF Replaced
        <4> QED
          BY <2>1, <2>3, <3>1, <4>1, <4>2 DEF InTransit
      <3>3. ASSUME NEW p \in Proc, at'[p] = "map" PROVE mem'[FrameOf(nextFrame)] = page'[p]
        <4>1. at[p] = "map" /\ page'[p] = page[p]
          BY <1>2, <3>3
        <4>2. page[p] \in Key /\ pte[page[p]] = INVALID
          BY <4>1 DEF IInv, Missing, Faulting
        <4> QED
          BY <2>1, <2>3, <3>1, <4>1, <4>2 DEF InTransit
      <3> QED
        BY <3>2, <3>3 DEF InTransit, PageIn
    <2>7. InBuffer'
      <3> SUFFICES ASSUME NEW p \in Proc, at'[p] \in {"store", "store last"}
                   PROVE  /\ mem'[TapeBuffer(p)] = <<p, block[p]>>
                          /\ at'[p] = "store last" => block[p] + 1 = TapeBlocks[p]
        BY DEF InBuffer
      <3>1. at[p] = at'[p] /\ at[p] \in LoadingSteps
        BY <1>2 DEF LoadingSteps
      <3>2. <<p, block[p]>> \in Key /\ pte[<<p, block[p]>>] = INVALID
        BY <3>1, TapePage
      <3>3. mem[TapeBuffer(p)] = <<p, block[p]>> /\ TapeBuffer(p) \in Held
        BY <2>1, <3>1 DEF InBuffer, Held
      <3> QED
        BY <2>1, <2>3, <3>1, <3>2, <3>3 DEF InBuffer
    <2> QED
      BY <2>4, <2>5, <2>6, <2>7
  <1> QED
    BY <1>1, <1>4, <1>5, <1>6 DEF Contents

---------------------------------------------------------------------------
(* What process p does concerns only its own SYSCALL.                      *)
Alone(p) ==
  /\ disk' = [r \in Proc |-> disk'[r]]
  /\ \A r \in Proc \ {p} : /\ at'[r] = at[r] /\ page'[r] = page[r]
                         /\ disk'[r] = disk[r] /\ resume'[r] = resume[r]

Located ==
  /\ at = [r \in Proc |-> at[r]] /\ page = [r \in Proc |-> page[r]]
  /\ disk = [r \in Proc |-> disk[r]] /\ resume = [r \in Proc |-> resume[r]]

LEMMA OneMoves ==
  ASSUME Located, NEW p \in Proc, NEW x, Go(p, x),
         page' = page \/ \E k : page' = [page EXCEPT ![p] = k],
         disk' = disk \/ \E d : disk' = [disk EXCEPT ![p] = d],
         resume' = resume \/ \E y : resume' = [resume EXCEPT ![p] = y]
  PROVE  Alone(p) /\ at'[p] = x
  BY DEF Located, Go, Alone

LEMMA IsAlone ==
  ASSUME PagingTypes, ContentTypes, NEW p \in Proc, NEW x, Go(p, x),
         page' = page \/ \E k : page' = [page EXCEPT ![p] = k],
         disk' = disk \/ \E d : disk' = [disk EXCEPT ![p] = d],
         resume' = resume \/ \E y : resume' = [resume EXCEPT ![p] = y]
  PROVE  Alone(p) /\ at'[p] = x
  <1>1. Located
    BY DEF PagingTypes, ContentTypes, Located
  <1> QED
    BY <1>1, OneMoves

(* Every step is that of one process.                                      *)
LEMMA LocatedAlone ==
  ASSUME Located, NEW p \in Proc, Kernel(p) \/ Program(p)
  PROVE  Alone(p)
  <1>1. at = [at EXCEPT ![p] = at[p]]
    BY DEF Located
  <1>2. CASE TapeRead(p) \/ Store(p) \/ Choose(p) \/ WriteOut(p) \/ ReadIn(p) \/ Map(p) \/ Bury(p)
             \/ Terminate(p) \/ Die(p) \/ \E k \in Key : Fault(p, k)
    <2>1. /\ \E x : Go(p, x)
          /\ page' = page \/ \E k : page' = [page EXCEPT ![p] = k]
          /\ disk' = disk
          /\ resume' = resume \/ \E y : resume' = [resume EXCEPT ![p] = y]
      BY <1>2 DEF TapeRead, Store, Choose, WriteOut, ReadIn, Map, Bury, Terminate, Die, Fault
    <2> QED
      BY <2>1, OneMoves
  <1>3. CASE \/ CopyOut(p) \/ Put(p) \/ Get(p) \/ CopyIn(p) \/ TermEnd(p)
             \/ \E k \in Key : TermCall(p, k) \/ \E d \in Disk : DiskCall(p, d, k)
    <2>1. /\ \E x : Go(p, x)
          /\ page' = page \/ \E k : page' = [page EXCEPT ![p] = k]
          /\ disk' = disk \/ \E d : disk' = [disk EXCEPT ![p] = d]
          /\ resume' = resume
      BY <1>3 DEF CopyOut, Put, Get, CopyIn, TermEnd, TermCall, DiskCall, Return
    <2> QED
      BY <2>1, OneMoves
  <1>4. CASE (\E k \in Key : Use(p, k)) \/ TermChar(p) \/ TermPanic(p)
    <2>1. UNCHANGED <<at, page, disk, resume>>
      BY <1>4 DEF Use, TermChar, TermPanic, proc
    <2> QED
      BY <2>1 DEF Alone, Located
  <1> QED
    BY <1>2, <1>3, <1>4 DEF Kernel, Program

LEMMA OwnCall ==
  ASSUME Callers, NEW p \in Proc, Alone(p),
         at'[p] \in DiskSteps => disk'[p] \in Disk,
         at'[p] \in Faulting /\ resume'[p] \in DiskSteps => disk'[p] \in Disk,
         at'[p] \in DiskSteps \cup {"terminal"} => page'[p] \in Key
  PROVE  Callers'
  BY DEF Callers, Alone

(* The contents of no page are lost.                                       *)
MemoryKept ==
  /\ mem' = [c \in Place |-> mem'[c]] /\ failed' \in BOOLEAN /\ (failed => failed')
  /\ ~failed' => \A c \in Held :
       \/ mem'[c] = mem[c] \/ mem[c] \notin Key
       \/ pte[mem[c]] \in Frame /\ mem'[FrameOf(pte[mem[c]])] = mem[c]

LEMMA Untouched ==
  ASSUME CInv, UNCHANGED <<mem, failed>>
  PROVE  MemoryKept
  BY DEF CInv, Steps, ContentTypes, MemoryKept

(* A step in which one process goes on, outside of loading and replacing.  *)
LEMMA OneGoesOn ==
  ASSUME Shared = {}, BuffersApart, IInv, CInv, MemoryKept,
         UNCHANGED <<pte, swapPool, nextFrame, block>>, NEW p \in Proc, Alone(p),
         {at[p], at'[p]} \cap (LoadingSteps \cup {"write out", "map"}) = {},
         at'[p] \in DiskSteps => disk'[p] \in Disk,
         at'[p] \in Faulting /\ resume'[p] \in DiskSteps => disk'[p] \in Disk,
         at'[p] \in DiskSteps \cup {"terminal"} => page'[p] \in Key
  PROVE  CInv'
  <1>1. Callers'
    BY OwnCall DEF CInv, Steps
  <1>2. \A r \in Proc : \/ at'[r] = at[r]
                       \/ {at[r], at'[r]} \cap (LoadingSteps \cup {"write out", "map"}) = {}
    BY DEF Alone
  <1>3. \A r \in Proc : at[r] \in LoadingSteps \cup {"map"} => page'[r] = page[r]
    BY DEF Alone
  <1> QED
    BY <1>1, <1>2, <1>3, Elsewhere DEF Alone, MemoryKept

(* A page fault begins, a process is to die, and it ends.                  *)
LEMMA FaultContents ==
  ASSUME Shared = {}, BuffersApart, IInv, CInv, NEW p \in Proc,
         (\E k \in Key : Fault(p, k)) \/ Die(p) \/ Terminate(p)
  PROVE  CInv'
  <1> DEFINE Calm == {"user", "copy out", "copy in", "terminal", "choose", "dying", "buried", "ended"}
  <1>1. Calm \cap (LoadingSteps \cup {"write out", "map"}) = {}
    BY DEF LoadingSteps
  <1>2. {"choose", "dying", "ended"} \cap (DiskSteps \cup {"terminal"}) = {}
        /\ {"dying", "ended"} \cap Faulting = {}
    BY DEF DiskSteps, Faulting
  <1>3. PagingTypes /\ ContentTypes /\ Callers
    BY DEF IInv, CInv, Steps
  <1>4. UNCHANGED <<mem, failed, pte, swapPool, nextFrame, block, disk>>
    BY DEF Fault, Die, Terminate, paging
  <1>5. MemoryKept
    BY <1>4, Untouched
  <1>6. ASSUME NEW k \in Key, Fault(p, k) PROVE CInv'
    <2>1. /\ at[p] \in {"user", "copy out", "copy in", "terminal"} /\ Go(p, "choose")
          /\ page' = [page EXCEPT ![p] = k] /\ resume' = [resume EXCEPT ![p] = at[p]]
      BY <1>6 DEF Fault, At
    <2>2. Alone(p) /\ at'[p] = "choose"
      BY <1>3, <1>4, <2>1, IsAlone
    <2>3. resume'[p] = at[p]
      BY <1>3, <2>1 DEF PagingTypes
    <2>4. at[p] \in DiskSteps => disk'[p] \in Disk
      BY <1>3, <1>4 DEF Callers
    <2> QED
      BY <1>1, <1>2, <1>4, <1>5, <2>1, <2>2, <2>3, <2>4, OneGoesOn
  <1>7. CASE Die(p) \/ Terminate(p)
    <2>1. PICK x \in {"dying", "ended"} : Go(p, x)
      BY <1>7 DEF Die, Terminate
    <2>2. at[p] \in Calm /\ UNCHANGED <<page, resume>>
      BY <1>7 DEF Die, Terminate, At
    <2>3. Alone(p) /\ at'[p] = x
      BY <1>3, <1>4, <2>1, <2>2, IsAlone
    <2> QED
      BY <1>1, <1>2, <1>4, <1>5, <2>1, <2>2, <2>3, OneGoesOn
  <1> QED
    BY <1>6, <1>7

---------------------------------------------------------------------------
LEMMA HeldPlaces ==
  ASSUME Shared = {}, BuffersApart
  PROVE  Held \subseteq Place /\ \A d \in Disk : {DiskBuffer(d), Block(d)} \cap Held = {}
  <1>1. Held \subseteq Place
    BY PlaceFacts DEF Held
  <1>2. ASSUME NEW d \in Disk PROVE {DiskBuffer(d), Block(d)} \cap Held = {}
    BY DiskPlaces DEF Held
  <1> QED
    BY <1>1, <1>2

(* A write to a page reaches its frame, and other copies of what it had    *)
(* are none that matter.                                                   *)
LEMMA WriteKeeps ==
  ASSUME Shared = {}, BuffersApart, IInv, CInv, NEW k \in Key, Write(k), UNCHANGED failed
  PROVE  MemoryKept
  <1>1. pte[k] \in Frame /\ Reach(k) = pte[k] /\ Renew(FrameOf(pte[k]), k)
    BY AccessFills DEF Write
  <1>2. FrameOf(pte[k]) \in Place /\ ContentTypes
    BY <1>1, PlaceFacts DEF CInv, Steps
  <1>3. /\ mem' = [c \in Place |-> mem'[c]] /\ failed' \in BOOLEAN
        /\ ~failed' => mem'[FrameOf(pte[k])] = k
        /\ ~failed' => \A c \in Place : c # FrameOf(pte[k]) /\ mem[c] # k => mem'[c] = mem[c]
    BY <1>1, <1>2, Renewed
  <1>4. ASSUME ~failed', NEW c \in Held
        PROVE  \/ mem'[c] = mem[c]
               \/ pte[mem[c]] \in Frame /\ mem'[FrameOf(pte[mem[c]])] = mem[c]
    <2>1. mem[FrameOf(pte[k])] = k
      BY <1>1, <1>4 DEF CInv, Contents, InFrame
    <2>2. CASE c = FrameOf(pte[k])
      BY <1>3, <1>4, <2>1, <2>2
    <2>3. CASE c # FrameOf(pte[k]) /\ mem[c] # k
      BY <1>3, <1>4, <2>3, HeldPlaces
    <2>4. CASE mem[c] = k
      BY <1>1, <1>3, <1>4, <2>4
    <2> QED
      BY <2>2, <2>3, <2>4
  <1> QED
    BY <1>3, <1>4 DEF MemoryKept

(* A page copied into a disk's buffer, and the transfers of a disk.        *)
LEMMA DiskKeeps ==
  ASSUME Shared = {}, BuffersApart, CInv, NEW d \in Disk, NEW p,
         \/ Renew(DiskBuffer(d), File(p)) /\ UNCHANGED failed
         \/ \E from : Transfer(from, DiskBuffer(d)) \/ Transfer(from, Block(d))
  PROVE  MemoryKept
  <1>1. ContentTypes /\ DiskBuffer(d) \in Place /\ Held \subseteq Place
        /\ \A c \in Held : c # DiskBuffer(d) /\ c # Block(d)
    BY DiskPlaces, HeldPlaces DEF CInv, Steps
  <1>2. CASE Renew(DiskBuffer(d), File(p)) /\ UNCHANGED failed
    <2>1. /\ mem' = [c \in Place |-> mem'[c]] /\ failed' \in BOOLEAN
          /\ ~failed' => \A c \in Place : c # DiskBuffer(d) /\ mem[c] # File(p) => mem'[c] = mem[c]
      BY <1>1, <1>2, Renewed
    <2> QED
      BY <1>1, <1>2, <2>1, FilesAreNoPages DEF MemoryKept
  <1>3. ASSUME NEW from, NEW to \in {DiskBuffer(d), Block(d)}, Transfer(from, to)
        PROVE  MemoryKept
    <2>1. /\ mem' = [c \in Place |-> mem'[c]] /\ failed' \in BOOLEAN /\ (failed => failed')
          /\ ~failed' => \A c \in Place : c # to => mem'[c] = mem[c]
      BY <1>1, <1>3, Transferred
    <2> QED
      BY <1>1, <2>1 DEF MemoryKept
  <1> QED
    BY <1>2, <1>3

(* SYSCALLs 9, 10 and 14 to 16, and where they come from and go to.        *)
LEMMA CallContents ==
  ASSUME Shared = {}, BuffersApart, IInv, CInv, NEW p \in Proc,
         \/ \E k \in Key : TermCall(p, k) \/ \E d \in Disk : DiskCall(p, d, k)
         \/ CopyOut(p) \/ Put(p) \/ Get(p) \/ CopyIn(p) \/ TermEnd(p)
  PROVE  CInv'
  <1> DEFINE Calm == {"user", "copy out", "put", "get", "copy in", "terminal"}
  <1>1. Calm \cap (LoadingSteps \cup {"write out", "map"}) = {} /\ Calm \cap Faulting = {}
    BY DEF LoadingSteps, Faulting
  <1>2. PagingTypes /\ ContentTypes /\ Callers
    BY DEF IInv, CInv, Steps
  <1>3. /\ \A r \in Proc : at[r] \in DiskSteps => disk[r] \in Disk
        /\ \A r \in Proc : at[r] \in DiskSteps \cup {"terminal"} => page[r] \in Key
    BY <1>2 DEF Callers
  <1>4. UNCHANGED <<pte, swapPool, nextFrame, block, resume>>
    BY DEF TermCall, DiskCall, CopyOut, Put, Get, CopyIn, TermEnd, paging
  <1>5. "user" \notin DiskSteps \cup {"terminal"} /\ "terminal" \notin DiskSteps
        /\ {"copy out", "put", "get", "copy in"} \subseteq DiskSteps
    BY DEF DiskSteps
  <1> HIDE DEF Calm
  <1>6. ASSUME NEW k \in Key, TermCall(p, k) PROVE CInv'
    <2>1. /\ at[p] = "user" /\ Go(p, "terminal") /\ page' = [page EXCEPT ![p] = k]
          /\ UNCHANGED <<mem, failed, disk>>
      BY <1>6 DEF TermCall, At
    <2>2. Alone(p) /\ at'[p] = "terminal"
      BY <1>2, <1>4, <2>1, IsAlone
    <2>3. page'[p] = k
      BY <1>2, <2>1 DEF PagingTypes
    <2> QED
      BY <1>1, <1>4, <1>5, <1>6, <2>1, <2>2, <2>3, Untouched, OneGoesOn DEF Calm
  <1>7. ASSUME NEW k \in Key, NEW d \in Disk, DiskCall(p, d, k) PROVE CInv'
    <2>1. /\ at[p] = "user" /\ page' = [page EXCEPT ![p] = k] /\ disk' = [disk EXCEPT ![p] = d]
          /\ UNCHANGED <<mem, failed>>
      BY <1>7 DEF DiskCall, At
    <2>2. PICK x \in {"copy out", "get"} : Go(p, x)
      BY <1>7 DEF DiskCall
    <2>3. Alone(p) /\ at'[p] = x
      BY <1>2, <1>4, <2>1, <2>2, IsAlone
    <2>4. page'[p] = k /\ disk'[p] = d
      BY <1>2, <2>1 DEF PagingTypes, ContentTypes
    <2> QED
      BY <1>1, <1>4, <1>5, <1>7, <2>1, <2>3, <2>4, Untouched, OneGoesOn DEF Calm
  <1>8. CASE CopyOut(p) \/ Get(p)
    <2>1. PICK x \in {"put", "copy in"} : Go(p, x)
      BY <1>8 DEF CopyOut, Get
    <2>2. at[p] \in {"copy out", "get"} /\ UNCHANGED <<page, disk>>
      BY <1>8 DEF CopyOut, Get, At
    <2>3. disk[p] \in Disk /\ page[p] \in Key
      BY <1>3, <1>5, <2>2
    <2>4. MemoryKept
      BY <1>8, <2>3, DiskKeeps DEF CopyOut, Get
    <2>5. Alone(p) /\ at'[p] = x
      BY <1>2, <1>4, <2>1, <2>2, IsAlone
    <2> QED
      BY <1>1, <1>4, <1>5, <2>2, <2>3, <2>4, <2>5, OneGoesOn DEF Calm
  <1>9. CASE Put(p) \/ CopyIn(p) \/ TermEnd(p)
    <2>1. /\ at[p] \in {"put", "copy in", "terminal"} /\ Go(p, "user")
          /\ page' = [page EXCEPT ![p] = OLD] /\ disk' = [disk EXCEPT ![p] = 0]
      BY <1>9 DEF Put, CopyIn, TermEnd, Return, At
    <2>2. page[p] \in Key
      BY <1>3, <1>5, <2>1
    <2>3. MemoryKept
      <3>1. CASE Put(p)
        <4>1. disk[p] \in Disk
          BY <1>3, <1>5, <3>1 DEF Put, At
        <4> QED
          BY <3>1, <4>1, DiskKeeps DEF Put
      <3>2. CASE CopyIn(p)
        BY <2>2, <3>2, WriteKeeps DEF CopyIn
      <3>3. CASE TermEnd(p)
        BY <3>3, Untouched DEF TermEnd
      <3> QED
        BY <1>9, <3>1, <3>2, <3>3
    <2>4. Alone(p) /\ at'[p] = "user"
      BY <1>2, <1>4, <2>1, IsAlone
    <2> QED
      BY <1>1, <1>4, <1>5, <2>1, <2>3, <2>4, OneGoesOn DEF Calm
  <1> QED
    BY <1>6, <1>7, <1>8, <1>9

(* The accesses of a program and of the terminal, and test().              *)
LEMMA StayContents ==
  ASSUME Shared = {}, BuffersApart, IInv, CInv,
         \/ \E p \in Proc : (\E k \in Key : Use(p, k)) \/ TermChar(p) \/ TermPanic(p)
         \/ Join \/ Halted \/ UNCHANGED vars
  PROVE  CInv'
  <1>1. UNCHANGED <<pte, swapPool, nextFrame, at, page, disk, resume, block, failed>>
    BY DEF Use, TermChar, TermPanic, Join, Halted, vars, paging, proc
  <1>2. Callers /\ ContentTypes
    BY DEF CInv, Steps
  <1>3. Callers'
    BY <1>1, <1>2 DEF Callers
  <1>4. MemoryKept
    <2>1. CASE UNCHANGED mem
      BY <1>1, <2>1, Untouched
    <2>2. ASSUME NEW k \in Key, Write(k) PROVE MemoryKept
      BY <1>1, <2>2, WriteKeeps
    <2>3. ASSUME NEW p \in Proc, TermChar(p) PROVE UNCHANGED mem \/ \E k \in Key : Write(k)
      <3>1. page[p] \in Key
        BY <1>2, <2>3 DEF Callers, TermChar, At
      <3> QED
        BY <2>3, <3>1 DEF TermChar
    <2> QED
      BY <2>1, <2>2, <2>3 DEF Use, TermPanic, Join, Halted, vars
  <1> QED
    BY <1>1, <1>2, <1>3, <1>4, Elsewhere DEF MemoryKept, ContentTypes

---------------------------------------------------------------------------
(* The steps of loading: the steps of the others do not change, and no     *)
(* page is in a frame or on its way to one.                                *)
LEMMA LoadingFrame ==
  ASSUME Shared = {}, BuffersApart, IInv, CInv, NEW p \in Proc,
         TapeRead(p) \/ Store(p)
  PROVE  /\ at[p] \in LoadingSteps /\ at'[p] \in LoadingSteps \cup {"user"}
         /\ \A r \in Proc \ {p} : at'[r] = at[r]
         /\ UNCHANGED <<pte, tlb, swapPool, nextFrame, page, disk, resume>>
         /\ Callers' /\ Replaced'
         /\ \A f \in Frame : swapPool[f] # FREE => at'[Owner(f)] \notin LoadingSteps
  <1>1. at[p] \in LoadingSteps
    BY DEF TapeRead, Store, At, LoadingSteps
  <1>2. PICK x \in LoadingSteps \cup {"user"} : Go(p, x)
    BY DEF TapeRead, Store, LoadingSteps
  <1>3. UNCHANGED <<pte, tlb, swapPool, nextFrame, page, disk, resume>>
    BY DEF TapeRead, Store, paging
  <1>4. PagingTypes /\ ContentTypes /\ Callers
    BY DEF IInv, CInv, Steps
  <1>5. Alone(p) /\ at'[p] = x
    BY <1>2, <1>3, <1>4, IsAlone
  <1>6. (LoadingSteps \cup {"user"}) \cap (DiskSteps \cup Faulting \cup {"terminal", "write out"}) = {}
    BY DEF LoadingSteps, DiskSteps, Faulting
  <1>7. Callers'
    BY <1>4, <1>5, <1>6, OwnCall
  <1>8. Replaced'
    <2>1. \A r \in Proc : at'[r] = "write out" => at[r] = "write out"
      BY <1>5, <1>6 DEF Alone
    <2> QED
      BY <1>3, <2>1 DEF CInv, Steps, Replaced, PageIn
  <1>9. ASSUME NEW f \in Frame, swapPool[f] # FREE PROVE at'[Owner(f)] \notin LoadingSteps
    <2>1. Owner(f) \in Proc /\ at[Owner(f)] \notin LoadingSteps
      BY <1>4, <1>9 DEF PagingTypes, Owner, CInv, Steps, Fresh
    <2> QED
      BY <1>1, <1>5, <2>1 DEF Alone
  <1> QED
    BY <1>1, <1>3, <1>5, <1>7, <1>8, <1>9 DEF Alone

(* A block of the tape into its buffer: no other place that matters has    *)
(* this page yet.                                                          *)
LEMMA TapeReadContents ==
  ASSUME Shared = {}, BuffersApart, IInv, CInv, NEW p \in Proc, TapeRead(p)
  PROVE  CInv'
  <1> DEFINE k == <<p, block[p]>>
  <1>1. /\ at[p] \in LoadingSteps /\ \A r \in Proc \ {p} : at'[r] = at[r]
        /\ UNCHANGED <<pte, tlb, swapPool, nextFrame, page, disk, resume, block>>
        /\ Callers' /\ Replaced'
        /\ \A f \in Frame : swapPool[f] # FREE => at'[Owner(f)] \notin LoadingSteps
    BY LoadingFrame DEF TapeRead
  <1>2. ContentTypes /\ Fresh /\ at' = [r \in Proc |-> at'[r]]
    BY DEF CInv, Steps, TapeRead, Go, IInv, PagingTypes
  <1>3. k \in Key /\ block[p] \in 0..TapeBlocks[p] - 1 /\ pte[k] = INVALID /\ ~Stored(k)
    BY <1>1, <1>2, TapePage
  <1>4. TapeBuffer(p) \in Place
    BY PlaceFacts
  <1>5. \/ /\ failed' = failed /\ Renew(TapeBuffer(p), k)
           /\ at'[p] = IF block[p] = TapeBlocks[p] - 1 THEN "store last" ELSE "store"
        \/ failed' = TRUE /\ Keep(mem) /\ at'[p] = "store last"
    BY DEF TapeRead, Go, IInv, PagingTypes
  <1>6. /\ mem' = [c \in Place |-> mem'[c]] /\ failed' \in BOOLEAN
        /\ ~failed' => /\ ~failed /\ mem'[TapeBuffer(p)] = k
                       /\ at'[p] = IF block[p] = TapeBlocks[p] - 1 THEN "store last" ELSE "store"
                       /\ \A c \in Place : c # TapeBuffer(p) /\ mem[c] # k => mem'[c] = mem[c]
    <2>1. CASE failed' = failed /\ Renew(TapeBuffer(p), k)
      BY <1>2, <1>4, <1>5, <2>1, Renewed DEF ContentTypes
    <2>2. CASE failed' = TRUE /\ Keep(mem)
      BY <2>2 DEF Keep
    <2> QED
      BY <1>5, <2>1, <2>2
  <1>7. ContentTypes'
    BY <1>1, <1>2, <1>6 DEF ContentTypes
  <1>8. at'[p] \in {"store", "store last"} /\ (at'[p] = "store" => block[p] # TapeBlocks[p] - 1)
    BY <1>5
  <1>9. Fresh'
    <2>1. \A r \in Proc : at'[r] \in LoadingSteps => at[r] \in LoadingSteps
      BY <1>1
    <2>2. ASSUME NEW r \in Proc, at'[r] \in LoadingSteps
          PROVE  /\ block'[r] < TapeBlocks[r] /\ page'[r] = OLD
                 /\ \A j \in Key : j[1] = r => pte'[j] = INVALID
      BY <1>1, <1>2, <2>1, <2>2 DEF Fresh
    <2>3. ASSUME NEW r \in Proc, at'[r] = "store" PROVE block'[r] + 1 < TapeBlocks[r]
      <3>1. CASE r = p
        <4>1. TapeBlocks[p] \in Nat /\ block[p] \in Nat
          BY <1>2, MemoryAssumption DEF ContentTypes
        <4>2. block[p] # TapeBlocks[p] - 1 /\ block[p] < TapeBlocks[p]
          BY <1>1, <1>2, <1>8, <2>3, <3>1 DEF Fresh
        <4>3. block[p] + 1 < TapeBlocks[p]
          BY <4>1, <4>2
        <4> QED
          BY <1>1, <3>1, <4>3
      <3>2. CASE r # p
        BY <1>1, <1>2, <2>3, <3>2 DEF Fresh
      <3> QED
        BY <3>1, <3>2
    <2>4. \A f \in Frame : swapPool'[f] # FREE => at'[swapPool'[f][1]] \notin LoadingSteps
      BY <1>1 DEF Owner
    <2> QED
      BY <2>2, <2>3, <2>4 DEF Fresh, Owner
  <1>10. ASSUME ~failed' PROVE InFrame' /\ InSector' /\ InTransit' /\ InBuffer'
    <2>1. InFrame /\ InSector /\ InTransit /\ InBuffer
      BY <1>6, <1>10 DEF CInv, Contents
    <2>2. INVALID \notin Frame /\ nextFrame \in Frame
      BY KeyFacts DEF IInv, PagingTypes
    <2>3. ASSUME NEW c \in Place, c # TapeBuffer(p), mem[c] # k PROVE mem'[c] = mem[c]
      BY <1>6, <1>10, <2>3
    <2>4. InFrame'
      <3> SUFFICES ASSUME NEW j \in Key, pte[j] \in Frame PROVE mem'[FrameOf(pte[j])] = j
        BY <1>1 DEF InFrame
      <3>1. mem[FrameOf(pte[j])] = j /\ j # k
        BY <1>3, <2>1, <2>2 DEF InFrame
      <3> QED
        BY <2>3, <3>1, PlaceFacts
    <2>5. InSector'
      <3> SUFFICES ASSUME NEW j \in Key, pte[j] = INVALID, Stored(j)', ~BeingWritten(j)'
                   PROVE  mem'[SectorOf(j)] = j
        BY <1>1 DEF InSector
      <3>1. j[1] \in Proc
        BY KeyFacts
      <3>2. Stored(j)
        BY <1>1, <1>8, <3>1 DEF Stored, LoadingSteps
      <3>3. ~BeingWritten(j)
        <4>1. \A r \in Proc : at[r] = "write out" => at'[r] = "write out"
          BY <1>1 DEF LoadingSteps
        <4> QED
          BY <1>1, <4>1 DEF BeingWritten, PageIn
      <3>4. mem[SectorOf(j)] = j /\ j # k
        BY <1>3, <2>1, <3>2, <3>3 DEF InSector
      <3> QED
        BY <2>3, <3>4, PlaceFacts
    <2>6. InTransit'
      <3>1. FrameOf(nextFrame) \in Place /\ FrameOf(nextFrame) # TapeBuffer(p)
        BY <2>2, PlaceFacts
      <3>2. ASSUME NEW r \in Proc, at'[r] = "write out"
            PROVE  mem'[FrameOf(nextFrame)] = PageIn(nextFrame)
        <4>1. at[r] = "write out" /\ swapPool[nextFrame] # FREE
          BY <1>1, <1>8, <3>2 DEF CInv, Steps, Replaced
        <4>2. PageIn(nextFrame)[1] = Owner(nextFrame) /\ at[Owner(nextFrame)] \notin LoadingSteps
          BY <1>2, <2>2, <4>1 DEF IInv, Occupied, Fresh
        <4>3. PageIn(nextFrame) # k
          BY <1>1, <4>2
        <4> QED
          BY <2>1, <2>3, <3>1, <4>1, <4>3 DEF InTransit
      <3>3. ASSUME NEW r \in Proc, at'[r] = "map" PROVE mem'[FrameOf(nextFrame)] = page[r]
        <4>1. at[r] = "map" /\ r # p
          BY <1>1, <1>8, <3>3
        <4>2. page[r] \in Key /\ page[r][1] = r
          BY <4>1 DEF IInv, Missing, Faulting
        <4>3. page[r] # k
          BY <4>1, <4>2
        <4> QED
          BY <2>1, <2>3, <3>1, <4>1, <4>3 DEF InTransit
      <3> QED
        BY <1>1, <3>2, <3>3 DEF InTransit, PageIn
    <2>7. InBuffer'
      <3>1. ASSUME NEW r \in Proc \ {p}, at'[r] \in {"store", "store last"}
            PROVE  /\ mem'[TapeBuffer(r)] = <<r, block[r]>>
                   /\ at'[r] = "store last" => block[r] + 1 = TapeBlocks[r]
        <4>1. /\ at[r] = at'[r] /\ mem[TapeBuffer(r)] = <<r, block[r]>>
              /\ at'[r] = "store last" => block[r] + 1 = TapeBlocks[r]
          BY <1>1, <2>1, <3>1 DEF InBuffer
        <4>2. TapeBuffer(r) \in Place /\ TapeBuffer(r) # TapeBuffer(p) /\ <<r, block[r]>> # k
          BY <3>1, PlaceFacts
        <4> QED
          BY <2>3, <4>1, <4>2
      <3>2. mem'[TapeBuffer(p)] = k
        BY <1>6, <1>10
      <3>3. at'[p] = "store last" => block[p] + 1 = TapeBlocks[p]
        <4>1. TapeBlocks[p] \in Nat /\ block[p] \in Nat
          BY <1>2, MemoryAssumption DEF ContentTypes
        <4>2. at'[p] = "store last" => block[p] = TapeBlocks[p] - 1
          BY <1>6, <1>10
        <4>3. block[p] = TapeBlocks[p] - 1 => block[p] + 1 = TapeBlocks[p]
          BY <4>1
        <4> QED
          BY <4>2, <4>3
      <3> QED
        BY <1>1, <3>1, <3>2, <3>3 DEF InBuffer
    <2> QED
      BY <2>4, <2>5, <2>6, <2>7
  <1> QED
    BY <1>1, <1>7, <1>9, <1>10 DEF CInv, Steps, Contents

(* The buffer to the backing store, and to the next block or the program.  *)
LEMMA StoreContents ==
  ASSUME Shared = {}, BuffersApart, IInv, CInv, NEW p \in Proc, Store(p)
  PROVE  CInv'
  <1> DEFINE k == <<p, block[p]>>
  <1>1. /\ at[p] \in LoadingSteps /\ \A r \in Proc \ {p} : at'[r] = at[r]
        /\ UNCHANGED <<pte, tlb, swapPool, nextFrame, page, disk, resume>>
        /\ Callers' /\ Replaced'
        /\ \A f \in Frame : swapPool[f] # FREE => at'[Owner(f)] \notin LoadingSteps
    BY LoadingFrame
  <1>2. ContentTypes /\ Fresh
    BY DEF CInv, Steps
  <1>3. k \in Key /\ block[p] \in 0..TapeBlocks[p] - 1 /\ pte[k] = INVALID
    BY <1>1, <1>2, TapePage
  <1>4. SectorOf(k) \in Place /\ SectorOf(k) = Sector(p, block[p])
    BY <1>3, PlaceFacts DEF SectorOf
  <1>5. /\ at[p] = "store" => at'[p] = "tape" /\ block' = [block EXCEPT ![p] = @ + 1]
        /\ at[p] # "store" => at[p] = "store last" /\ at'[p] = "user" /\ block' = [block EXCEPT ![p] = 0]
    BY DEF Store, At, Go, IInv, PagingTypes
  <1>6. /\ mem' = [c \in Place |-> mem'[c]] /\ failed' \in BOOLEAN /\ (failed => failed')
        /\ ~failed' => mem'[SectorOf(k)] = mem[TapeBuffer(p)]
        /\ ~failed' => \A c \in Place : c # SectorOf(k) => mem'[c] = mem[c]
    BY <1>2, <1>4, Transferred DEF Store
  <1>7. /\ \A r \in Proc \ {p} : block'[r] = block[r]
        /\ at[p] = "store" => block'[p] = block[p] + 1
    BY <1>2, <1>5 DEF ContentTypes
  <1>8. ContentTypes'
    <2>1. block' \in [Proc -> Nat]
      <3>1. block \in [Proc -> Nat] /\ block[p] + 1 \in Nat
        BY <1>2 DEF ContentTypes
      <3>2. block' = [block EXCEPT ![p] = block[p] + 1] \/ block' = [block EXCEPT ![p] = 0]
        BY <1>5
      <3> QED
        BY <3>1, <3>2
    <2> QED
      BY <1>1, <1>2, <1>6, <2>1 DEF ContentTypes
  <1>9. Fresh'
    <2>1. ASSUME NEW r \in Proc, at'[r] \in LoadingSteps
          PROVE  /\ block'[r] < TapeBlocks[r] /\ page'[r] = OLD
                 /\ \A j \in Key : j[1] = r => pte'[j] = INVALID
      <3>1. CASE r # p
        BY <1>1, <1>2, <1>7, <2>1, <3>1 DEF Fresh
      <3>2. CASE r = p
        <4>1. at[p] = "store"
          BY <1>5, <2>1, <3>2 DEF LoadingSteps
        <4>2. block'[p] < TapeBlocks[p]
          BY <1>2, <1>7, <4>1 DEF Fresh
        <4> QED
          BY <1>1, <1>2, <3>2, <4>2 DEF Fresh
      <3> QED
        BY <3>1, <3>2
    <2>2. ASSUME NEW r \in Proc, at'[r] = "store" PROVE block'[r] + 1 < TapeBlocks[r]
      <3>1. r # p
        BY <1>5, <2>2
      <3> QED
        BY <1>1, <1>2, <1>7, <2>2, <3>1 DEF Fresh
    <2>3. \A f \in Frame : swapPool'[f] # FREE => at'[swapPool'[f][1]] \notin LoadingSteps
      BY <1>1 DEF Owner
    <2> QED
      BY <2>1, <2>2, <2>3 DEF Fresh, Owner
  <1>10. ASSUME ~failed' PROVE InFrame' /\ InSector' /\ InTransit' /\ InBuffer'
    <2>1. InFrame /\ InSector /\ InTransit /\ InBuffer
      BY <1>6, <1>10 DEF CInv, Contents
    <2>2. INVALID \notin Frame /\ nextFrame \in Frame
      BY KeyFacts DEF IInv, PagingTypes
    <2>3. ASSUME NEW c \in Place, c # SectorOf(k) PROVE mem'[c] = mem[c]
      BY <1>6, <1>10, <2>3
    <2>4. InFrame'
      <3> SUFFICES ASSUME NEW j \in Key, pte[j] \in Frame PROVE mem'[FrameOf(pte[j])] = j
        BY <1>1 DEF InFrame
      <3> QED
        BY <1>3, <2>1, <2>3, PlaceFacts DEF InFrame
    <2>5. InSector'
      <3> SUFFICES ASSUME NEW j \in Key, pte[j] = INVALID, Stored(j)', ~BeingWritten(j)'
                   PROVE  mem'[SectorOf(j)] = j
        BY <1>1 DEF InSector
      <3>1. CASE j = k
        <4>1. mem[TapeBuffer(p)] = k
          BY <1>5, <2>1 DEF InBuffer
        <4> QED
          BY <1>6, <1>10, <3>1, <4>1
      <3>2. CASE j # k
        <4>1. j[1] \in Proc /\ j[2] \in Nat /\ j = <<j[1], j[2]>>
          BY KeyFacts
        <4>2. Stored(j)
          <5>1. CASE j[1] # p
            BY <1>1, <1>7, <4>1, <5>1 DEF Stored
          <5>2. CASE j[1] = p /\ at[p] = "store"
            <6>1. at'[p] \in LoadingSteps
              BY <1>5, <5>2 DEF LoadingSteps
            <6>2. j[2] \notin 0..TapeBlocks[p] - 1 \/ j[2] < block[p] + 1
              BY <1>7, <5>2, <6>1 DEF Stored
            <6>3. j[2] # block[p]
              BY <3>2, <4>1, <5>2
            <6>4. block[p] \in Nat /\ j[2] \in Nat
              BY <1>2, <4>1 DEF ContentTypes
            <6>5. j[2] < block[p] + 1 => j[2] < block[p]
              BY <6>3, <6>4
            <6> QED
              BY <5>2, <6>2, <6>5 DEF Stored
          <5>3. CASE j[1] = p /\ at[p] = "store last"
            <6>1. block[p] + 1 = TapeBlocks[p]
              BY <2>1, <5>3 DEF InBuffer
            <6>2. j[2] # block[p]
              BY <3>2, <4>1, <5>3
            <6>3. block[p] \in Nat /\ j[2] \in Nat /\ TapeBlocks[p] \in Nat
              BY <1>2, <4>1, MemoryAssumption DEF ContentTypes
            <6>4. j[2] \notin 0..TapeBlocks[p] - 1 \/ j[2] < block[p]
              BY <6>1, <6>2, <6>3
            <6> QED
              BY <5>3, <6>4 DEF Stored
          <5> QED
            BY <1>5, <5>1, <5>2, <5>3
        <4>3. ~BeingWritten(j)
          <5>1. \A r \in Proc : at[r] = "write out" => at'[r] = "write out"
            BY <1>1 DEF LoadingSteps
          <5> QED
            BY <1>1, <5>1 DEF BeingWritten, PageIn
        <4>4. mem[SectorOf(j)] = j
          BY <2>1, <4>2, <4>3 DEF InSector
        <4>5. SectorOf(j) \in Place /\ SectorOf(j) # SectorOf(k)
          BY <1>3, <3>2, PlaceFacts
        <4> QED
          BY <2>3, <4>4, <4>5
      <3> QED
        BY <3>1, <3>2
    <2>6. InTransit'
      <3>1. mem'[FrameOf(nextFrame)] = mem[FrameOf(nextFrame)]
        BY <1>3, <2>2, <2>3, PlaceFacts
      <3>2. \A r \in Proc : \A x \in {"write out", "map"} : at'[r] = x => at[r] = x
        BY <1>1, <1>5
      <3> QED
        BY <1>1, <2>1, <3>1, <3>2 DEF InTransit, PageIn
    <2>7. InBuffer'
      <3> SUFFICES ASSUME NEW r \in Proc, at'[r] \in {"store", "store last"}
                   PROVE  /\ mem'[TapeBuffer(r)] = <<r, block'[r]>>
                          /\ at'[r] = "store last" => block'[r] + 1 = TapeBlocks[r]
        BY DEF InBuffer
      <3>1. r # p
        BY <1>5
      <3>2. at'[r] = at[r] /\ block'[r] = block[r]
        BY <1>1, <1>7, <3>1
      <3>3. mem'[TapeBuffer(r)] = mem[TapeBuffer(r)]
        BY <1>3, <2>3, PlaceFacts
      <3> QED
        BY <2>1, <3>2, <3>3 DEF InBuffer
    <2> QED
      BY <2>4, <2>5, <2>6, <2>7
  <1> QED
    BY <1>1, <1>8, <1>9, <1>10 DEF CInv, Steps, Contents

---------------------------------------------------------------------------
(* The holder of swapSem is alone in replacing an occupant, and no page    *)
(* is loaded by its steps.                                                 *)
LEMMA HolderFrame ==
  ASSUME Shared = {}, IInv, CInv, NEW p \in Proc,
         Choose(p) \/ WriteOut(p) \/ ReadIn(p) \/ Map(p) \/ Bury(p)
  PROVE  /\ at[p] \notin LoadingSteps /\ at'[p] \notin LoadingSteps
         /\ \A r \in Proc \ {p} : /\ at'[r] = at[r] /\ page'[r] = page[r]
                                /\ at[r] \notin Critical
         /\ UNCHANGED <<block, disk>> /\ Callers'
         /\ \A k \in Key : Stored(k)' <=> Stored(k)
  <1>1. PagingTypes /\ ContentTypes /\ Callers
    BY DEF IInv, CInv, Steps
  <1>2. resume[p] \in {"user", "copy out", "copy in", "terminal"}
    BY <1>1 DEF PagingTypes
  <1>3. at[p] \in {"choose", "write out", "read in", "map", "dying"}
    BY DEF Choose, WriteOut, ReadIn, Map, Bury, At
  <1>4. {"choose", "write out", "read in", "map", "dying", "buried", "user", "copy out",
          "copy in", "terminal"} \cap LoadingSteps = {}
    BY DEF LoadingSteps
  <1>5. Has(p, swapSem)
    BY DEF Choose, WriteOut, ReadIn, Map, Bury, At, IInv, SwapMutex, Critical
  <1>6. \A r \in Proc \ {p} : at[r] \notin Critical
    BY <1>5 DEF IInv, SwapMutex, Has
  <1>7. UNCHANGED <<block, disk>>
    BY DEF Choose, WriteOut, ReadIn, Map, Bury
  <1>8. CASE Map(p)
    <2>1. /\ Go(p, resume[p]) /\ resume' = [resume EXCEPT ![p] = "user"]
          /\ \E k : page' = [page EXCEPT ![p] = k]
          /\ page' = [page EXCEPT ![p] = IF resume[p] = "user" THEN OLD ELSE page[p]]
      BY <1>8 DEF Map
    <2>2. Alone(p) /\ at'[p] = resume[p]
      BY <1>1, <1>7, <2>1, IsAlone
    <2>3. page[p] \in Key /\ at[p] \in Faulting
      BY <1>8 DEF Map, At, IInv, Missing, Faulting
    <2>4. resume[p] \in DiskSteps => disk[p] \in Disk
      BY <1>1, <2>3 DEF Callers
    <2>5. resume[p] \in DiskSteps \cup {"terminal"} => page'[p] \in Key
      BY <1>1, <2>1, <2>3 DEF PagingTypes, DiskSteps
    <2>6. resume[p] \notin Faulting
      BY <1>2 DEF Faulting
    <2>7. Callers'
      BY <1>1, <1>7, <2>2, <2>4, <2>5, <2>6, OwnCall
    <2> QED
      BY <1>2, <1>3, <1>4, <1>6, <1>7, <2>2, <2>7, KeyFacts DEF Alone, Stored
  <1>9. CASE ~Map(p)
    <2>1. UNCHANGED <<page, resume>>
      BY <1>9 DEF Choose, WriteOut, ReadIn, Bury
    <2>2. PICK x \in {"write out", "read in", "map", "buried"} : Go(p, x)
      BY <1>9 DEF Choose, WriteOut, ReadIn, Bury
    <2>3. Alone(p) /\ at'[p] = x
      BY <1>1, <1>7, <2>1, <2>2, IsAlone
    <2>4. x \in Faulting => at[p] \in Faulting
      BY <1>9, <2>2, <2>3 DEF Choose, WriteOut, ReadIn, Bury, At, Go, Faulting, IInv, PagingTypes
    <2>5. x \notin DiskSteps \cup {"terminal"}
      BY DEF DiskSteps
    <2>6. at[p] \in Faulting /\ resume[p] \in DiskSteps => disk[p] \in Disk
      BY <1>1 DEF Callers
    <2>7. Callers'
      BY <1>1, <1>7, <2>1, <2>3, <2>4, <2>5, <2>6, OwnCall
    <2> QED
      BY <1>3, <1>4, <1>6, <1>7, <2>1, <2>3, <2>7, KeyFacts DEF Alone, Stored
  <1> QED
    BY <1>8, <1>9

(* The buffers of the tapes are not the holder's concern.                  *)
LEMMA HolderBuffer ==
  ASSUME InBuffer, NEW p \in Proc, UNCHANGED block,
         at'[p] \notin LoadingSteps, \A r \in Proc \ {p} : at'[r] = at[r],
         \A r \in Proc : mem'[TapeBuffer(r)] = mem[TapeBuffer(r)]
  PROVE  InBuffer'
  <1>1. \A r \in Proc : at'[r] \in {"store", "store last"} => at'[r] = at[r]
    BY DEF LoadingSteps
  <1> QED
    BY <1>1 DEF InBuffer

(* chooseFrame: the page in the frame is no longer reached there, but its  *)
(* contents are.                                                           *)
LEMMA ChooseContents ==
  ASSUME Shared = {}, BuffersApart, IInv, CInv, NEW p \in Proc, Choose(p)
  PROVE  CInv'
  <1> DEFINE f == chooseFrame
  <1>1. /\ at[p] = "choose" /\ nextFrame' = f /\ UNCHANGED <<mem, failed, swapPool, page>>
    BY DEF Choose, At
  <1>2. /\ at'[p] \notin LoadingSteps
        /\ \A r \in Proc \ {p} : at'[r] = at[r] /\ at[r] \notin Critical
        /\ UNCHANGED <<block, disk>> /\ Callers' /\ \A k \in Key : Stored(k)' <=> Stored(k)
    BY HolderFrame
  <1>3. PagingTypes /\ ContentTypes /\ Fresh /\ IInv'
    BY ChooseInv DEF IInv, CInv, Steps
  <1>4. f \in Frame
    BY <1>1, <1>3 DEF IInv, PagingTypes
  <1>5. \A r \in Proc : at[r] \notin Critical
    BY <1>1, <1>2 DEF Critical
  <1>6. \A g \in Frame : swapPool[g] # FREE =>
          PageIn(g) \in Key /\ Owner(g) \in Proc /\ pte[PageIn(g)] = g
    <2>1. ~Replacing /\ Occupied
      BY <1>5 DEF Replacing, IInv
    <2>2. swapPool \in [Frame -> (Proc \X Key) \cup {FREE}]
      BY <1>3 DEF PagingTypes
    <2> QED
      BY <2>1, <2>2 DEF Occupied, PageIn, Owner
  <1>7. \/ swapPool[f] = FREE /\ pte' = pte /\ at'[p] = "read in"
        \/ swapPool[f] # FREE /\ pte' = [pte EXCEPT ![PageIn(f)] = INVALID] /\ at'[p] = "write out"
    BY DEF Choose, Go, IInv, PagingTypes
  <1>8. \A k \in Key : pte'[k] = IF swapPool[f] # FREE /\ k = PageIn(f) THEN INVALID ELSE pte[k]
    BY <1>3, <1>7 DEF PagingTypes
  <1>9. ContentTypes'
    BY <1>1, <1>2, <1>3 DEF ContentTypes
  <1>10. Fresh'
    <2>1. \A r \in Proc : at'[r] \in LoadingSteps => at[r] \in LoadingSteps /\ at'[r] = at[r]
      BY <1>2
    <2>2. ASSUME NEW r \in Proc, at'[r] \in LoadingSteps
          PROVE  /\ block'[r] < TapeBlocks[r] /\ page'[r] = OLD
                 /\ \A k \in Key : k[1] = r => pte'[k] = INVALID
      BY <1>1, <1>2, <1>3, <1>8, <2>1, <2>2 DEF Fresh
    <2>3. ASSUME NEW r \in Proc, at'[r] = "store" PROVE block'[r] + 1 < TapeBlocks[r]
      <3>1. at[r] = "store"
        BY <2>1, <2>3 DEF LoadingSteps
      <3> QED
        BY <1>2, <1>3, <3>1 DEF Fresh
    <2>4. \A g \in Frame : swapPool'[g] # FREE => at'[swapPool'[g][1]] \notin LoadingSteps
      BY <1>1, <1>3, <1>6, <2>1 DEF Fresh, Owner
    <2> QED
      BY <2>2, <2>3, <2>4 DEF Fresh, Owner
  <1>11. \A r \in Proc : at'[r] = "write out" => r = p
    BY <1>2 DEF Critical
  <1>12. Replaced'
    <2>1. at'[p] = "write out" => swapPool[f] # FREE /\ pte'[PageIn(f)] = INVALID
      BY <1>4, <1>6, <1>7, <1>8
    <2> QED
      BY <1>1, <1>11, <2>1 DEF Replaced, PageIn
  <1>13. ASSUME ~failed' PROVE InFrame' /\ InSector' /\ InTransit' /\ InBuffer'
    <2>1. InFrame /\ InSector /\ InBuffer
      BY <1>1, <1>13 DEF CInv, Contents
    <2>2. INVALID \notin Frame
      BY KeyFacts
    <2>3. InFrame'
      BY <1>1, <1>8, <2>1, <2>2 DEF InFrame
    <2>4. InSector'
      <3> SUFFICES ASSUME NEW k \in Key, pte'[k] = INVALID, Stored(k), ~BeingWritten(k)'
                   PROVE  mem[SectorOf(k)] = k
        BY <1>1, <1>2 DEF InSector
      <3>1. ~(swapPool[f] # FREE /\ k = PageIn(f))
        BY <1>1, <1>7 DEF BeingWritten, PageIn
      <3>2. pte[k] = INVALID
        BY <1>8, <3>1
      <3>3. ~BeingWritten(k)
        BY <1>5 DEF BeingWritten, Critical
      <3> QED
        BY <2>1, <3>2, <3>3 DEF InSector
    <2>5. InTransit'
      <3>1. at'[p] = "write out" => mem[FrameOf(f)] = PageIn(f)
        BY <1>4, <1>6, <1>7, <2>1 DEF InFrame
      <3>2. \A r \in Proc : at'[r] # "map"
        BY <1>2, <1>7 DEF Critical
      <3> QED
        BY <1>1, <1>11, <3>1, <3>2 DEF InTransit, PageIn
    <2>6. InBuffer'
      BY <1>1, <1>2, <2>1, HolderBuffer
    <2> QED
      BY <2>3, <2>4, <2>5, <2>6
  <1> QED
    BY <1>2, <1>9, <1>10, <1>12, <1>13 DEF CInv, Steps, Contents

(* readWriteBacking, for the occupant and for the missing page: nothing    *)
(* but the contents of one place changes, and the process goes on.         *)
LEMMA TransferFrame ==
  ASSUME Shared = {}, BuffersApart, IInv, CInv, NEW p \in Proc,
         WriteOut(p) \/ ReadIn(p), ContentTypes'
  PROVE  /\ UNCHANGED <<pte, swapPool, nextFrame, page>> /\ Fresh' /\ Replaced'
         /\ \A r \in Proc : at'[r] # "write out" /\ (at'[r] = "map" => r = p)
  <1>1. /\ at'[p] \notin LoadingSteps
        /\ \A r \in Proc \ {p} : at'[r] = at[r] /\ at[r] \notin Critical
        /\ UNCHANGED <<block, disk>>
    BY HolderFrame
  <1>2. UNCHANGED <<pte, swapPool, nextFrame, page>> /\ at'[p] \in {"read in", "map"}
    BY DEF WriteOut, ReadIn, paging, Go, IInv, PagingTypes
  <1>3. \A r \in Proc : at'[r] # "write out" /\ (at'[r] = "map" => r = p)
    BY <1>1, <1>2 DEF Critical
  <1>4. \A r \in Proc : at'[r] \in LoadingSteps => at'[r] = at[r]
    BY <1>1
  <1>5. Fresh
    BY DEF CInv, Steps
  <1>6. Fresh'
    <2>1. ASSUME NEW r \in Proc, at'[r] \in LoadingSteps
          PROVE  /\ block'[r] < TapeBlocks[r] /\ page'[r] = OLD
                 /\ \A k \in Key : k[1] = r => pte'[k] = INVALID
      BY <1>1, <1>2, <1>4, <1>5, <2>1 DEF Fresh
    <2>2. ASSUME NEW r \in Proc, at'[r] = "store" PROVE block'[r] + 1 < TapeBlocks[r]
      BY <1>1, <1>4, <1>5, <2>2 DEF Fresh, LoadingSteps
    <2>3. ASSUME NEW f \in Frame, swapPool'[f] # FREE
          PROVE  at'[swapPool'[f][1]] \notin LoadingSteps
      <3>1. swapPool[f][1] \in Proc /\ at[swapPool[f][1]] \notin LoadingSteps
        BY <1>2, <1>5, <2>3 DEF Fresh, Owner, IInv, PagingTypes
      <3> QED
        BY <1>2, <1>4, <3>1
    <2> QED
      BY <2>1, <2>2, <2>3 DEF Fresh, Owner
  <1> QED
    BY <1>2, <1>3, <1>6 DEF Replaced

LEMMA WriteOutContents ==
  ASSUME Shared = {}, BuffersApart, IInv, CInv, NEW p \in Proc, WriteOut(p)
  PROVE  CInv'
  <1> DEFINE k == PageIn(nextFrame)
  <1>1. /\ at'[p] \notin LoadingSteps /\ \A r \in Proc \ {p} : at'[r] = at[r]
        /\ \A r \in Proc \ {p} : at[r] \notin Critical
        /\ UNCHANGED <<block, disk>> /\ Callers' /\ \A j \in Key : Stored(j)' <=> Stored(j)
    BY HolderFrame
  <1>2. ContentTypes /\ PagingTypes /\ at[p] = "write out" /\ at'[p] = "read in"
    BY DEF IInv, PagingTypes, CInv, Steps, WriteOut, At, Go
  <1>3. swapPool[nextFrame] # FREE /\ nextFrame \in Frame
    BY <1>2 DEF CInv, Steps, Replaced, PagingTypes
  <1>4. k \in Key /\ k[1] = Owner(nextFrame)
    BY <1>2, <1>3 DEF IInv, Occupied, PagingTypes, PageIn
  <1>5. Sector(Owner(nextFrame), k[2]) = SectorOf(k) /\ SectorOf(k) \in Place
    BY <1>4, PlaceFacts DEF SectorOf
  <1>6. /\ mem' = [c \in Place |-> mem'[c]] /\ failed' \in BOOLEAN /\ (failed => failed')
        /\ ~failed' => mem'[SectorOf(k)] = mem[FrameOf(nextFrame)]
        /\ ~failed' => \A c \in Place : c # SectorOf(k) => mem'[c] = mem[c]
    BY <1>2, <1>5, Transferred DEF WriteOut
  <1>7. ContentTypes'
    BY <1>1, <1>2, <1>6 DEF ContentTypes
  <1>8. /\ UNCHANGED <<pte, swapPool, nextFrame, page>> /\ Fresh' /\ Replaced'
        /\ \A r \in Proc : at'[r] # "write out" /\ (at'[r] = "map" => r = p)
    BY <1>7, TransferFrame
  <1>9. ASSUME ~failed' PROVE InFrame' /\ InSector' /\ InTransit' /\ InBuffer'
    <2>1. InFrame /\ InSector /\ InTransit /\ InBuffer
      BY <1>6, <1>9 DEF CInv, Contents
    <2>2. ASSUME NEW c \in Place, c # SectorOf(k) PROVE mem'[c] = mem[c]
      BY <1>6, <1>9, <2>2
    <2>3. InFrame'
      <3> SUFFICES ASSUME NEW j \in Key, pte[j] \in Frame PROVE mem'[FrameOf(pte[j])] = j
        BY <1>8 DEF InFrame
      <3> QED
        BY <1>4, <2>1, <2>2, PlaceFacts DEF InFrame
    <2>4. InSector'
      <3> SUFFICES ASSUME NEW j \in Key, pte[j] = INVALID, Stored(j)
                   PROVE  mem'[SectorOf(j)] = j
        BY <1>1, <1>8 DEF InSector
      <3>1. CASE j = k
        BY <1>2, <1>6, <1>9, <2>1, <3>1 DEF InTransit
      <3>2. CASE j # k
        <4>1. ~BeingWritten(j)
          BY <3>2 DEF BeingWritten
        <4>2. SectorOf(j) \in Place /\ SectorOf(j) # SectorOf(k)
          BY <1>4, <3>2, PlaceFacts
        <4> QED
          BY <2>1, <2>2, <4>1, <4>2 DEF InSector
      <3> QED
        BY <3>1, <3>2
    <2>5. InTransit'
      BY <1>2, <1>8 DEF InTransit
    <2>6. InBuffer'
      <3>1. \A r \in Proc : mem'[TapeBuffer(r)] = mem[TapeBuffer(r)]
        BY <1>4, <2>2, PlaceFacts
      <3> QED
        BY <1>1, <2>1, <3>1, HolderBuffer
    <2> QED
      BY <2>3, <2>4, <2>5, <2>6
  <1> QED
    BY <1>1, <1>7, <1>8, <1>9 DEF CInv, Steps, Contents

LEMMA ReadInContents ==
  ASSUME Shared = {}, BuffersApart, IInv, CInv, NEW p \in Proc, ReadIn(p)
  PROVE  CInv'
  <1> DEFINE k == page[p]
  <1>1. /\ at[p] \notin LoadingSteps /\ at'[p] \notin LoadingSteps
        /\ \A r \in Proc \ {p} : at'[r] = at[r]
        /\ \A r \in Proc \ {p} : at[r] \notin Critical
        /\ UNCHANGED <<block, disk>> /\ Callers' /\ \A j \in Key : Stored(j)' <=> Stored(j)
    BY HolderFrame
  <1>2. ContentTypes /\ PagingTypes /\ at[p] = "read in" /\ at'[p] = "map"
    BY DEF IInv, PagingTypes, CInv, Steps, ReadIn, At, Go
  <1>3. nextFrame \in Frame /\ \A j \in Key : pte[j] # nextFrame
    BY <1>2 DEF PagingTypes, IInv, Emptied, Replacing, Critical
  <1>4. k \in Key /\ k[1] = p /\ pte[k] = INVALID
    BY <1>2 DEF IInv, Missing, Faulting
  <1>5. Sector(p, k[2]) = SectorOf(k) /\ FrameOf(nextFrame) \in Place
    BY <1>3, <1>4, PlaceFacts DEF SectorOf
  <1>6. /\ mem' = [c \in Place |-> mem'[c]] /\ failed' \in BOOLEAN /\ (failed => failed')
        /\ ~failed' => mem'[FrameOf(nextFrame)] = mem[SectorOf(k)]
        /\ ~failed' => \A c \in Place : c # FrameOf(nextFrame) => mem'[c] = mem[c]
    BY <1>2, <1>5, Transferred DEF ReadIn
  <1>7. ContentTypes'
    BY <1>1, <1>2, <1>6 DEF ContentTypes
  <1>8. /\ UNCHANGED <<pte, swapPool, nextFrame, page>> /\ Fresh' /\ Replaced'
        /\ \A r \in Proc : at'[r] # "write out" /\ (at'[r] = "map" => r = p)
    BY <1>7, TransferFrame
  <1>9. \A j : ~BeingWritten(j)
    BY <1>1, <1>2 DEF BeingWritten, Critical
  <1>10. ASSUME ~failed' PROVE InFrame' /\ InSector' /\ InTransit' /\ InBuffer'
    <2>1. InFrame /\ InSector /\ InTransit /\ InBuffer
      BY <1>6, <1>10 DEF CInv, Contents
    <2>2. ASSUME NEW c \in Place, c # FrameOf(nextFrame) PROVE mem'[c] = mem[c]
      BY <1>6, <1>10, <2>2
    <2>3. InFrame'
      <3> SUFFICES ASSUME NEW j \in Key, pte[j] \in Frame PROVE mem'[FrameOf(pte[j])] = j
        BY <1>8 DEF InFrame
      <3> QED
        BY <1>3, <2>1, <2>2, PlaceFacts DEF InFrame
    <2>4. InSector'
      <3> SUFFICES ASSUME NEW j \in Key, pte[j] = INVALID, Stored(j)
                   PROVE  mem'[SectorOf(j)] = j
        BY <1>1, <1>8 DEF InSector
      <3> QED
        BY <1>3, <1>9, <2>1, <2>2, PlaceFacts DEF InSector
    <2>5. InTransit'
      <3>1. Stored(k)
        BY <1>1, <1>4 DEF Stored
      <3>2. mem[SectorOf(k)] = k
        BY <1>4, <1>9, <2>1, <3>1 DEF InSector
      <3> QED
        BY <1>6, <1>8, <1>10, <3>2 DEF InTransit
    <2>6. InBuffer'
      <3>1. \A r \in Proc : mem'[TapeBuffer(r)] = mem[TapeBuffer(r)]
        BY <1>3, <2>2, PlaceFacts
      <3> QED
        BY <1>1, <2>1, <3>1, HolderBuffer
    <2> QED
      BY <2>3, <2>4, <2>5, <2>6
  <1> QED
    BY <1>1, <1>7, <1>8, <1>10 DEF CInv, Steps, Contents

(* The last steps of the holder, which leave all contents where they are:  *)
(* nothing is being replaced any more.                                     *)
LEMMA MapContents ==
  ASSUME Shared = {}, BuffersApart, IInv, CInv, NEW p \in Proc, Map(p)
  PROVE  CInv'
  <1> DEFINE k == page[p]
             n == nextFrame
  <1>1. /\ at[p] \notin LoadingSteps /\ at'[p] \notin LoadingSteps
        /\ \A r \in Proc \ {p} : at'[r] = at[r] /\ page'[r] = page[r]
        /\ \A r \in Proc \ {p} : at[r] \notin Critical
        /\ UNCHANGED <<block, disk>> /\ Callers' /\ \A j \in Key : Stored(j)' <=> Stored(j)
    BY HolderFrame
  <1>2. /\ at[p] = "map" /\ swapPool' = [swapPool EXCEPT ![n] = <<p, k>>]
        /\ pte' = [pte EXCEPT ![k] = n] /\ UNCHANGED <<mem, failed, nextFrame>>
    BY DEF Map, At
  <1>3. ContentTypes /\ PagingTypes /\ Fresh /\ at' = [at EXCEPT ![p] = resume[p]]
    BY DEF IInv, CInv, Steps, Map, Go
  <1>4. at'[p] \notin Critical
    BY <1>3 DEF PagingTypes, Critical
  <1>5. k \in Key /\ k[1] = p /\ pte[k] = INVALID /\ n \in Frame
    BY <1>2, <1>3 DEF IInv, Missing, Faulting, PagingTypes
  <1>6. \A j \in Key : pte'[j] = IF j = k THEN n ELSE pte[j]
    BY <1>2, <1>3 DEF PagingTypes
  <1>7. ContentTypes'
    BY <1>1, <1>2, <1>3 DEF ContentTypes
  <1>8. Fresh'
    <2>1. ASSUME NEW r \in Proc, at'[r] \in LoadingSteps
          PROVE  /\ block'[r] < TapeBlocks[r] /\ page'[r] = OLD
                 /\ \A j \in Key : j[1] = r => pte'[j] = INVALID
      <3>1. r # p /\ at[r] \in LoadingSteps
        BY <1>1, <2>1
      <3> QED
        BY <1>1, <1>3, <1>5, <1>6, <3>1 DEF Fresh
    <2>2. ASSUME NEW r \in Proc, at'[r] = "store" PROVE block'[r] + 1 < TapeBlocks[r]
      BY <1>1, <1>3, <2>2 DEF Fresh, LoadingSteps
    <2>3. ASSUME NEW f \in Frame, swapPool'[f] # FREE
          PROVE  at'[swapPool'[f][1]] \notin LoadingSteps
      <3>1. swapPool'[f] = IF f = n THEN <<p, k>> ELSE swapPool[f]
        BY <1>2, <1>3 DEF PagingTypes
      <3>2. CASE f = n
        BY <1>1, <3>1, <3>2
      <3>3. CASE f # n
        <4>1. swapPool[f][1] \in Proc /\ at[swapPool[f][1]] \notin LoadingSteps
          BY <1>3, <2>3, <3>1, <3>3 DEF Fresh, Owner, PagingTypes
        <4> QED
          BY <1>1, <3>1, <3>3, <4>1
      <3> QED
        BY <3>2, <3>3
    <2> QED
      BY <2>1, <2>2, <2>3 DEF Fresh, Owner
  <1>9. \A r \in Proc : at'[r] \notin {"write out", "map"}
    BY <1>1, <1>4 DEF Critical
  <1>10. Replaced'
    BY <1>9 DEF Replaced
  <1>11. ASSUME ~failed' PROVE InFrame' /\ InSector' /\ InTransit' /\ InBuffer'
    <2>1. InFrame /\ InSector /\ InTransit /\ InBuffer
      BY <1>2, <1>11 DEF CInv, Contents
    <2>2. InFrame'
      BY <1>2, <1>6, <2>1 DEF InFrame, InTransit
    <2>3. InSector'
      <3> SUFFICES ASSUME NEW j \in Key, pte'[j] = INVALID, Stored(j)
                   PROVE  mem[SectorOf(j)] = j
        BY <1>1, <1>2 DEF InSector
      <3>1. pte[j] = INVALID
        BY <1>5, <1>6
      <3>2. ~BeingWritten(j)
        BY <1>1, <1>2 DEF BeingWritten, Critical
      <3> QED
        BY <2>1, <3>1, <3>2 DEF InSector
    <2>4. InTransit'
      BY <1>9 DEF InTransit
    <2>5. InBuffer'
      BY <1>1, <1>2, <2>1, HolderBuffer
    <2> QED
      BY <2>2, <2>3, <2>4, <2>5
  <1> QED
    BY <1>1, <1>7, <1>8, <1>10, <1>11 DEF CInv, Steps, Contents

LEMMA BuryContents ==
  ASSUME Shared = {}, BuffersApart, IInv, CInv, NEW p \in Proc, Bury(p)
  PROVE  CInv'
  <1>1. /\ at'[p] \notin LoadingSteps /\ \A r \in Proc \ {p} : at'[r] = at[r]
        /\ \A r \in Proc \ {p} : at[r] \notin Critical
        /\ UNCHANGED <<block, disk>> /\ Callers' /\ \A j \in Key : Stored(j)' <=> Stored(j)
    BY HolderFrame
  <1>2. /\ at[p] = "dying" /\ UNCHANGED <<mem, failed, nextFrame, page>>
        /\ \A j \in Key : pte'[j] \in {pte[j], GARBAGE}
        /\ \A f \in Frame : swapPool'[f] \in {swapPool[f], FREE}
    BY DEF Bury, At
  <1>3. ContentTypes /\ PagingTypes /\ Fresh /\ at'[p] = "buried"
    BY DEF IInv, PagingTypes, CInv, Steps, Bury, Go
  <1>4. \A r \in Proc : at[r] \notin Critical /\ at'[r] \notin Critical
    BY <1>1, <1>2, <1>3 DEF Critical
  <1>5. ContentTypes'
    BY <1>1, <1>2, <1>3 DEF ContentTypes
  <1>6. Fresh'
    <2>1. ASSUME NEW r \in Proc, at'[r] \in LoadingSteps
          PROVE  /\ block'[r] < TapeBlocks[r] /\ page'[r] = OLD
                 /\ \A j \in Key : j[1] = r => pte'[j] = INVALID
      <3>1. at[r] \in LoadingSteps /\ r # p
        BY <1>1, <2>1
      <3>2. ASSUME NEW j \in Key, j[1] = r PROVE pte'[j] = INVALID
        <4>1. ~Gone(j[1])'
          BY <2>1, <3>2 DEF Gone, LoadingSteps
        <4>2. pte'[j] # GARBAGE
          BY <4>1, BuryInv DEF IInv, Garbage
        <4>3. pte[j] = INVALID
          BY <1>3, <3>1, <3>2 DEF Fresh
        <4> QED
          BY <1>2, <4>2, <4>3
      <3> QED
        BY <1>1, <1>2, <1>3, <3>1, <3>2 DEF Fresh
    <2>2. ASSUME NEW r \in Proc, at'[r] = "store" PROVE block'[r] + 1 < TapeBlocks[r]
      BY <1>1, <1>3, <2>2 DEF Fresh, LoadingSteps
    <2>3. ASSUME NEW f \in Frame, swapPool'[f] # FREE
          PROVE  at'[swapPool'[f][1]] \notin LoadingSteps
      <3>1. /\ swapPool'[f] = swapPool[f] /\ swapPool[f][1] \in Proc
            /\ at[swapPool[f][1]] \notin LoadingSteps
        BY <1>2, <1>3, <2>3 DEF Fresh, Owner, PagingTypes
      <3> QED
        BY <1>1, <3>1
    <2> QED
      BY <2>1, <2>2, <2>3 DEF Fresh, Owner
  <1>7. Replaced'
    BY <1>4 DEF Replaced, Critical
  <1>8. ASSUME ~failed' PROVE InFrame' /\ InSector' /\ InTransit' /\ InBuffer'
    <2>1. InFrame /\ InSector /\ InBuffer
      BY <1>2, <1>8 DEF CInv, Contents
    <2>2. GARBAGE \notin Frame /\ GARBAGE # INVALID
      BY KeyFacts DEF GARBAGE, INVALID
    <2>3. InFrame'
      <3> SUFFICES ASSUME NEW j \in Key, pte'[j] \in Frame PROVE mem[FrameOf(pte'[j])] = j
        BY <1>2 DEF InFrame
      <3>1. pte'[j] = pte[j]
        BY <1>2, <2>2
      <3> QED
        BY <2>1, <3>1 DEF InFrame
    <2>4. InSector'
      <3> SUFFICES ASSUME NEW j \in Key, pte'[j] = INVALID, Stored(j)
                   PROVE  mem[SectorOf(j)] = j
        BY <1>1, <1>2 DEF InSector
      <3>1. pte[j] = INVALID
        BY <1>2, <2>2
      <3>2. ~BeingWritten(j)
        BY <1>4 DEF BeingWritten, Critical
      <3> QED
        BY <2>1, <3>1, <3>2 DEF InSector
    <2>5. InTransit'
      BY <1>4 DEF InTransit, Critical
    <2>6. InBuffer'
      BY <1>1, <1>2, <2>1, HolderBuffer
    <2> QED
      BY <2>3, <2>4, <2>5, <2>6
  <1> QED
    BY <1>1, <1>5, <1>6, <1>7, <1>8 DEF CInv, Steps, Contents

LEMMA NextContents ==
  ASSUME Shared = {}, BuffersApart, IInv, CInv, [Next]_vars
  PROVE  CInv'
  <1>1. ASSUME NEW p \in Proc, Kernel(p) \/ Program(p) PROVE CInv'
    <2>1. CASE TapeRead(p) \/ Store(p)
      BY <2>1, TapeReadContents, StoreContents
    <2>2. CASE Choose(p) \/ WriteOut(p) \/ ReadIn(p) \/ Map(p) \/ Bury(p)
      BY <2>2, ChooseContents, WriteOutContents, ReadInContents, MapContents, BuryContents
    <2>3. CASE \/ \E k \in Key : TermCall(p, k) \/ \E d \in Disk : DiskCall(p, d, k)
               \/ CopyOut(p) \/ Put(p) \/ Get(p) \/ CopyIn(p) \/ TermEnd(p)
      BY <2>3, CallContents
    <2>4. CASE (\E k \in Key : Fault(p, k)) \/ Die(p) \/ Terminate(p)
      BY <2>4, FaultContents
    <2>5. CASE (\E k \in Key : Use(p, k)) \/ TermChar(p) \/ TermPanic(p)
      BY <2>5, StayContents
    <2> QED
      BY <1>1, <2>1, <2>2, <2>3, <2>4, <2>5 DEF Kernel, Program
  <1>2. CASE Join \/ Halted \/ UNCHANGED vars
    BY <1>2, StayContents
  <1> QED
    BY <1>1, <1>2 DEF Next

---------------------------------------------------------------------------
(* Unless a transfer has failed, every process finds in a page what was    *)
(* last written there, however often the page has been out and whatever    *)
(* the others do meanwhile (vmMemHandler, readWriteBacking, uProcInit),    *)
(* provided that no two processes share a page and no disk has the buffer  *)
(* of a tape.                                                              *)
THEOREM PagesKeepContents == Shared = {} /\ BuffersApart => (Spec => []Coherent)
  <1> SUFFICES ASSUME Shared = {}, BuffersApart PROVE Spec => []Coherent
    OBVIOUS
  <1>1. Init => IInv /\ CInv
    BY InitInv, InitContents
  <1>2. (IInv /\ CInv) /\ [Next]_vars => (IInv /\ CInv)'
    BY NextInv, NextContents
  <1>3. IInv /\ CInv => Coherent
    BY InvAgrees DEF FramesAgree, Coherent, CInv, Contents, InFrame
  <1> QED
    BY <1>1, <1>2, <1>3, PTL DEF Spec

---------------------------------------------------------------------------
(* The buffers of the disks.  A process uses one from its copy or transfer *)
(* into it to the end of the SYSCALL, page faults included.                *)
Using(p) ==
  \/ at[p] \in {"put", "copy in"}
  \/ at[p] \in Faulting /\ resume[p] \in {"copy out", "copy in"}

Copying(p) == at[p] = "copy in" \/ (at[p] \in Faulting /\ resume[p] = "copy in")

DiskMutex ==
  /\ \A d \in Disk : diskSem(d) \in DOMAIN queue /\ queue[diskSem(d)] \in Seq(Proc)
  /\ \A p \in Proc : Using(p) => Has(p, diskSem(disk[p]))

OnDisk == ~failed => \A p \in Proc :
  /\ at[p] = "put" => mem[DiskBuffer(disk[p])] = File(p)
  /\ Copying(p) => mem[DiskBuffer(disk[p])] = mem[Block(disk[p])]

DInv == DiskMutex /\ OnDisk

LEMMA StepIsAlone ==
  ASSUME PagingTypes, ContentTypes, NEW p \in Proc, Kernel(p) \/ Program(p)
  PROVE  Alone(p)
  <1>1. Located
    BY DEF PagingTypes, ContentTypes, Located
  <1> QED
    BY <1>1, LocatedAlone

(* A process that uses a buffer after its step had its mutex before, and   *)
(* the buffer holds what it needs unless the step puts it there.           *)
LEMMA HadMutex ==
  ASSUME PagingTypes, ContentTypes, DiskMutex, NEW p \in Proc, Kernel(p) \/ Program(p), Using(p)'
  PROVE  /\ Has(p, diskSem(disk[p])) /\ disk'[p] = disk[p]
         /\ at'[p] = "put" => CopyOut(p)
         /\ Copying(p)' => Get(p) \/ Copying(p)
         /\ at'[p] # "user"
  <1> USE DEF Using, Copying, At
  <1>1. at = [r \in Proc |-> at[r]] /\ resume = [r \in Proc |-> resume[r]]
        /\ resume[p] \in {"user", "copy out", "copy in", "terminal"}
    BY DEF PagingTypes
  <1>2. {"user", "put", "copy in", "copy out", "tape", "store", "store last", "get",
          "terminal", "dying", "buried", "ended"} \cap Faulting = {}
        /\ {"choose", "write out", "read in", "map"} = Faulting
    BY DEF Faulting
  <1>3. at'[p] # "user"
    BY <1>2
  <1>4. CASE TapeRead(p) \/ Store(p) \/ Bury(p) \/ Terminate(p) \/ Die(p) \/ Put(p) \/ CopyIn(p)
             \/ TermEnd(p) \/ \E k \in Key : TermCall(p, k) \/ \E d \in Disk : DiskCall(p, d, k)
    <2>1. \E x \in {"store", "store last", "tape", "user", "buried", "ended", "dying", "terminal",
                    "copy out", "get"} : Go(p, x)
      BY <1>4 DEF TapeRead, Store, Bury, Terminate, Die, Put, CopyIn, TermEnd, TermCall, DiskCall, Return
    <2> QED
      BY <1>1, <1>2, <2>1 DEF Go
  <1>5. ASSUME NEW k \in Key, Fault(p, k) PROVE Has(p, diskSem(disk[p])) /\ (Copying(p)' => Copying(p))
                                               /\ at'[p] = "choose" /\ disk' = disk
    <2>1. /\ at'[p] = "choose" /\ resume'[p] = at[p] /\ disk' = disk
          /\ at[p] = "copy out" => Has(p, diskSem(disk[p]))
      BY <1>1, <1>5 DEF Fault, Go
    <2> QED
      BY <1>2, <2>1 DEF DiskMutex
  <1>6. CASE Choose(p) \/ WriteOut(p) \/ ReadIn(p)
    <2>1. /\ at[p] \in Faulting /\ at'[p] \in Faulting /\ resume' = resume /\ disk' = disk
      BY <1>1, <1>2, <1>6 DEF Choose, WriteOut, ReadIn, Go
    <2> QED
      BY <1>2, <2>1 DEF DiskMutex
  <1>7. CASE Map(p)
    <2>1. at[p] = "map" /\ at'[p] = resume[p] /\ disk' = disk
      BY <1>1, <1>7 DEF Map, Go
    <2> QED
      BY <1>1, <1>2, <2>1 DEF DiskMutex
  <1>8. CASE CopyOut(p) \/ Get(p)
    <2>1. /\ Has(p, diskSem(disk[p])) /\ disk' = disk
      BY <1>8 DEF CopyOut, Get
    <2>2. CopyOut(p) => at'[p] = "put"
      BY <1>1 DEF CopyOut, Go
    <2>3. Get(p) => at'[p] = "copy in"
      BY <1>1 DEF Get, Go
    <2> QED
      BY <1>2, <1>8, <2>1, <2>2, <2>3
  <1>9. CASE (\E k \in Key : Use(p, k)) \/ TermChar(p) \/ TermPanic(p)
    <2>1. UNCHANGED <<at, disk, resume>> /\ at[p] \in {"user", "terminal"}
      BY <1>9 DEF Use, TermChar, TermPanic, proc
    <2> QED
      BY <1>2, <2>1
  <1> QED
    BY <1>2, <1>3, <1>4, <1>5, <1>6, <1>7, <1>8, <1>9 DEF Kernel, Program

(* What a step does to the queue of a disk: a process joins its end, or    *)
(* the holder leaves its front.                                            *)
LEMMA DiskQueueSteps ==
  ASSUME DiskMutex, NEW p \in Proc, Kernel(p) \/ Program(p), NEW d \in Disk
  PROVE  /\ diskSem(d) \in DOMAIN queue'
         /\ \/ queue'[diskSem(d)] = queue[diskSem(d)]
            \/ queue'[diskSem(d)] = Append(queue[diskSem(d)], p)
            \/ /\ Put(p) \/ CopyIn(p)
               /\ disk[p] = d /\ queue'[diskSem(d)] = Tail(queue[diskSem(d)])
  <1>1. /\ diskSem(d) \notin {swapSem, backingSem} /\ \A r : diskSem(d) # termSem(r)
        /\ \A e : diskSem(e) = diskSem(d) <=> e = d
    BY DEF swapSem, backingSem, termSem, diskSem
  <1>2. diskSem(d) \in DOMAIN queue
    BY DEF DiskMutex
  <1>3. \A l : queue' = Leave(queue, l) /\ l # diskSem(d) =>
          diskSem(d) \in DOMAIN queue' /\ queue'[diskSem(d)] = queue[diskSem(d)]
    BY <1>2 DEF Leave
  <1>4. \A l : queue' = Ask(queue, p, l) \/ Enter(p, l) =>
          /\ diskSem(d) \in DOMAIN queue'
          /\ queue'[diskSem(d)] \in {queue[diskSem(d)], Append(queue[diskSem(d)], p)}
    BY <1>2 DEF Ask, Enter
  <1>5. CASE TapeRead(p) \/ Choose(p) \/ Die(p) \/ (\E k \in Key : Fault(p, k))
             \/ \E k \in Key : TermCall(p, k) \/ \E e \in Disk : DiskCall(p, e, k)
    BY <1>4, <1>5 DEF TapeRead, Choose, Die, Fault, TermCall, DiskCall
  <1>6. CASE Store(p) \/ ReadIn(p) \/ Map(p) \/ Bury(p) \/ TermEnd(p)
    BY <1>1, <1>3, <1>6 DEF Store, ReadIn, Map, Bury, TermEnd
  <1>7. CASE WriteOut(p)
    <2>1. queue' = Ask(Leave(queue, backingSem), p, backingSem)
      BY <1>7 DEF WriteOut
    <2> QED
      BY <1>1, <1>2, <2>1 DEF Ask, Leave
  <1>8. CASE Put(p) \/ CopyIn(p)
    <2>1. queue' = Leave(queue, diskSem(disk[p]))
      BY <1>8 DEF Put, CopyIn
    <2>2. CASE disk[p] = d
      BY <1>2, <1>8, <2>1, <2>2 DEF Leave
    <2>3. CASE disk[p] # d
      BY <1>1, <1>3, <2>1, <2>3
    <2> QED
      BY <2>2, <2>3
  <1>9. CASE \/ CopyOut(p) \/ Get(p) \/ Terminate(p) \/ TermChar(p) \/ TermPanic(p)
             \/ \E k \in Key : Use(p, k)
    BY <1>2, <1>9 DEF CopyOut, Get, Terminate, TermChar, TermPanic, Use
  <1> QED
    BY <1>5, <1>6, <1>7, <1>8, <1>9 DEF Kernel, Program

(* Only the holder leaves, so whoever else uses a buffer keeps its mutex.  *)
LEMMA MutexNext ==
  ASSUME Shared = {}, IInv, CInv, DiskMutex, NEW p \in Proc, Kernel(p) \/ Program(p), CInv'
  PROVE  DiskMutex'
  <1>1. PagingTypes /\ ContentTypes /\ Callers /\ Callers' /\ Alone(p)
    BY StepIsAlone DEF IInv, CInv, Steps
  <1>2. /\ \A r \in Proc : Using(r) => disk[r] \in Disk
        /\ \A r \in Proc : Using(r)' => disk'[r] \in Disk
    BY <1>1 DEF Using, Callers, DiskSteps
  <1>3. ASSUME NEW d \in Disk
        PROVE  diskSem(d) \in DOMAIN queue' /\ queue'[diskSem(d)] \in Seq(Proc)
    <2>1. queue[diskSem(d)] \in Seq(Proc)
      BY DEF DiskMutex
    <2>2. (Put(p) \/ CopyIn(p)) /\ disk[p] = d => queue[diskSem(d)] # <<>>
      BY DEF DiskMutex, Put, CopyIn, Using, At, Has
    <2>3. Append(queue[diskSem(d)], p) \in Seq(Proc)
      BY <2>1
    <2>4. queue[diskSem(d)] # <<>> => Tail(queue[diskSem(d)]) \in Seq(Proc)
      BY <2>1
    <2> QED
      BY <2>1, <2>2, <2>3, <2>4, DiskQueueSteps
  <1>4. ASSUME NEW r \in Proc, Using(r)' PROVE Has(r, diskSem(disk[r])) /\ disk'[r] = disk[r]
    <2>1. CASE r = p
      BY <1>1, <1>4, <2>1, HadMutex
    <2>2. CASE r # p
      BY <1>1, <1>4, <2>2 DEF Alone, Using, DiskMutex
    <2> QED
      BY <2>1, <2>2
  <1>5. ASSUME NEW r \in Proc, Using(r)' PROVE Has(r, diskSem(disk[r]))'
    <2> DEFINE d == disk[r]
               q == queue[diskSem(d)]
    <2>1. d \in Disk /\ q # <<>> /\ Head(q) = r /\ q \in Seq(Proc)
      BY <1>2, <1>4, <1>5 DEF Has, DiskMutex
    <2>2. ~((Put(p) \/ CopyIn(p)) /\ disk[p] = d)
      <3> SUFFICES ASSUME Put(p) \/ CopyIn(p), disk[p] = d PROVE FALSE
        OBVIOUS
      <3>1. Head(q) = p
        BY DEF DiskMutex, Put, CopyIn, Using, At, Has
      <3>2. at'[p] = "user"
        BY <1>1 DEF Put, CopyIn, Return, Go, PagingTypes
      <3> QED
        BY <1>1, <1>5, <2>1, <3>1, <3>2, HadMutex
    <2>3. queue'[diskSem(d)] \in {q, Append(q, p)}
      BY <2>1, <2>2, DiskQueueSteps
    <2>4. Append(q, p) # <<>> /\ Head(Append(q, p)) = Head(q)
      BY <2>1
    <2> QED
      BY <1>4, <1>5, <2>1, <2>3, <2>4 DEF Has
  <1> QED
    BY <1>3, <1>5 DEF DiskMutex

(* A step that neither copies into the buffer of a disk nor transfers for  *)
(* it changes buffer and block alike, and a file only to what is no file   *)
(* of another process.                                                     *)
SameFate(d, p) ==
  /\ mem[DiskBuffer(d)] = mem[Block(d)] => mem'[DiskBuffer(d)] = mem'[Block(d)]
  /\ \A r \in Proc \ {p} : mem[DiskBuffer(d)] = File(r) => mem'[DiskBuffer(d)] = File(r)

LEMMA BufferFate ==
  ASSUME Shared = {}, BuffersApart, IInv, CInv, NEW p \in Proc, Kernel(p) \/ Program(p), ~failed',
         NEW d \in Disk, CopyOut(p) \/ Put(p) \/ Get(p) => disk[p] # d
  PROVE  SameFate(d, p)
  <1> DEFINE B == DiskBuffer(d)
             D == Block(d)
  <1>1. /\ B \in Place /\ D \in Place
        /\ \A f \in Frame : FrameOf(f) \notin {B, D}
        /\ \A k \in Key : SectorOf(k) \notin {B, D}
        /\ \A r \in Proc : TapeBuffer(r) \notin {B, D}
    BY DiskPlaces
  <1>2. ContentTypes /\ Callers /\ Fresh /\ PagingTypes
    BY DEF CInv, Steps, IInv
  <1>3. \A e \in Disk : e # d => DiskBuffer(e) \notin {B, D} /\ Block(e) \notin {B, D}
    BY DEF DiskBuffer, Block, Buffer
  <1>4. ASSUME NEW from, NEW to, Transfer(from, to), to \notin {B, D} PROVE SameFate(d, p)
    BY <1>1, <1>2, <1>4, Transferred DEF SameFate
  <1>5. ASSUME NEW c \in Place, NEW x, Renew(c, x), UNCHANGED failed, c \notin {B, D},
               \A r \in Proc \ {p} : File(r) # x
        PROVE  SameFate(d, p)
    <2>1. mem' = [e \in Place |-> IF e = c THEN x ELSE IF mem[e] = x THEN OLD ELSE mem[e]]
      BY <1>5 DEF Renew, Keep
    <2> QED
      BY <1>1, <1>5, <2>1 DEF SameFate
  <1>6. ASSUME NEW k \in Key, Write(k), UNCHANGED failed PROVE SameFate(d, p)
    <2>1. Reach(k) \in Frame /\ Renew(FrameOf(Reach(k)), k)
      BY <1>6, AccessFills DEF Write
    <2> QED
      BY <1>1, <1>5, <1>6, <2>1, PlaceFacts, FilesAreNoPages
  <1>7. CASE TapeRead(p)
    <2>1. UNCHANGED failed /\ Renew(TapeBuffer(p), <<p, block[p]>>)
      BY <1>7 DEF TapeRead
    <2>2. <<p, block[p]>> \in Key
      BY <1>2, <1>7, TapePage DEF TapeRead, At, LoadingSteps
    <2> QED
      BY <1>1, <1>5, <2>1, <2>2, PlaceFacts, FilesAreNoPages
  <1>8. CASE Store(p)
    <2>1. <<p, block[p]>> \in Key
      BY <1>2, <1>8, TapePage DEF Store, At, LoadingSteps
    <2>2. Sector(p, block[p]) = SectorOf(<<p, block[p]>>)
      BY DEF SectorOf
    <2> QED
      BY <1>1, <1>4, <1>8, <2>1, <2>2 DEF Store
  <1>9. CASE WriteOut(p)
    <2>1. swapPool[nextFrame] # FREE /\ nextFrame \in Frame
      BY <1>2, <1>9 DEF CInv, Steps, Replaced, PagingTypes, WriteOut, At
    <2>2. PageIn(nextFrame) \in Key /\ PageIn(nextFrame)[1] = Owner(nextFrame)
      BY <1>2, <2>1 DEF IInv, Occupied, PagingTypes, PageIn
    <2>3. Sector(Owner(nextFrame), PageIn(nextFrame)[2]) = SectorOf(PageIn(nextFrame))
      BY <2>2 DEF SectorOf
    <2> QED
      BY <1>1, <1>4, <1>9, <2>2, <2>3 DEF WriteOut
  <1>10. CASE ReadIn(p)
    BY <1>1, <1>2, <1>4, <1>10 DEF ReadIn, PagingTypes
  <1>11. CASE CopyOut(p)
    <2>1. disk[p] \in Disk /\ disk[p] # d
      BY <1>2, <1>11 DEF Callers, CopyOut, At, DiskSteps
    <2>2. \A r \in Proc \ {p} : File(r) # File(p)
      BY DEF File
    <2> QED
      BY <1>3, <1>5, <1>11, <2>1, <2>2, DiskPlaces DEF CopyOut
  <1>12. CASE Put(p) \/ Get(p)
    <2>1. disk[p] \in Disk /\ disk[p] # d
      BY <1>2, <1>12 DEF Callers, Put, Get, At, DiskSteps
    <2> QED
      BY <1>3, <1>4, <1>12, <2>1 DEF Put, Get
  <1>13. CASE CopyIn(p)
    <2>1. page[p] \in Key
      BY <1>2, <1>13 DEF Callers, CopyIn, At, DiskSteps
    <2> QED
      BY <1>6, <1>13, <2>1 DEF CopyIn
  <1>14. CASE (\E k \in Key : Use(p, k)) \/ TermChar(p)
    <2>1. UNCHANGED failed /\ (UNCHANGED mem \/ Write(page[p]) \/ \E k \in Key : Write(k))
          /\ (TermChar(p) => page[p] \in Key)
      BY <1>2, <1>14 DEF Use, TermChar, At, Callers
    <2>2. UNCHANGED mem \/ \E k \in Key : Write(k)
      BY <1>2, <1>14, <2>1 DEF Use, TermChar
    <2> QED
      BY <1>6, <2>1, <2>2 DEF SameFate
  <1>15. CASE UNCHANGED mem
    BY <1>15 DEF SameFate
  <1> QED
    BY <1>7, <1>8, <1>9, <1>10, <1>11, <1>12, <1>13, <1>14, <1>15
    DEF Kernel, Program, Choose, Map, Bury, Terminate, Fault, TermCall, DiskCall, TermEnd, TermPanic, Die

LEMMA OnDiskNext ==
  ASSUME Shared = {}, BuffersApart, IInv, CInv, CInv', DInv,
         NEW p \in Proc, Kernel(p) \/ Program(p)
  PROVE  OnDisk'
  <1>1. PagingTypes /\ ContentTypes /\ ContentTypes' /\ Callers /\ Alone(p) /\ DiskMutex
    BY StepIsAlone DEF IInv, CInv, Steps, DInv
  <1>2. failed => failed'
    BY <1>1, Transferred DEF Kernel, Program, TapeRead, Store, Choose, WriteOut, ReadIn, Map,
       CopyOut, Put, Get, CopyIn, Bury, Terminate, Fault, Use, TermCall, DiskCall, TermChar,
       TermEnd, TermPanic, Die
  <1> SUFFICES ASSUME ~failed', NEW r \in Proc, Using(r)'
               PROVE  /\ at'[r] = "put" => mem'[DiskBuffer(disk'[r])] = File(r)
                      /\ Copying(r)' => mem'[DiskBuffer(disk'[r])] = mem'[Block(disk'[r])]
    BY DEF OnDisk, Using, Copying
  <1> DEFINE d == disk[r]
  <1>3. /\ at[r] = "put" => mem[DiskBuffer(d)] = File(r)
        /\ Copying(r) => mem[DiskBuffer(d)] = mem[Block(d)]
    BY <1>2 DEF DInv, OnDisk
  <1>4. CASE r # p
    <2>1. /\ Using(r) /\ (Copying(r)' <=> Copying(r)) /\ at'[r] = at[r] /\ disk'[r] = d
      BY <1>1, <1>4 DEF Alone, Using, Copying
    <2>2. d \in Disk /\ Has(r, diskSem(d))
      BY <1>1, <2>1 DEF Callers, Using, DiskSteps, DiskMutex
    <2>3. CopyOut(p) \/ Put(p) \/ Get(p) => disk[p] # d
      <3>1. CopyOut(p) \/ Put(p) \/ Get(p) => Has(p, diskSem(disk[p]))
        BY <1>1 DEF CopyOut, Put, Get, DiskMutex, Using, At
      <3> QED
        BY <1>4, <2>2, <3>1 DEF Has
    <2>4. SameFate(d, p)
      BY <2>2, <2>3, BufferFate
    <2> QED
      BY <1>3, <1>4, <2>1, <2>4 DEF SameFate
  <1>5. CASE r = p
    <2>1. /\ disk'[p] = disk[p]
          /\ at'[p] = "put" => CopyOut(p)
          /\ Copying(p)' => Get(p) \/ Copying(p)
      BY <1>1, <1>5, HadMutex
    <2>2. disk[p] \in Disk
      BY <1>5, <2>1 DEF CInv, Steps, Callers, Using, DiskSteps
    <2>3. /\ DiskBuffer(d) \in Place /\ Block(d) \in Place /\ DiskBuffer(d) # Block(d)
      BY <1>5, <2>2, DiskPlaces DEF DiskBuffer, Block, Buffer
    <2>4. CASE CopyOut(p)
      <3>1. at'[p] = "put" /\ ~Copying(p)'
        BY <1>1, <2>4 DEF CopyOut, Go, PagingTypes, Copying, Faulting
      <3>2. mem'[DiskBuffer(d)] = File(p)
        BY <1>1, <1>5, <2>3, <2>4, Renewed DEF CopyOut
      <3> QED
        BY <1>5, <2>1, <3>1, <3>2
    <2>5. CASE Get(p)
      <3>1. at'[p] = "copy in"
        BY <1>1, <2>5 DEF Get, Go, PagingTypes
      <3>2. mem'[DiskBuffer(d)] = mem'[Block(d)]
        BY <1>1, <1>5, <2>3, <2>5, Transferred DEF Get
      <3> QED
        BY <1>5, <2>1, <3>1, <3>2
    <2>6. CASE ~CopyOut(p) /\ ~Get(p)
      <3>1. at'[p] # "put"
        BY <2>1, <2>6
      <3>2. ASSUME Copying(p)' PROVE mem'[DiskBuffer(d)] = mem'[Block(d)]
        <4>1. Copying(p) /\ ~Put(p)
          BY <2>1, <2>6, <3>2 DEF Copying, Put, At, Faulting
        <4>2. SameFate(d, p)
          BY <1>5, <2>2, <2>6, <4>1, BufferFate
        <4> QED
          BY <1>3, <1>5, <4>1, <4>2 DEF SameFate
      <3> QED
        BY <1>5, <2>1, <3>1, <3>2
    <2> QED
      BY <2>4, <2>5, <2>6
  <1> QED
    BY <1>4, <1>5

LEMMA InitDisks ==
  ASSUME Init
  PROVE  DInv
  <1>1. \A d \in Disk : diskSem(d) \in DOMAIN queue /\ queue[diskSem(d)] = <<>>
                         /\ <<>> \in Seq(Proc)
    BY DEF Init
  <1>2. \A p \in Proc : at[p] = "tape"
    BY DEF Init
  <1> QED
    BY <1>1, <1>2 DEF DInv, DiskMutex, OnDisk, Using, Copying, Faulting

LEMMA NextDisks ==
  ASSUME Shared = {}, BuffersApart, IInv, CInv, DInv, [Next]_vars
  PROVE  DInv'
  <1>1. CInv'
    BY NextContents
  <1>2. ASSUME NEW p \in Proc, Kernel(p) \/ Program(p) PROVE DInv'
    BY <1>1, <1>2, MutexNext, OnDiskNext DEF DInv
  <1>3. CASE Join \/ Halted \/ UNCHANGED vars
    <2>1. UNCHANGED <<mem, failed, queue, at, disk, resume>>
      BY <1>3 DEF Join, Halted, vars, proc
    <2> QED
      BY <2>1 DEF DInv, DiskMutex, OnDisk, Using, Copying, Has
  <1> QED
    BY <1>2, <1>3 DEF Next

(* Unless a transfer has failed, a buffer holds what the process that uses *)
(* it has put there, page faults in the midst included (uProcInit,         *)
(* diskIO), on the same conditions.                                        *)
THEOREM BuffersKeepContents == Shared = {} /\ BuffersApart => (Spec => []BuffersAreOwn)
  <1> SUFFICES ASSUME Shared = {}, BuffersApart PROVE Spec => []BuffersAreOwn
    OBVIOUS
  <1>1. Init => IInv /\ CInv /\ DInv
    BY InitInv, InitContents, InitDisks
  <1>2. (IInv /\ CInv /\ DInv) /\ [Next]_vars => (IInv /\ CInv /\ DInv)'
    BY NextInv, NextContents, NextDisks
  <1>3. IInv /\ CInv /\ DInv => BuffersAreOwn
    BY DEF BuffersAreOwn, CInv, Contents, InBuffer, DInv, OnDisk, Copying
  <1> QED
    BY <1>1, <1>2, <1>3, PTL DEF Spec

---------------------------------------------------------------------------
(* Types and mutexes, with shared pages too.  A process is in the queue of *)
(* a semaphore only where its program has asked for it, and where it works *)
(* on what the semaphore guards it is at the front: so a process never     *)
(* asks twice, and every V is one of the holder.                           *)

Dead == {"dying", "buried", "ended"}

(* The SYSCALL in which p is, a page fault in its midst included.          *)
Doing(w, y) == IF w \in Faulting THEN y ELSE w

MayQueue(w, d, y, p, l) ==
  \/ l = swapSem /\ w \in Faulting \cup {"dying"}
  \/ l = backingSem /\ w \in {"store", "store last", "write out", "read in"}
  \/ l = diskSem(d) /\ Doing(w, y) \in DiskSteps \cup Dead
  \/ l = termSem(p) /\ Doing(w, y) \in {"terminal"} \cup Dead

MustHold(w, d, y, s, p, l) ==
  \/ l = swapSem /\ w \in Critical
  \/ l = diskSem(d) /\ \/ w \in {"put", "copy in"}
                       \/ w \in Faulting /\ y \in {"copy out", "copy in"}
  \/ l = termSem(p) /\ s /\ Doing(w, y) = "terminal"

May(p, l)  == MayQueue(at[p], disk[p], resume[p], p, l)
Must(p, l) == MustHold(at[p], disk[p], resume[p], served, p, l)

Mutex(l) ==
  /\ queue[l] \in Seq(Proc) /\ IsInjective(queue[l])
  /\ \A p \in Range(queue[l]) : May(p, l)
  /\ \A p \in Proc : Must(p, l) => Has(p, l)

Places == Faulting \cup {"tape", "store", "store last", "user", "copy out", "put", "get",
                          "copy in", "terminal", "dying", "buried", "ended"}

StepTypes ==
  /\ pte \in [Key -> Frame \cup {INVALID, GARBAGE}] /\ tlb \in [Key -> Frame \cup {INVALID}]
  /\ swapPool \in [Frame -> (Proc \X Key) \cup {FREE}] /\ nextFrame \in Frame
  /\ at \in [Proc -> Places]
  /\ page \in [Proc -> Key \cup {OLD}] /\ disk \in [Proc -> Disk \cup {0}]
  /\ resume \in [Proc -> {"user", "copy out", "copy in", "terminal"}]
  /\ block \in [Proc -> Nat]
  /\ \A p \in Proc : /\ block[p] \in 0..TapeBlocks[p] - 1
                     /\ at[p] = "store" => block[p] + 1 < TapeBlocks[p]

(* The arguments of the SYSCALL and of the fault a process is in.          *)
Arguments == \A p \in Proc :
  /\ Doing(at[p], resume[p]) \in DiskSteps => disk[p] \in Disk
  /\ at[p] \in Faulting \cup DiskSteps \cup {"terminal"} => page[p] \in Key

Semaphores == {swapSem, backingSem} \cup {diskSem(d) : d \in Disk} \cup {termSem(p) : p \in Proc}

Mutexes == DOMAIN queue = Semaphores /\ \A l \in Semaphores : Mutex(l)

(* The Vs of masterSem are those of the processes that have ended.         *)
DeathsCounted ==
  /\ masterSem \in Nat /\ joined \in Nat
  /\ masterSem + joined = Cardinality(Ended)

TInv == /\ mem \in [Place -> Content] /\ StepTypes /\ Arguments /\ Mutexes /\ DeathsCounted

---------------------------------------------------------------------------
LEMMA AllNames ==
  /\ swapSem # backingSem
  /\ \A d : diskSem(d) \notin {swapSem, backingSem} /\ \A p : diskSem(d) # termSem(p)
  /\ \A p : termSem(p) \notin {swapSem, backingSem}
  /\ \A d, e : diskSem(d) = diskSem(e) => d = e
  /\ \A p, r : termSem(p) = termSem(r) => p = r
  BY DEF swapSem, backingSem, diskSem, termSem

(* Process p joins the queue of a semaphore, leaves it from the front,     *)
(* does both, or neither.                                                  *)
Stays(p, l) == /\ queue'[l] = queue[l]
               /\ p \in Range(queue[l]) => May(p, l)'
               /\ Must(p, l)' => Has(p, l)
Joins(p, l) == /\ queue'[l] = Append(queue[l], p)
               /\ ~May(p, l) /\ May(p, l)'
               /\ Must(p, l)' => \A r \in Proc : ~May(r, l)
Leaves(p, l) == queue'[l] = Tail(queue[l]) /\ Has(p, l) /\ ~Must(p, l)'
Rejoins(p, l) == /\ queue'[l] = Append(Tail(queue[l]), p)
                 /\ Has(p, l) /\ May(p, l)' /\ ~Must(p, l)'

Moves(p, l) == Stays(p, l) \/ Joins(p, l) \/ Leaves(p, l) \/ Rejoins(p, l)

LEMMA MutexKept ==
  ASSUME NEW p \in Proc, NEW l, Mutex(l), Alone(p), served' = served, Moves(p, l)
  PROVE  Mutex(l)'
  <1> DEFINE q == queue[l]
             t == Tail(q)
  <1>1. /\ q \in Seq(Proc) /\ IsInjective(q) /\ \A r \in Range(q) : May(r, l)
        /\ \A r \in Proc : Must(r, l) => Has(r, l)
    BY DEF Mutex
  <1>2. \A r \in Proc \ {p} : (May(r, l)' <=> May(r, l)) /\ (Must(r, l)' <=> Must(r, l))
    BY DEF Alone, May, Must, MayQueue, MustHold
  <1>3. \A r \in Range(q) : r \in Proc
    BY <1>1, MemberType
  <1>4. CASE Stays(p, l)
    <2>1. queue'[l] = q /\ (p \in Range(q) => May(p, l)') /\ (Must(p, l)' => Has(p, l))
      BY <1>4 DEF Stays
    <2>2. \A r \in Range(queue'[l]) : May(r, l)'
      BY <1>1, <1>2, <1>3, <2>1
    <2>3. \A r \in Proc : Must(r, l)' => Has(r, l)'
      BY <1>1, <1>2, <2>1 DEF Has
    <2> QED
      BY <1>1, <2>1, <2>2, <2>3 DEF Mutex
  <1>5. CASE Joins(p, l)
    <2>1. queue'[l] = Append(q, p) /\ ~May(p, l) /\ May(p, l)'
          /\ (Must(p, l)' => \A r \in Proc : ~May(r, l))
      BY <1>5 DEF Joins
    <2>2. p \notin Range(q)
      BY <1>1, <2>1
    <2>3. /\ Append(q, p) \in Seq(Proc) /\ IsInjective(Append(q, p))
          /\ Range(Append(q, p)) = Range(q) \cup {p}
      BY <1>1, <2>2, AppendMembers
    <2>4. \A r \in Range(queue'[l]) : May(r, l)'
      BY <1>1, <1>2, <1>3, <2>1, <2>3
    <2>5. Append(q, p) # <<>> /\ (q # <<>> => Head(Append(q, p)) = Head(q))
      BY <1>1
    <2>6. ASSUME NEW r \in Proc \ {p}, Must(r, l)' PROVE Has(r, l)'
      BY <1>1, <1>2, <2>1, <2>5, <2>6 DEF Has
    <2>7. ASSUME Must(p, l)' PROVE Has(p, l)'
      <3>1. Range(q) = {}
        BY <1>1, <1>3, <2>1, <2>7
      <3>2. q = <<>>
        BY <1>1, <3>1, MemberType
      <3>3. Head(Append(q, p)) = p
        BY <3>2
      <3> QED
        BY <2>1, <2>5, <3>3 DEF Has
    <2> QED
      BY <2>1, <2>3, <2>4, <2>6, <2>7 DEF Mutex
  <1>6. CASE Leaves(p, l) \/ Rejoins(p, l)
    <2>1. q # <<>> /\ Head(q) = p /\ ~Must(p, l)'
      BY <1>6 DEF Leaves, Rejoins, Has
    <2>2. /\ t \in Seq(Proc) /\ IsInjective(t) /\ p \notin Range(t) /\ Range(t) = Range(q) \ {p}
      BY <1>1, <2>1, TailMembers
    <2>3. \A r \in Proc : ~Must(r, l)'
      BY <1>1, <1>2, <2>1 DEF Has
    <2>4. \A r \in Range(t) : May(r, l)'
      BY <1>1, <1>2, <1>3, <2>2
    <2>5. CASE Leaves(p, l)
      <3>1. queue'[l] = t
        BY <2>5 DEF Leaves
      <3> QED
        BY <2>2, <2>3, <2>4, <3>1 DEF Mutex
    <2>6. CASE Rejoins(p, l)
      <3>1. queue'[l] = Append(t, p) /\ May(p, l)'
        BY <2>6 DEF Rejoins
      <3>2. /\ Append(t, p) \in Seq(Proc) /\ IsInjective(Append(t, p))
            /\ Range(Append(t, p)) = Range(t) \cup {p}
        <4> HIDE DEF t
        <4> QED
          BY <2>2, AppendMembers
      <3> QED
        BY <2>3, <2>4, <3>1, <3>2 DEF Mutex
    <2> QED
      BY <1>6, <2>5, <2>6
  <1> QED
    BY <1>4, <1>5, <1>6 DEF Moves

(* Who is at work in its program, or loads, is in no queue it may ask for. *)
LEMMA PlacesDiffer ==
  /\ {"user", "put", "copy in", "copy out", "tape", "store", "store last", "get",
       "terminal", "dying", "buried", "ended"} \cap Faulting = {}
  /\ Faulting = {"choose"} \cup Critical
  /\ DiskSteps \cap ({"terminal"} \cup Dead) = {} /\ "terminal" \notin Dead
  BY DEF Faulting, Critical, DiskSteps, Dead

(* A process that asks for a semaphore.                                    *)
LEMMA AskMoves ==
  ASSUME Mutexes, NEW p \in Proc, NEW m \in Semaphores, served' = served,
         queue' = Ask(queue, p, m) \/ Enter(p, m),
         ~May(p, m), queue' # queue => May(p, m)' /\ (Must(p, m)' => \A r \in Proc : ~May(r, m)),
         Must(p, m)' => queue' # queue,
         \A l \in Semaphores \ {m} : (May(p, l) => May(p, l)') /\ (Must(p, l)' => Has(p, l))
  PROVE  DOMAIN queue' = DOMAIN queue /\ \A l \in Semaphores : Moves(p, l)
  <1>1. DOMAIN queue = Semaphores /\ \A l \in Semaphores : Mutex(l)
    BY DEF Mutexes
  <1>2. \A l \in Semaphores : p \in Range(queue[l]) => May(p, l)
    BY <1>1 DEF Mutex
  <1>3. queue' = queue \/ queue' = Ask(queue, p, m)
    BY DEF Enter
  <1>4. CASE queue' = queue
    <2>1. \A l \in Semaphores : p \in Range(queue[l]) => May(p, l)'
      BY <1>2 DEF May
    <2>2. \A l \in Semaphores : Must(p, l)' => Has(p, l)
      BY <1>4 DEF Must
    <2> QED
      BY <1>4, <2>1, <2>2 DEF Moves, Stays
  <1>5. CASE queue' = Ask(queue, p, m) /\ queue' # queue
    <2>1. /\ DOMAIN queue' = DOMAIN queue /\ queue'[m] = Append(queue[m], p)
          /\ \A l \in Semaphores \ {m} : queue'[l] = queue[l]
      BY <1>1, <1>5 DEF Ask
    <2>2. Joins(p, m)
      BY <1>5, <2>1 DEF Joins
    <2>3. \A l \in Semaphores \ {m} : Stays(p, l)
      BY <1>2, <2>1 DEF Stays, May, Must
    <2> QED
      BY <2>1, <2>2, <2>3 DEF Moves
  <1> QED
    BY <1>3, <1>4, <1>5

(* The holder that releases one.                                           *)
LEMMA LeaveMoves ==
  ASSUME Mutexes, NEW p \in Proc, NEW m \in Semaphores,
         queue' = Leave(queue, m), Has(p, m), ~Must(p, m)',
         \A l \in Semaphores \ {m} : (May(p, l) => May(p, l)') /\ (Must(p, l)' => Has(p, l))
  PROVE  DOMAIN queue' = DOMAIN queue /\ \A l \in Semaphores : Moves(p, l)
  <1>1. DOMAIN queue = Semaphores /\ \A l \in Semaphores : Mutex(l)
    BY DEF Mutexes
  <1>2. /\ DOMAIN queue' = DOMAIN queue /\ queue'[m] = Tail(queue[m])
        /\ \A l \in Semaphores \ {m} : queue'[l] = queue[l]
    BY <1>1 DEF Leave
  <1>3. \A l \in Semaphores \ {m} : Stays(p, l)
    BY <1>1, <1>2 DEF Stays, Mutex, May, Must
  <1> QED
    BY <1>2, <1>3 DEF Moves, Leaves

(* And a step without either.                                              *)
LEMMA StayMoves ==
  ASSUME Mutexes, NEW p \in Proc, queue' = queue,
         \A l \in Semaphores : (May(p, l) => May(p, l)') /\ (Must(p, l)' => Has(p, l))
  PROVE  DOMAIN queue' = DOMAIN queue /\ \A l \in Semaphores : Moves(p, l)
  BY DEF Mutexes, Mutex, Moves, Stays, May, Must

MovesAll(p) == DOMAIN queue' = DOMAIN queue /\ \A l \in Semaphores : Moves(p, l)

LEMMA HeldBy ==
  ASSUME Mutexes, NEW p \in Proc, NEW l \in Semaphores, Must(p, l)
  PROVE  Has(p, l)
  BY DEF Mutexes, Mutex

(* A fault begins, inside a SYSCALL or outside, or a process is to die.    *)
LEMMA FaultMoves ==
  ASSUME StepTypes, Mutexes, NEW p \in Proc, (\E k \in Key : Fault(p, k)) \/ Die(p)
  PROVE  MovesAll(p)
  <1> DEFINE d == disk[p]
             y == resume[p]
  <1>1. at = [r \in Proc |-> at[r]] /\ resume = [r \in Proc |-> resume[r]]
    BY DEF StepTypes
  <1>2. /\ at[p] \in {"user", "copy out", "copy in", "terminal"} /\ disk' = disk /\ served' = served
        /\ Enter(p, swapSem)
        /\ at[p] = "copy out" => Has(p, diskSem(d))
        /\ at[p] = "terminal" => served
    BY DEF Fault, Die, At, rest
  <1>3. \/ at'[p] = "choose" /\ resume'[p] = at[p]
        \/ at'[p] = "dying" /\ resume'[p] = y
    BY <1>1 DEF Fault, Die, Go
  <1>4. ~May(p, swapSem) /\ May(p, swapSem)' /\ ~Must(p, swapSem)'
    <2>1. at[p] \notin Faulting \cup {"dying"} /\ at'[p] \in {"choose", "dying"}
      BY <1>2, <1>3, PlacesDiffer
    <2>2. at'[p] \in Faulting \cup {"dying"} /\ at'[p] \notin Critical
      BY <2>1 DEF Faulting, Critical
    <2> QED
      BY <2>1, <2>2, AllNames DEF May, Must, MayQueue, MustHold
  <1>5. ASSUME NEW l \in Semaphores \ {swapSem}, May(p, l) PROVE May(p, l)'
    <2>1. Doing(at[p], y) = at[p]
      BY <1>2, PlacesDiffer DEF Doing
    <2>2. Doing(at'[p], resume'[p]) \in {at[p], "dying"} /\ "dying" \in Dead
      BY <1>3, PlacesDiffer DEF Doing, Dead
    <2>3. at[p] \notin {"store", "store last", "write out", "read in"}
      BY <1>2
    <2> QED
      BY <1>2, <1>5, <2>1, <2>2, <2>3 DEF May, MayQueue
  <1>6. ASSUME NEW l \in Semaphores \ {swapSem}, Must(p, l)' PROVE Has(p, l)
    <2>1. Must(p, l) \/ (at[p] = "copy out" /\ l = diskSem(d))
      BY <1>2, <1>3, <1>6, AllNames, PlacesDiffer DEF Must, MustHold, Doing, Dead
    <2> QED
      BY <1>2, <2>1, HeldBy
  <1>7. swapSem \in Semaphores
    BY DEF Semaphores
  <1> QED
    BY <1>2, <1>4, <1>5, <1>6, <1>7, AskMoves DEF MovesAll

LEMMA ChooseMoves ==
  ASSUME StepTypes, Mutexes, NEW p \in Proc, Choose(p)
  PROVE  MovesAll(p)
  <1>1. at = [r \in Proc |-> at[r]]
    BY DEF StepTypes
  <1>2. /\ at[p] = "choose" /\ Has(p, swapSem) /\ queue' = Ask(queue, p, backingSem)
        /\ UNCHANGED <<disk, resume, served>>
        /\ at'[p] \in {"write out", "read in"}
    BY <1>1 DEF Choose, At, Go, rest
  <1>3. ~May(p, backingSem) /\ May(p, backingSem)' /\ ~Must(p, backingSem)'
    BY <1>2, AllNames, PlacesDiffer DEF May, Must, MayQueue, MustHold
  <1>4. \A l \in Semaphores \ {backingSem} : May(p, l) => May(p, l)'
    BY <1>2, AllNames, PlacesDiffer DEF May, MayQueue, Doing, Critical
  <1>5. ASSUME NEW l \in Semaphores \ {backingSem}, Must(p, l)' PROVE Has(p, l)
    <2>1. Must(p, l) \/ l = swapSem
      BY <1>2, <1>5, AllNames, PlacesDiffer DEF Must, MustHold, Doing, Critical
    <2> QED
      BY <1>2, <2>1, HeldBy
  <1>6. backingSem \in Semaphores
    BY DEF Semaphores
  <1> QED
    BY <1>2, <1>3, <1>4, <1>5, <1>6, AskMoves DEF MovesAll

LEMMA TapeMoves ==
  ASSUME StepTypes, Mutexes, NEW p \in Proc, TapeRead(p) \/ Store(p)
  PROVE  MovesAll(p)
  <1>1. at = [r \in Proc |-> at[r]] /\ backingSem \in Semaphores
    BY DEF StepTypes, Semaphores
  <1>2. CASE TapeRead(p)
    <2>1. /\ at[p] = "tape" /\ queue' = Ask(queue, p, backingSem)
          /\ UNCHANGED <<disk, resume, served>>
          /\ at'[p] \in {"store", "store last"}
      BY <1>1, <1>2 DEF TapeRead, At, Go, rest
    <2>2. \A l : ~May(p, l)
      BY <2>1, PlacesDiffer DEF MayQueue, May, Doing, DiskSteps, Dead
    <2>3. \A l : ~Must(p, l)'
      BY <2>1, PlacesDiffer DEF MustHold, Must, Doing
    <2>4. May(p, backingSem)'
      BY <2>1 DEF May, MayQueue
    <2> QED
      BY <1>1, <2>1, <2>2, <2>3, <2>4, AskMoves DEF MovesAll
  <1>3. CASE Store(p)
    <2>1. /\ at[p] \in {"store", "store last"} /\ queue' = Leave(queue, backingSem)
          /\ Has(p, backingSem) /\ UNCHANGED <<disk, resume, served>>
          /\ at'[p] \in {"tape", "user"}
      BY <1>1, <1>3 DEF Store, At, Go, rest
    <2>2. \A l : May(p, l) => l = backingSem
      BY <2>1, PlacesDiffer DEF MayQueue, May, Doing, DiskSteps, Dead
    <2>3. \A l : ~Must(p, l)'
      BY <2>1, PlacesDiffer DEF MustHold, Must, Doing
    <2> QED
      BY <1>1, <2>1, <2>2, <2>3, LeaveMoves DEF MovesAll
  <1> QED
    BY <1>2, <1>3

LEMMA BackingMoves ==
  ASSUME StepTypes, Mutexes, NEW p \in Proc, WriteOut(p) \/ ReadIn(p)
  PROVE  MovesAll(p)
  <1>1. at = [r \in Proc |-> at[r]] /\ backingSem \in Semaphores
    BY DEF StepTypes, Semaphores
  <1>2. /\ at[p] \in {"write out", "read in"} /\ Has(p, backingSem)
        /\ UNCHANGED <<disk, resume, served>> /\ at'[p] \in {"read in", "map"}
    BY <1>1 DEF WriteOut, ReadIn, At, Go, rest
  <1>3. \A l : l # backingSem /\ May(p, l) => May(p, l)'
    BY <1>2, AllNames, PlacesDiffer DEF May, MayQueue, Doing, Critical
  <1>4. \A l \in Semaphores : Must(p, l)' => Has(p, l)
    <2>1. \A l : Must(p, l)' => Must(p, l)
      BY <1>2, AllNames, PlacesDiffer DEF Must, MustHold, Doing, Critical
    <2> QED
      BY <2>1, HeldBy
  <1>5. ~Must(p, backingSem)'
    BY AllNames DEF Must, MustHold
  <1>6. CASE ReadIn(p)
    <2>1. queue' = Leave(queue, backingSem)
      BY <1>6 DEF ReadIn
    <2> QED
      BY <1>1, <1>2, <1>3, <1>4, <1>5, <2>1, LeaveMoves DEF MovesAll
  <1>7. CASE WriteOut(p)
    <2>1. queue' = Ask(Leave(queue, backingSem), p, backingSem) /\ at'[p] = "read in"
      BY <1>1, <1>7 DEF WriteOut, Go
    <2>2. DOMAIN queue = Semaphores /\ \A l \in Semaphores : Mutex(l)
      BY DEF Mutexes
    <2>3. /\ DOMAIN queue' = DOMAIN queue
          /\ queue'[backingSem] = Append(Tail(queue[backingSem]), p)
          /\ \A l \in Semaphores \ {backingSem} : queue'[l] = queue[l]
      BY <1>1, <2>1, <2>2 DEF Ask, Leave
    <2>4. Rejoins(p, backingSem)
      BY <1>2, <1>5, <2>1, <2>3 DEF Rejoins, May, MayQueue
    <2>5. \A l \in Semaphores \ {backingSem} : Stays(p, l)
      BY <1>3, <1>4, <2>2, <2>3 DEF Stays, Mutex
    <2> QED
      BY <2>3, <2>4, <2>5 DEF Moves, MovesAll
  <1> QED
    BY <1>6, <1>7

LEMMA MapMoves ==
  ASSUME StepTypes, Mutexes, NEW p \in Proc, Map(p) \/ Bury(p)
  PROVE  MovesAll(p)
  <1>1. /\ at = [r \in Proc |-> at[r]] /\ resume = [r \in Proc |-> resume[r]]
        /\ resume[p] \in {"user", "copy out", "copy in", "terminal"} /\ swapSem \in Semaphores
    BY DEF StepTypes, Semaphores
  <1>2. queue' = Leave(queue, swapSem) /\ UNCHANGED <<disk, served>>
    BY DEF Map, Bury, rest
  <1>3. CASE Map(p)
    <2>1. at[p] = "map" /\ at'[p] = resume[p] /\ resume'[p] = "user"
      BY <1>1, <1>3 DEF Map, At, Go
    <2>2. Has(p, swapSem)
      BY <1>1, <2>1, HeldBy DEF Must, MustHold, Critical
    <2>3. ~Must(p, swapSem)'
      BY <1>1, <2>1, AllNames, PlacesDiffer DEF Must, MustHold, Critical
    <2>4. \A l : l # swapSem /\ May(p, l) => May(p, l)'
      BY <1>1, <1>2, <2>1, AllNames, PlacesDiffer DEF May, MayQueue, Doing, Critical, Dead
    <2>5. \A l : l # swapSem /\ Must(p, l)' => Must(p, l)
      BY <1>1, <1>2, <2>1, AllNames, PlacesDiffer DEF Must, MustHold, Doing, Critical
    <2> QED
      BY <1>1, <1>2, <2>2, <2>3, <2>4, <2>5, HeldBy, LeaveMoves DEF MovesAll
  <1>4. CASE Bury(p)
    <2>1. at[p] = "dying" /\ at'[p] = "buried" /\ resume' = resume /\ Has(p, swapSem)
      BY <1>1, <1>4 DEF Bury, At, Go
    <2>2. \A l : ~Must(p, l)'
      BY <2>1, PlacesDiffer DEF Must, MustHold, Doing, Critical
    <2>3. \A l : l # swapSem /\ May(p, l) => May(p, l)'
      BY <1>2, <2>1, AllNames, PlacesDiffer DEF May, MayQueue, Doing, Dead
    <2> QED
      BY <1>1, <1>2, <2>1, <2>2, <2>3, LeaveMoves DEF MovesAll
  <1> QED
    BY <1>3, <1>4

LEMMA CallMoves ==
  ASSUME StepTypes, Mutexes, NEW p \in Proc, NEW k \in Key,
         TermCall(p, k) \/ \E d \in Disk : DiskCall(p, d, k)
  PROVE  MovesAll(p)
  <1>1. at = [r \in Proc |-> at[r]] /\ disk = [r \in Proc |-> disk[r]]
    BY DEF StepTypes
  <1>2. at[p] = "user" /\ UNCHANGED <<resume, served>>
    BY DEF TermCall, DiskCall, At, rest
  <1>3. \A l : ~May(p, l)
    BY <1>2, PlacesDiffer DEF May, MayQueue, Doing, DiskSteps, Dead
  <1>4. CASE TermCall(p, k)
    <2>1. at'[p] = "terminal" /\ Enter(p, termSem(p)) /\ disk' = disk
      BY <1>1, <1>4 DEF TermCall, Go
    <2>2. termSem(p) \in Semaphores
      BY DEF Semaphores
    <2>3. May(p, termSem(p))'
      BY <2>1, PlacesDiffer DEF May, MayQueue, Doing
    <2>4. \A r \in Proc : ~May(r, termSem(p))
      <3>1. \A r \in Proc \ {p} : ~May(r, termSem(p))
        BY AllNames DEF May, MayQueue
      <3> QED
        BY <1>3, <3>1
    <2>5. \A l : l # termSem(p) => ~Must(p, l)'
      BY <2>1, PlacesDiffer DEF Must, MustHold, Doing, Critical
    <2>6. Must(p, termSem(p))' => queue' # queue
      <3>1. Must(p, termSem(p))' => served
        BY <1>2, <2>1, AllNames, PlacesDiffer DEF Must, MustHold, Critical
      <3>2. DOMAIN queue = Semaphores /\ queue[termSem(p)] \in Seq(Proc)
        BY <2>2 DEF Mutexes, Mutex
      <3>3. Append(queue[termSem(p)], p) # queue[termSem(p)]
        BY <3>2
      <3>4. Ask(queue, p, termSem(p))[termSem(p)] = Append(queue[termSem(p)], p)
        BY <2>2, <3>2 DEF Ask
      <3> QED
        BY <2>1, <3>1, <3>3, <3>4 DEF Enter
    <2> QED
      BY <1>2, <1>3, <2>1, <2>2, <2>3, <2>4, <2>5, <2>6, AskMoves DEF MovesAll
  <1>5. ASSUME NEW d \in Disk, DiskCall(p, d, k) PROVE MovesAll(p)
    <2>1. at'[p] \in {"copy out", "get"} /\ Enter(p, diskSem(d)) /\ disk'[p] = d
      BY <1>1, <1>5 DEF DiskCall, Go
    <2>2. diskSem(d) \in Semaphores
      BY DEF Semaphores
    <2>3. May(p, diskSem(d))'
      BY <2>1, PlacesDiffer DEF May, MayQueue, Doing, DiskSteps
    <2>4. \A l : ~Must(p, l)'
      BY <2>1, PlacesDiffer DEF Must, MustHold, Doing, Critical
    <2> QED
      BY <1>2, <1>3, <2>1, <2>2, <2>3, <2>4, AskMoves DEF MovesAll
  <1> QED
    BY <1>4, <1>5

LEMMA DiskMoves ==
  ASSUME StepTypes, Arguments, Mutexes, NEW p \in Proc,
         CopyOut(p) \/ Get(p) \/ Put(p) \/ CopyIn(p) \/ TermEnd(p)
  PROVE  MovesAll(p)
  <1>1. at = [r \in Proc |-> at[r]] /\ disk = [r \in Proc |-> disk[r]]
    BY DEF StepTypes
  <1>2. UNCHANGED <<resume, served>>
    BY DEF CopyOut, Get, Put, CopyIn, TermEnd, rest
  <1>3. CASE CopyOut(p) \/ Get(p)
    <2>1. /\ at[p] \in {"copy out", "get"} /\ at'[p] \in {"put", "copy in"}
          /\ Has(p, diskSem(disk[p])) /\ UNCHANGED <<queue, disk>>
      BY <1>1, <1>3 DEF CopyOut, Get, At, Go
    <2>2. \A l : May(p, l) => May(p, l)'
      BY <2>1, <1>2, PlacesDiffer DEF May, MayQueue, Doing, DiskSteps, Dead
    <2>3. \A l : Must(p, l)' => l = diskSem(disk[p])
      BY <2>1, <1>2, PlacesDiffer DEF Must, MustHold, Doing, Critical
    <2> QED
      BY <2>1, <2>2, <2>3, StayMoves DEF MovesAll
  <1>4. CASE Put(p) \/ CopyIn(p)
    <2>1. /\ at[p] \in {"put", "copy in"} /\ at'[p] = "user"
          /\ queue' = Leave(queue, diskSem(disk[p]))
      BY <1>1, <1>4 DEF Put, CopyIn, At, Go, Return
    <2>2. disk[p] \in Disk
      BY <2>1, PlacesDiffer DEF Arguments, Doing, DiskSteps
    <2>3. diskSem(disk[p]) \in Semaphores
      BY <2>2 DEF Semaphores
    <2>4. Has(p, diskSem(disk[p]))
      BY <2>1, <2>3, HeldBy DEF Must, MustHold
    <2>5. \A l : May(p, l) => l = diskSem(disk[p])
      BY <2>1, PlacesDiffer DEF May, MayQueue, Doing, DiskSteps, Dead
    <2>6. \A l : ~Must(p, l)'
      BY <2>1, PlacesDiffer DEF Must, MustHold, Doing, Critical
    <2> QED
      BY <2>1, <2>3, <2>4, <2>5, <2>6, LeaveMoves DEF MovesAll
  <1>5. CASE TermEnd(p)
    <2>1. /\ at[p] = "terminal" /\ served /\ at'[p] = "user"
          /\ queue' = Leave(queue, termSem(p))
      BY <1>1, <1>5 DEF TermEnd, At, Go, Return
    <2>2. termSem(p) \in Semaphores
      BY DEF Semaphores
    <2>3. Has(p, termSem(p))
      BY <2>1, <2>2, PlacesDiffer, HeldBy DEF Must, MustHold, Doing
    <2>4. \A l : May(p, l) => l = termSem(p)
      BY <2>1, PlacesDiffer DEF May, MayQueue, Doing, DiskSteps, Dead
    <2>5. \A l : ~Must(p, l)'
      BY <2>1, PlacesDiffer DEF Must, MustHold, Doing, Critical
    <2> QED
      BY <2>1, <2>2, <2>3, <2>4, <2>5, LeaveMoves DEF MovesAll
  <1> QED
    BY <1>3, <1>4, <1>5

LEMMA OtherMoves ==
  ASSUME StepTypes, Mutexes, NEW p \in Proc,
         Terminate(p) \/ TermChar(p) \/ TermPanic(p) \/ \E k \in Key : Use(p, k)
  PROVE  MovesAll(p)
  <1>1. at = [r \in Proc |-> at[r]]
    BY DEF StepTypes
  <1>2. UNCHANGED <<queue, disk, resume, served>>
    BY DEF Terminate, TermChar, TermPanic, Use, rest, proc
  <1>3. at'[p] = at[p] \/ (at[p] = "buried" /\ at'[p] = "ended")
    BY <1>1 DEF Terminate, TermChar, TermPanic, Use, proc, At, Go
  <1>4. \A l : May(p, l) => May(p, l)'
    BY <1>2, <1>3, PlacesDiffer DEF May, MayQueue, Doing, DiskSteps, Dead
  <1>5. \A l : Must(p, l)' => Must(p, l)
    BY <1>2, <1>3, PlacesDiffer DEF Must, MustHold, Doing, Critical
  <1> QED
    BY <1>2, <1>4, <1>5, HeldBy, StayMoves DEF MovesAll

LEMMA MutexesNext ==
  ASSUME StepTypes, Arguments, Mutexes, NEW p \in Proc, Kernel(p) \/ Program(p), Alone(p)
  PROVE  Mutexes'
  <1>1. MovesAll(p)
    BY FaultMoves, ChooseMoves, TapeMoves, BackingMoves, MapMoves, CallMoves, DiskMoves,
       OtherMoves DEF Kernel, Program
  <1>2. served' = served
    BY DEF Kernel, Program, TapeRead, Store, Choose, WriteOut, ReadIn, Map, CopyOut, Put, Get,
           CopyIn, Bury, Terminate, Fault, Use, TermCall, DiskCall, TermChar, TermEnd, TermPanic,
           Die, rest
  <1>3. \A l \in Semaphores : Mutex(l)'
    BY <1>1, <1>2, MutexKept DEF Mutexes, MovesAll
  <1> QED
    BY <1>1, <1>3 DEF Mutexes, MovesAll

---------------------------------------------------------------------------
(* The contents of every place.                                            *)
LEMMA SomePlaces ==
  /\ \A f \in Frame : FrameOf(f) \in Place
  /\ \A p \in Proc : TapeBuffer(p) \in Place
  /\ \A d \in Disk : DiskBuffer(d) \in Place /\ Block(d) \in Place
  /\ \A p \in Proc, k \in Key : Sector(p, k[2]) \in Place
  /\ Key \subseteq Content /\ OLD \in Content /\ \A p \in Proc : File(p) \in Content
  /\ \A p \in Proc : \A i \in 0..TapeBlocks[p] - 1 : <<p, i>> \in Content
  <1>1. ASSUME NEW k \in Key PROVE k[2] \in AllPages
    <2>1. CASE k \in {0} \X Shared
      BY <2>1 DEF AllPages
    <2>2. CASE k \in UNION {{p} \X Page[p] : p \in Proc}
      <3>1. PICK p \in Proc : k \in {p} \X Page[p]
        BY <2>2
      <3>2. k[2] \in Page[p]
        BY <3>1
      <3> QED
        BY <3>2 DEF AllPages
    <2> QED
      BY <2>1, <2>2 DEF Key
  <1>2. \A p \in Proc, k \in Key : Sector(p, k[2]) \in Place
    BY <1>1 DEF Place
  <1>3. \A p \in Proc : \A i \in 0..TapeBlocks[p] - 1 : <<p, i>> \in Content
    BY MemoryAssumption DEF AllPages, Content
  <1> QED
    BY <1>2, <1>3 DEF Place, Content

LEMMA KeepType ==
  ASSUME NEW m \in [Place -> Content], Keep(m)
  PROVE  mem' \in [Place -> Content]
  BY SomePlaces DEF Keep

LEMMA RenewType ==
  ASSUME mem \in [Place -> Content], NEW c, NEW x \in Content, Renew(c, x)
  PROVE  mem' \in [Place -> Content]
  BY SomePlaces, KeepType DEF Renew

LEMMA TransferType ==
  ASSUME mem \in [Place -> Content], NEW from \in Place, NEW to, Transfer(from, to)
  PROVE  mem' \in [Place -> Content]
  BY KeepType DEF Transfer

LEMMA MemoryNext ==
  ASSUME mem \in [Place -> Content], StepTypes, Arguments, NEW p \in Proc, Kernel(p) \/ Program(p)
  PROVE  mem' \in [Place -> Content]
  <1>1. page[p] \in Content /\ block[p] \in 0..TapeBlocks[p] - 1 /\ nextFrame \in Frame
    BY SomePlaces DEF StepTypes
  <1>2. /\ at[p] \in {"copy out", "put", "get", "copy in"} => disk[p] \in Disk
        /\ at[p] = "read in" => page[p] \in Key
    BY PlacesDiffer DEF Arguments, Doing, DiskSteps, Critical
  <1>3. CASE TapeRead(p)
    <2>1. Renew(TapeBuffer(p), <<p, block[p]>>) \/ Keep(mem)
      BY <1>3 DEF TapeRead
    <2>2. <<p, block[p]>> \in Content
      BY <1>1, SomePlaces
    <2> QED
      BY <2>1, <2>2, RenewType, KeepType
  <1>4. CASE Store(p)
    BY <1>4, SomePlaces, TransferType DEF Store
  <1>5. CASE WriteOut(p)
    BY <1>1, <1>5, SomePlaces, TransferType DEF WriteOut
  <1>6. CASE ReadIn(p)
    <2>1. Transfer(Sector(p, page[p][2]), FrameOf(nextFrame)) /\ page[p] \in Key
      BY <1>2, <1>6 DEF ReadIn, At
    <2>2. Sector(p, page[p][2]) \in Place
      BY <2>1, SomePlaces
    <2> QED
      BY <2>1, <2>2, TransferType
  <1>7. CASE CopyOut(p)
    BY <1>7, SomePlaces, RenewType DEF CopyOut
  <1>8. CASE Put(p) \/ Get(p)
    <2>1. disk[p] \in Disk
      BY <1>2, <1>8 DEF Put, Get, At
    <2> QED
      BY <1>8, <2>1, SomePlaces, TransferType DEF Put, Get
  <1>9. CASE CopyIn(p) \/ TermChar(p)
    BY <1>1, <1>9, RenewType DEF CopyIn, TermChar, Write
  <1>10. ASSUME NEW k \in Key, Use(p, k) PROVE mem' \in [Place -> Content]
    BY <1>10, SomePlaces, RenewType DEF Use, Write
  <1>11. CASE \/ Choose(p) \/ Map(p) \/ Bury(p) \/ Terminate(p) \/ TermEnd(p) \/ TermPanic(p)
              \/ Die(p) \/ \E k \in Key : Fault(p, k) \/ TermCall(p, k) \/ \E d \in Disk : DiskCall(p, d, k)
    BY <1>11 DEF Choose, Map, Bury, Terminate, TermEnd, TermPanic, Die, Fault, TermCall, DiskCall
  <1> QED
    BY <1>3, <1>4, <1>5, <1>6, <1>7, <1>8, <1>9, <1>10, <1>11 DEF Kernel, Program

---------------------------------------------------------------------------
(* Tables, TLB and swap pool.                                              *)
LEMMA TablesNext ==
  ASSUME StepTypes, Arguments, NEW p \in Proc, Kernel(p) \/ Program(p)
  PROVE  /\ pte' \in [Key -> Frame \cup {INVALID, GARBAGE}] /\ tlb' \in [Key -> Frame \cup {INVALID}]
         /\ swapPool' \in [Frame -> (Proc \X Key) \cup {FREE}] /\ nextFrame' \in Frame
  <1>1. /\ pte \in [Key -> Frame \cup {INVALID, GARBAGE}] /\ tlb \in [Key -> Frame \cup {INVALID}]
        /\ swapPool \in [Frame -> (Proc \X Key) \cup {FREE}] /\ nextFrame \in Frame
    BY DEF StepTypes
  <1>2. Cleared \in [Key -> Frame \cup {INVALID}]
    BY DEF Cleared
  <1>3. ASSUME NEW k, Access(k) PROVE tlb' \in [Key -> Frame \cup {INVALID}]
    BY <1>1, <1>3 DEF Access
  <1>4. CASE Choose(p)
    <2>1. chooseFrame \in Frame
      <3>1. nextFrame + 1 \in Nat /\ SWAPSIZE \in Nat \ {0}
        BY <1>1, MemoryAssumption DEF Frame
      <3> QED
        BY <3>1 DEF chooseFrame, Frame
    <2> QED
      BY <1>1, <1>2, <1>4, <2>1 DEF Choose
  <1>5. CASE Map(p)
    <2>1. page[p] \in Key
      BY <1>5, PlacesDiffer DEF Arguments, Map, At, Critical
    <2> QED
      BY <1>1, <1>2, <1>5, <2>1 DEF Map
  <1>6. CASE Bury(p)
    BY <1>1, <1>2, <1>6 DEF Bury
  <1>7. CASE CopyOut(p) \/ CopyIn(p) \/ TermChar(p) \/ \E k \in Key : Use(p, k)
    BY <1>1, <1>3, <1>7 DEF CopyOut, CopyIn, TermChar, Use, Write
  <1>8. CASE \/ TapeRead(p) \/ Store(p) \/ WriteOut(p) \/ ReadIn(p) \/ Put(p) \/ Get(p)
             \/ Terminate(p) \/ TermEnd(p) \/ TermPanic(p) \/ Die(p)
             \/ \E k \in Key : Fault(p, k) \/ TermCall(p, k) \/ \E d \in Disk : DiskCall(p, d, k)
    BY <1>1, <1>8 DEF TapeRead, Store, WriteOut, ReadIn, Put, Get, Terminate, TermEnd, TermPanic,
                      Die, Fault, TermCall, DiskCall, paging
  <1> QED
    BY <1>4, <1>5, <1>6, <1>7, <1>8 DEF Kernel, Program

(* Where each process is, and the numbers it has with it.                  *)
LEMMA WhereaboutsNext ==
  ASSUME StepTypes, NEW p \in Proc, Kernel(p) \/ Program(p)
  PROVE  /\ at' \in [Proc -> Places]
         /\ page' \in [Proc -> Key \cup {OLD}] /\ disk' \in [Proc -> Disk \cup {0}]
         /\ resume' \in [Proc -> {"user", "copy out", "copy in", "terminal"}]
  <1>1. /\ at \in [Proc -> Places]
        /\ page \in [Proc -> Key \cup {OLD}] /\ disk \in [Proc -> Disk \cup {0}]
        /\ resume \in [Proc -> {"user", "copy out", "copy in", "terminal"}]
    BY DEF StepTypes
  <1>2. {"user", "put", "copy in", "copy out", "tape", "store", "store last", "get",
          "terminal", "dying", "buried", "ended", "choose", "write out", "read in", "map"} \subseteq Places
    BY DEF Places, Faulting
  <1>3. CASE \/ TapeRead(p) \/ Store(p) \/ Choose(p) \/ WriteOut(p) \/ ReadIn(p)
             \/ Bury(p) \/ Terminate(p) \/ Die(p)
    <2>1. /\ \E x \in {"store", "store last", "tape", "user", "write out", "read in", "map",
                       "buried", "ended", "dying"} : Go(p, x)
          /\ UNCHANGED <<page, disk, resume>>
      BY <1>3 DEF TapeRead, Store, Choose, WriteOut, ReadIn, Bury, Terminate, Die
    <2>2. PICK x \in Places : at' = [at EXCEPT ![p] = x]
      BY <1>2, <2>1 DEF Go
    <2> QED
      BY <1>1, <2>1, <2>2
  <1>4. CASE Map(p)
    <2>1. /\ Go(p, resume[p]) /\ UNCHANGED disk
          /\ resume' = [resume EXCEPT ![p] = "user"]
          /\ page' \in {[page EXCEPT ![p] = OLD], [page EXCEPT ![p] = page[p]]}
      BY <1>4 DEF Map
    <2>4. resume[p] \in Places /\ page[p] \in Key \cup {OLD}
      BY <1>1, <1>2
    <2>2. at' \in [Proc -> Places] /\ resume' \in [Proc -> {"user", "copy out", "copy in", "terminal"}]
      BY <1>1, <2>1, <2>4 DEF Go
    <2>3. page' \in [Proc -> Key \cup {OLD}] /\ disk' \in [Proc -> Disk \cup {0}]
      BY <1>1, <2>1, <2>4
    <2> QED
      BY <2>2, <2>3
  <1>5. ASSUME NEW k \in Key, Fault(p, k)
        PROVE  /\ Go(p, "choose") /\ UNCHANGED disk
               /\ resume' = [resume EXCEPT ![p] = at[p]]
               /\ at[p] \in {"user", "copy out", "copy in", "terminal"}
               /\ page' = [page EXCEPT ![p] = k]
    BY <1>5 DEF Fault, At
  <1>6. CASE \E k \in Key : Fault(p, k)
    BY <1>1, <1>2, <1>5, <1>6 DEF Go
  <1>7. CASE CopyOut(p) \/ Get(p)
    <2>1. Go(p, "put") \/ Go(p, "copy in")
      BY <1>7 DEF CopyOut, Get
    <2>2. UNCHANGED <<page, disk, resume>>
      BY <1>7 DEF CopyOut, Get
    <2> QED
      BY <1>1, <1>2, <2>1, <2>2 DEF Go
  <1>8. CASE Put(p) \/ CopyIn(p) \/ TermEnd(p)
    <2>1. Return(p) /\ UNCHANGED resume
      BY <1>8 DEF Put, CopyIn, TermEnd
    <2> QED
      BY <1>1, <1>2, <2>1 DEF Go, Return
  <1>9. ASSUME NEW k \in Key, TermCall(p, k)
        PROVE  Go(p, "terminal") /\ page' = [page EXCEPT ![p] = k] /\ UNCHANGED <<disk, resume>>
    BY <1>9 DEF TermCall
  <1>10. ASSUME NEW k \in Key, NEW d \in Disk, DiskCall(p, d, k)
         PROVE  /\ Go(p, "copy out") \/ Go(p, "get")
                /\ page' = [page EXCEPT ![p] = k] /\ disk' = [disk EXCEPT ![p] = d]
                /\ UNCHANGED resume
    BY <1>10 DEF DiskCall
  <1>11. CASE \E k \in Key : TermCall(p, k) \/ \E d \in Disk : DiskCall(p, d, k)
    <2>1. PICK k \in Key : TermCall(p, k) \/ \E d \in Disk : DiskCall(p, d, k)
      BY <1>11
    <2>2. PICK x \in Places : at' = [at EXCEPT ![p] = x]
      BY <1>2, <1>9, <1>10, <2>1 DEF Go
    <2>3. /\ page' = [page EXCEPT ![p] = k] /\ UNCHANGED resume
          /\ disk' = disk \/ \E d \in Disk : disk' = [disk EXCEPT ![p] = d]
      BY <1>9, <1>10, <2>1
    <2> QED
      BY <1>1, <2>2, <2>3
  <1>12. CASE (\E k \in Key : Use(p, k)) \/ TermChar(p) \/ TermPanic(p)
    BY <1>1, <1>12 DEF Use, TermChar, TermPanic, proc
  <1> QED
    BY <1>3, <1>4, <1>6, <1>7, <1>8, <1>11, <1>12 DEF Kernel, Program

(* The loop over the tape stays on it.                                     *)
LEMMA BlocksNext ==
  ASSUME StepTypes, NEW p \in Proc, Kernel(p) \/ Program(p), Alone(p)
  PROVE  /\ block' \in [Proc -> Nat]
         /\ \A r \in Proc : /\ block'[r] \in 0..TapeBlocks[r] - 1
                            /\ at'[r] = "store" => block'[r] + 1 < TapeBlocks[r]
  <1>1. /\ block \in [Proc -> Nat] /\ at = [r \in Proc |-> at[r]]
        /\ \A r \in Proc : /\ block[r] \in 0..TapeBlocks[r] - 1
                           /\ at[r] = "store" => block[r] + 1 < TapeBlocks[r]
        /\ resume[p] \in {"user", "copy out", "copy in", "terminal"}
    BY DEF StepTypes
  <1>2. \A r \in Proc : TapeBlocks[r] \in Nat \ {0}
    BY MemoryAssumption
  <1>3. \A r \in Proc \ {p} : at'[r] = at[r]
    BY DEF Alone
  <1>9. block[p] \in Nat /\ TapeBlocks[p] \in Nat \ {0} /\ block[p] < TapeBlocks[p]
    <2>1. block[p] \in Nat /\ block[p] \in 0..TapeBlocks[p] - 1
      BY <1>1
    <2>2. TapeBlocks[p] \in Nat \ {0}
      BY <1>2
    <2> QED
      BY <2>1, <2>2
  <1>4. CASE TapeRead(p)
    <2>1. /\ block' = block
          /\ at'[p] = "store" => block[p] # TapeBlocks[p] - 1
      BY <1>1, <1>4 DEF TapeRead, Go
    <2>2. at'[p] = "store" => block[p] + 1 < TapeBlocks[p]
      BY <1>9, <2>1
    <2> QED
      BY <1>1, <1>3, <2>1, <2>2
  <1>5. CASE Store(p)
    <2>1. at'[p] # "store"
      BY <1>1, <1>5 DEF Store, Go
    <2>2. \/ block' = [block EXCEPT ![p] = 0]
          \/ at[p] = "store" /\ block' = [block EXCEPT ![p] = block[p] + 1]
      BY <1>5 DEF Store, At
    <2>3. /\ block[p] \in Nat /\ TapeBlocks[p] \in Nat \ {0}
          /\ at[p] = "store" => block[p] + 1 < TapeBlocks[p]
      BY <1>1, <1>2
    <2>5. PICK b \in Nat : block' = [block EXCEPT ![p] = b] /\ b < TapeBlocks[p]
      BY <2>2, <2>3
    <2>7. b \in 0..TapeBlocks[p] - 1
      BY <2>3, <2>5
    <2>8. block \in [Proc -> Nat]
      BY <1>1
    <2>6. block' \in [Proc -> Nat] /\ block'[p] \in 0..TapeBlocks[p] - 1
      BY <2>5, <2>7, <2>8
    <2>4. \A r \in Proc \ {p} : block'[r] = block[r]
      BY <1>1, <2>2
    <2> QED
      BY <1>1, <1>3, <2>1, <2>4, <2>6
  <1>6. CASE block' = block /\ at'[p] # "store"
    BY <1>1, <1>3, <1>6
  <1>7. CASE \/ Choose(p) \/ WriteOut(p) \/ ReadIn(p) \/ Map(p) \/ CopyOut(p) \/ Put(p) \/ Get(p)
             \/ CopyIn(p) \/ Bury(p) \/ Terminate(p) \/ TermEnd(p) \/ Die(p)
             \/ \E k \in Key : Fault(p, k) \/ TermCall(p, k) \/ \E d \in Disk : DiskCall(p, d, k)
    <2>1. block' = block
      BY <1>7 DEF Choose, WriteOut, ReadIn, Map, CopyOut, Put, Get, CopyIn, Bury, Terminate,
                  TermEnd, Die, Fault, TermCall, DiskCall
    <2>2. \E x \in {"write out", "read in", "map", resume[p], "put", "user", "copy in", "copy out",
                    "buried", "ended", "dying", "choose", "terminal", "get"} : Go(p, x)
      BY <1>7 DEF Choose, WriteOut, ReadIn, Map, CopyOut, Put, Get, CopyIn, Bury, Terminate,
                  TermEnd, Die, Fault, TermCall, DiskCall, Return
    <2>3. at'[p] # "store"
      BY <1>1, <2>2 DEF Go
    <2> QED
      BY <1>6, <2>1, <2>3
  <1>8. CASE (\E k \in Key : Use(p, k)) \/ TermChar(p) \/ TermPanic(p)
    <2>1. block' = block /\ at' = at
      BY <1>8 DEF Use, TermChar, TermPanic, proc
    <2> QED
      BY <1>1, <2>1
  <1> QED
    BY <1>4, <1>5, <1>7, <1>8 DEF Kernel, Program

LEMMA ArgumentsNext ==
  ASSUME StepTypes, Arguments, NEW p \in Proc, Kernel(p) \/ Program(p), Alone(p)
  PROVE  Arguments'
  <1> DEFINE w == at'[p]
             y == resume'[p]
  <1>1. /\ at = [r \in Proc |-> at[r]] /\ disk = [r \in Proc |-> disk[r]]
        /\ page = [r \in Proc |-> page[r]] /\ resume = [r \in Proc |-> resume[r]]
        /\ resume[p] \in {"user", "copy out", "copy in", "terminal"}
    BY DEF StepTypes
  <1>2. /\ Doing(at[p], resume[p]) \in DiskSteps => disk[p] \in Disk
        /\ at[p] \in Faulting \cup DiskSteps \cup {"terminal"} => page[p] \in Key
    BY DEF Arguments
  <1>3. SUFFICES /\ Doing(w, y) \in DiskSteps => disk'[p] \in Disk
                 /\ w \in Faulting \cup DiskSteps \cup {"terminal"} => page'[p] \in Key
    BY DEF Arguments, Alone
  <1>4. CASE TapeRead(p) \/ Store(p) \/ Bury(p) \/ Terminate(p) \/ Die(p)
             \/ Put(p) \/ CopyIn(p) \/ TermEnd(p)
    <2>1. \E x \in {"store", "store last", "tape", "user", "buried", "ended", "dying"} : Go(p, x)
      BY <1>4 DEF TapeRead, Store, Bury, Terminate, Die, Put, CopyIn, TermEnd, Return
    <2>2. w \in {"store", "store last", "tape", "user", "buried", "ended", "dying"}
      BY <1>1, <2>1 DEF Go
    <2> QED
      BY <2>2, PlacesDiffer DEF Doing, DiskSteps
  <1>5. CASE Choose(p) \/ WriteOut(p) \/ ReadIn(p)
    <2>1. /\ at[p] \in {"choose", "write out", "read in"} /\ w \in {"write out", "read in", "map"}
          /\ UNCHANGED <<page, disk, resume>>
      BY <1>1, <1>5 DEF Choose, WriteOut, ReadIn, Go, At
    <2> QED
      BY <1>2, <2>1 DEF Doing, Faulting
  <1>6. CASE Map(p)
    <2>1. /\ at[p] = "map" /\ w = resume[p] /\ y = "user" /\ disk' = disk
          /\ resume[p] # "user" => page'[p] = page[p]
      BY <1>1, <1>6 DEF Map, Go, At
    <2> QED
      BY <1>1, <1>2, <2>1, PlacesDiffer DEF Doing, Critical, DiskSteps
  <1>7. ASSUME NEW k \in Key, Fault(p, k)
        PROVE  w = "choose" /\ y = at[p] /\ disk' = disk /\ page'[p] \in Key
                 /\ at[p] \in {"user", "copy out", "copy in", "terminal"}
    BY <1>1, <1>7 DEF Fault, Go, At
  <1>8. CASE \E k \in Key : Fault(p, k)
    BY <1>2, <1>7, <1>8, PlacesDiffer DEF Doing
  <1>9. CASE CopyOut(p) \/ Get(p)
    <2>1. at[p] \in {"copy out", "get"} /\ w \in {"put", "copy in"} /\ UNCHANGED <<page, disk>>
      BY <1>1, <1>9 DEF CopyOut, Get, Go, At
    <2> QED
      BY <1>2, <2>1, PlacesDiffer DEF Doing, DiskSteps
  <1>10. ASSUME NEW k \in Key, TermCall(p, k) \/ \E d \in Disk : DiskCall(p, d, k)
         PROVE  /\ page'[p] \in Key /\ w \in {"terminal", "copy out", "get"}
                /\ w # "terminal" => disk'[p] \in Disk
    BY <1>1, <1>10 DEF TermCall, DiskCall, Go
  <1>11. CASE \E k \in Key : TermCall(p, k) \/ \E d \in Disk : DiskCall(p, d, k)
    BY <1>10, <1>11, PlacesDiffer DEF Doing, DiskSteps
  <1>12. CASE (\E k \in Key : Use(p, k)) \/ TermChar(p) \/ TermPanic(p)
    <2>1. UNCHANGED <<at, page, disk, resume>>
      BY <1>12 DEF Use, TermChar, TermPanic, proc
    <2> QED
      BY <1>2, <2>1
  <1> QED
    BY <1>4, <1>5, <1>6, <1>8, <1>9, <1>11, <1>12 DEF Kernel, Program

---------------------------------------------------------------------------
LEMMA ProcCount == IsFiniteSet(Proc) /\ Cardinality(Proc) = MAXUSERPROC
  BY FS_Interval, MemoryAssumption DEF Proc

(* A process ends once, with one V of masterSem; test() takes them.        *)
LEMMA DeathsNext ==
  ASSUME StepTypes, DeathsCounted, [Next]_vars
  PROVE  DeathsCounted'
  <1>1. /\ masterSem \in Nat /\ joined \in Nat /\ masterSem + joined = Cardinality(Ended)
        /\ at = [r \in Proc |-> at[r]]
    BY DEF DeathsCounted, StepTypes
  <1>2. IsFiniteSet(Ended)
    BY ProcCount, FS_Subset DEF Ended
  <1>3. ASSUME NEW p \in Proc, Terminate(p) PROVE DeathsCounted'
    <2>1. at[p] = "buried" /\ at' = [at EXCEPT ![p] = "ended"]
          /\ masterSem' = masterSem + 1 /\ joined' = joined
      BY <1>3 DEF Terminate, At, Go
    <2>2. p \notin Ended /\ Ended' = Ended \cup {p}
      BY <1>1, <2>1 DEF Ended
    <2>3. Cardinality(Ended') = Cardinality(Ended) + 1
      BY <1>2, <2>2, FS_AddElement
    <2> QED
      BY <1>1, <2>1, <2>3 DEF DeathsCounted
  <1>4. CASE Join
    <2>1. /\ joined < MAXUSERPROC /\ masterSem > 0
          /\ masterSem' = masterSem - 1 /\ joined' = joined + 1 /\ at' = at
      BY <1>4 DEF Join, proc
    <2>2. Ended' = Ended
      BY <2>1 DEF Ended
    <2>3. masterSem' \in Nat /\ joined' \in Nat /\ masterSem' + joined' = masterSem + joined
      BY <1>1, <2>1
    <2> QED
      BY <1>1, <2>2, <2>3 DEF DeathsCounted
  <1>5. CASE Halted \/ UNCHANGED vars
    <2>1. UNCHANGED <<at, masterSem, joined>>
      BY <1>5 DEF Halted, vars, proc, test
    <2> QED
      BY <1>1, <2>1 DEF DeathsCounted, Ended
  <1>6. ASSUME NEW p \in Proc, Kernel(p) \/ Program(p), ~Terminate(p) PROVE DeathsCounted'
    <2>1. UNCHANGED <<masterSem, joined>>
      BY <1>6 DEF Kernel, Program, TapeRead, Store, Choose, WriteOut, ReadIn, Map, CopyOut, Put,
                  Get, CopyIn, Bury, Fault, Use, TermCall, DiskCall, TermChar, TermEnd, TermPanic,
                  Die, test
    <2>2. UNCHANGED at \/ \E x : Go(p, x) /\ x # "ended" /\ at[p] # "ended"
      <3>1. CASE (\E k \in Key : Use(p, k)) \/ TermChar(p) \/ TermPanic(p)
        BY <3>1 DEF Use, TermChar, TermPanic, proc
      <3>2. CASE Map(p)
        <4>1. Go(p, resume[p]) /\ at[p] = "map" /\ resume[p] # "ended"
          BY <3>2 DEF Map, At, StepTypes
        <4> QED
          BY <4>1
      <3>3. CASE \/ TapeRead(p) \/ Store(p) \/ Choose(p) \/ WriteOut(p) \/ ReadIn(p) \/ CopyOut(p)
                 \/ Put(p) \/ Get(p) \/ CopyIn(p) \/ Bury(p) \/ TermEnd(p) \/ Die(p)
                 \/ \E k \in Key : Fault(p, k) \/ TermCall(p, k) \/ \E d \in Disk : DiskCall(p, d, k)
        <4>1. \E x \in {"store", "store last", "tape", "user", "write out", "read in", "map", "put",
                        "copy in", "copy out", "buried", "dying", "choose", "terminal", "get"} : Go(p, x)
          BY <3>3 DEF TapeRead, Store, Choose, WriteOut, ReadIn, CopyOut, Put, Get, CopyIn, Bury,
                      TermEnd, Die, Fault, TermCall, DiskCall, Return
        <4>2. at[p] # "ended"
          BY <3>3 DEF TapeRead, Store, Choose, WriteOut, ReadIn, CopyOut, Put, Get, CopyIn, Bury,
                      TermEnd, Die, Fault, TermCall, DiskCall, At
        <4> QED
          BY <4>1, <4>2
      <3> QED
        BY <1>6, <3>1, <3>2, <3>3 DEF Kernel, Program
    <2>3. Ended' = Ended
      BY <1>1, <2>2 DEF Ended, Go
    <2> QED
      BY <1>1, <2>1, <2>3 DEF DeathsCounted
  <1> QED
    BY <1>3, <1>4, <1>5, <1>6 DEF Next

---------------------------------------------------------------------------
LEMMA InitTypes ==
  ASSUME Init
  PROVE  TInv
  <1>1. mem \in [Place -> Content]
    <2>1. \A c \in Place : c[1] = "backing" => <<c[2], c[3]>> \in Content
      <3>1. \A f \in Frame : FrameOf(f)[1] # "backing"
        BY DEF FrameOf
      <3>2. \A i : Buffer(i)[1] # "backing" /\ Block(i)[1] # "backing"
        BY DEF Buffer, Block
      <3>3. \A p \in Proc, pg \in AllPages : Sector(p, pg)[2] = p /\ Sector(p, pg)[3] = pg
        BY DEF Sector
      <3>4. \A p \in Proc, pg \in AllPages : <<p, pg>> \in Content
        BY DEF Content
      <3> QED
        BY <3>1, <3>2, <3>3, <3>4 DEF Place, TapeBuffer, DiskBuffer
    <2>2. mem = [c \in Place |-> IF c[1] = "backing" /\ c \notin Unloaded
                                  THEN <<c[2], c[3]>> ELSE OLD]
      BY DEF Init
    <2> QED
      BY <2>1, <2>2, SomePlaces
  <1>2. StepTypes
    <2>1. 0 \in Frame
      BY MemoryAssumption DEF Frame
    <2>2. \A p \in Proc : TapeBlocks[p] \in Nat \ {0}
      BY MemoryAssumption
    <2>3. /\ pte \in [Key -> Frame \cup {INVALID, GARBAGE}] /\ tlb \in [Key -> Frame \cup {INVALID}]
          /\ swapPool \in [Frame -> (Proc \X Key) \cup {FREE}] /\ nextFrame \in Frame
      BY <2>1 DEF Init
    <2>4. /\ at \in [Proc -> Places] /\ page \in [Proc -> Key \cup {OLD}]
          /\ disk \in [Proc -> Disk \cup {0}]
          /\ resume \in [Proc -> {"user", "copy out", "copy in", "terminal"}]
      BY DEF Init, Places
    <2>5. /\ block \in [Proc -> Nat]
          /\ \A p \in Proc : block[p] = 0 /\ at[p] = "tape"
      BY DEF Init
    <2>6. \A p \in Proc : block[p] \in 0..TapeBlocks[p] - 1
      BY <2>2, <2>5
    <2> QED
      BY <2>3, <2>4, <2>5, <2>6 DEF StepTypes
  <1>3. \A p \in Proc : at[p] = "tape" /\ disk[p] = 0
    BY DEF Init
  <1>4. Arguments
    BY <1>3, PlacesDiffer DEF Arguments, Doing, DiskSteps
  <1>5. Mutexes
    <2>1. DOMAIN queue = Semaphores /\ \A l \in Semaphores : queue[l] = <<>>
      BY DEF Init, Semaphores
    <2>2. \A p \in Proc, l \in Semaphores : ~Must(p, l)
      BY <1>3, PlacesDiffer DEF Must, MustHold, Doing, Critical
    <2>3. <<>> \in Seq(Proc)
      OBVIOUS
    <2> QED
      BY <2>1, <2>2, <2>3, EmptyQueue DEF Mutexes, Mutex
  <1>6. DeathsCounted
    <2>1. Ended = {}
      BY <1>3 DEF Ended
    <2> QED
      BY <2>1, FS_EmptySet DEF Init, DeathsCounted
  <1> QED
    BY <1>1, <1>2, <1>4, <1>5, <1>6 DEF TInv

LEMMA TypesNext ==
  ASSUME TInv, [Next]_vars
  PROVE  TInv'
  <1> USE DEF TInv
  <1>1. DeathsCounted'
    BY DeathsNext
  <1>2. ASSUME NEW p \in Proc, Kernel(p) \/ Program(p) PROVE TInv'
    <2>1. Alone(p)
      BY <1>2, LocatedAlone DEF StepTypes, Located
    <2>2. StepTypes'
      BY <1>2, <2>1, TablesNext, WhereaboutsNext, BlocksNext DEF StepTypes
    <2> QED
      BY <1>1, <1>2, <2>1, <2>2, MemoryNext, ArgumentsNext, MutexesNext
  <1>3. CASE Join \/ Halted \/ UNCHANGED vars
    <2>1. UNCHANGED <<mem, paging, queue, proc, served>>
      BY <1>3 DEF Join, Halted, vars, rest
    <2> QED
      BY <1>1, <2>1 DEF StepTypes, Arguments, Mutexes, Mutex, May, Must, Has, paging, proc
  <1> QED
    BY <1>2, <1>3 DEF Next

(* Every variable keeps its type, with shared pages too: no process is in  *)
(* the queue of a semaphore twice, the loop over the tape stays on it, and *)
(* masterSem counts no death twice (vmIOsupport.c, initProc.c).            *)
THEOREM TypeCorrect == Spec => []TypeOK
  <1>1. Init => TInv
    BY InitTypes
  <1>2. TInv /\ [Next]_vars => TInv'
    BY TypesNext
  <1>3. TInv => TypeOK
    <2> SUFFICES ASSUME TInv PROVE TypeOK
      OBVIOUS
    <2>1. StepTypes /\ Mutexes /\ DeathsCounted /\ mem \in [Place -> Content]
      BY DEF TInv
    <2>2. IsFiniteSet(Proc) /\ Cardinality(Ended) <= MAXUSERPROC
      BY ProcCount, FS_Subset DEF Ended
    <2>3. masterSem \in 0..MAXUSERPROC /\ joined \in 0..MAXUSERPROC
      BY <2>1, <2>2, MemoryAssumption DEF DeathsCounted
    <2>4. \A l \in DOMAIN queue : queue[l] \in Seq(Proc) /\ IsInjective(queue[l])
      BY <2>1 DEF Mutexes, Mutex
    <2> QED
      BY <2>1, <2>3, <2>4 DEF TypeOK, StepTypes, Places
  <1> QED
    BY <1>1, <1>2, <1>3, PTL DEF Spec
==========================================================================
