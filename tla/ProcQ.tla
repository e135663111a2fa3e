------------------------------ MODULE ProcQ ------------------------------
(***************************************************************************)
(* The process queues of pcb.c as they lie in memory: doubly linked        *)
(* circular lists, each known by a pointer to its tail, one of them the    *)
(* free list.  The callers' part of the contract is that a process goes    *)
(* into a queue only when it is in none.                                   *)
(***************************************************************************)
EXTENDS Links, FiniteSets

CONSTANTS PCB,        \* the blocks of procTable
          Queue,      \* the queues, each a variable that holds a tail pointer
          pcbList_h,  \* the one that is the free list
          NULL

ProcQAssumption ==
  IsFiniteSet(PCB) /\ PCB # {} /\ NULL \notin PCB /\ pcbList_h \in Queue

VARIABLES p_next, p_prev,   \* the links of each block
          tp,               \* the tail pointer of each queue
          ret               \* what the last call returned

vars == <<p_next, p_prev, tp, ret>>

MAXPROC == Cardinality(PCB)

(* The blocks of queue q from its head to its tail: what the loop of       *)
(* outProcQ passes.                                                        *)
Contents(q) ==
  IF tp[q] = NULL
    THEN <<>>
    ELSE LET w == Walk(p_next, p_next[tp[q]], NULL, MAXPROC)
             ends == {i \in 1..MAXPROC : w[i] = tp[q]}
         IN  SubSeq(w, 1, IF ends = {} THEN MAXPROC ELSE Min(ends))

Unlinked(p) == \A q \in Queue : p \notin Range(Contents(q))

(* initPcbs frees the blocks of procTable in their order.                  *)
Init ==
  \E procTable \in Bijection(1..MAXPROC, PCB) :
    LET After(i) == procTable[IF i = MAXPROC THEN 1 ELSE i + 1] IN
    /\ p_next = [p \in PCB |-> After(CHOOSE i \in 1..MAXPROC : procTable[i] = p)]
    /\ p_prev = [p \in PCB |-> CHOOSE o \in PCB : p_next[o] = p]
    /\ tp = [q \in Queue |-> IF q = pcbList_h THEN procTable[MAXPROC] ELSE NULL]
    /\ ret = NULL

(* insertProcQ: p becomes the tail, between the old tail and the head.     *)
Link(q, p) ==
  /\ IF tp[q] = NULL
       THEN /\ p_next' = [p_next EXCEPT ![p] = p]
            /\ p_prev' = [p_prev EXCEPT ![p] = p]
       ELSE LET head == p_next[tp[q]] IN
            /\ p_next' = [p_next EXCEPT ![p] = head, ![tp[q]] = p]
            /\ p_prev' = [p_prev EXCEPT ![head] = p, ![p] = tp[q]]
  /\ tp' = [tp EXCEPT ![q] = p]

InsertProcQ(q, p) ==
  /\ Unlinked(p)
  /\ Link(q, p)
  /\ UNCHANGED ret

(* Slips: the tail pointer moved to the successor, p's own p_next kept.    *)
UnlinkTailForward(q, p) ==
  /\ p = tp[q]
  /\ IF p_next[p] = p
       THEN tp' = [tp EXCEPT ![q] = NULL] /\ UNCHANGED <<p_next, p_prev>>
       ELSE /\ p_next' = [p_next EXCEPT ![p_prev[p]] = p_next[p]]
            /\ p_prev' = [p_prev EXCEPT ![p_next[p]] = p_prev[p]]
            /\ tp' = [tp EXCEPT ![q] = p_next[p]]
  /\ ret' = p

UnlinkMiddleHalf(q, p) ==
  /\ p # tp[q] /\ p \in Range(Contents(q))
  /\ p_next' = [p_next EXCEPT ![p_prev[p]] = p_next[p]]
  /\ p_prev' = [p_prev EXCEPT ![p_next[p]] = p_prev[p], ![p] = NULL]
  /\ ret' = p
  /\ UNCHANGED tp

(* The two cases of outProcQ that unlink p, and the one that does not.     *)
(* Only from the middle are p's own links cleared.                         *)
UnlinkTail(q, p) ==
  /\ p = tp[q]
  /\ IF p_next[p] = p
       THEN tp' = [tp EXCEPT ![q] = NULL] /\ UNCHANGED <<p_next, p_prev>>
       ELSE /\ p_next' = [p_next EXCEPT ![p_prev[p]] = p_next[p]]
            /\ p_prev' = [p_prev EXCEPT ![p_next[p]] = p_prev[p]]
            /\ tp' = [tp EXCEPT ![q] = p_prev[p]]
  /\ ret' = p

UnlinkMiddle(q, p) ==
  /\ p # tp[q] /\ p \in Range(Contents(q))
  /\ p_next' = [p_next EXCEPT ![p_prev[p]] = p_next[p], ![p] = NULL]
  /\ p_prev' = [p_prev EXCEPT ![p_next[p]] = p_prev[p], ![p] = NULL]
  /\ ret' = p
  /\ UNCHANGED tp

NotFound(q, p) ==
  /\ p \notin Range(Contents(q))
  /\ ret' = NULL
  /\ UNCHANGED <<p_next, p_prev, tp>>

OutProcQ(q, p) == UnlinkTail(q, p) \/ UnlinkMiddle(q, p) \/ NotFound(q, p)

(* removeProcQ: outProcQ of the head.                                      *)
RemoveProcQ(q) ==
  IF tp[q] = NULL
    THEN ret' = NULL /\ UNCHANGED <<p_next, p_prev, tp>>
    ELSE OutProcQ(q, p_next[tp[q]])

HeadProcQ(q) ==
  /\ ret' = IF tp[q] = NULL THEN NULL ELSE p_next[tp[q]]
  /\ UNCHANGED <<p_next, p_prev, tp>>

(* allocPcb is removeProcQ of the free list and clears the links of what   *)
(* it returns; freePcb clears the links and is insertProcQ.  A list of one *)
(* leaves its only block linked to itself, for allocPcb to clear.          *)
AllocPcb ==
  IF tp[pcbList_h] = NULL
    THEN ret' = NULL /\ UNCHANGED <<p_next, p_prev, tp>>
    ELSE LET p == p_next[tp[pcbList_h]]
         IN  /\ p_next' = [p_next EXCEPT ![p_prev[p]] = p_next[p], ![p] = NULL]
             /\ p_prev' = [p_prev EXCEPT ![p_next[p]] = p_prev[p], ![p] = NULL]
             /\ tp' = [tp EXCEPT ![pcbList_h] = IF p = @ THEN NULL ELSE @]
             /\ ret' = p

FreePcb(p) == InsertProcQ(pcbList_h, p)

Next ==
  \/ AllocPcb
  \/ \E p \in PCB : FreePcb(p)
  \/ \E q \in Queue \ {pcbList_h} :
       \/ RemoveProcQ(q)
       \/ HeadProcQ(q)
       \/ \E p \in PCB : InsertProcQ(q, p) \/ OutProcQ(q, p)

Spec == Init /\ [][Next]_vars
--------------------------------------------------------------------------
(* The variables have their types, and the two links of a block are null   *)
(* together: a block that outProcQ has cleared keeps no way back.          *)
TypeOK ==
  /\ p_next \in [PCB -> PCB \cup {NULL}] /\ p_prev \in [PCB -> PCB \cup {NULL}]
  /\ tp \in [Queue -> PCB \cup {NULL}]
  /\ ret \in PCB \cup {NULL}
  /\ \A p \in PCB : p_next[p] = NULL <=> p_prev[p] = NULL

(* Along a queue every block is its successor's predecessor, the tail's    *)
(* successor is the head, and no two queues share a block: outProcQ, which *)
(* follows both links, tears no list open and its loop ends at the tail.   *)
Woven ==
  /\ \A q \in Queue : \A p \in Range(Contents(q)) :
       p_prev[p_next[p]] = p /\ p_next[p_prev[p]] = p
  /\ \A q \in Queue : tp[q] # NULL => tp[q] \in Range(Contents(q))
  /\ \A q, r \in Queue : q # r => Range(Contents(q)) \cap Range(Contents(r)) = {}
==========================================================================
