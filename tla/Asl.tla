------------------------------- MODULE Asl -------------------------------
(***************************************************************************)
(* The active semaphore list of asl.c: MAXPROC + 1 descriptors, linked by  *)
(* s_next into the active list, in the order of the semaphores' addresses  *)
(* behind a dummy head, or into the stack of free descriptors.  A queue of *)
(* processes is a sequence here; ProcQ.tla is its links.  The callers' part*)
(* of the contract is that a process blocks when it is in no queue.        *)
(***************************************************************************)
EXTENDS Links, FiniteSets, SequencesExt

CONSTANTS PCB,    \* the process blocks; MAXPROC of them
          Addr    \* the semaphores' addresses; 0 is the null address

AslAssumption ==
  IsFiniteSet(PCB) /\ PCB # {} /\ PCB \cap Int = {} /\ Addr \subseteq Nat \ {0}

MAXPROC == Cardinality(PCB)
Semd == 1..MAXPROC + 1            \* semdTable
NULL == 0                         \* also FALSE, as in C
TRUE_ == 1

VARIABLES s_next, s_semAdd, s_procQ,   \* the descriptors
          semdList_h,                  \* the top of the free stack
          activeSemdList_h,            \* the dummy head of the active list
          p_semAdd,                    \* the field of each process block
          ret                          \* what the last call returned

semds == <<s_next, s_semAdd, s_procQ, semdList_h>>
vars  == <<semds, activeSemdList_h, p_semAdd, ret>>

(* The descriptors on the list that starts with d.                         *)
From(d) == Linked(s_next, d, NULL, MAXPROC + 1)

Active == Range(From(s_next[activeSemdList_h]))
Free   == Range(From(semdList_h))

(* initASL: the stack is filled in the order of semdTable, and its top     *)
(* becomes the dummy.                                                      *)
Init ==
  /\ s_next = [d \in Semd |-> IF d = MAXPROC + 1 THEN NULL ELSE d - 1]
  /\ s_semAdd = [d \in Semd |-> NULL]
  /\ s_procQ = [d \in Semd |-> <<>>]
  /\ semdList_h = MAXPROC
  /\ activeSemdList_h = MAXPROC + 1
  /\ p_semAdd = [p \in PCB |-> NULL]
  /\ ret = NULL

(* Slip: <= for <.                                                         *)
GetPrevSemdPast(a) ==
  LET from[d \in Semd] ==
        IF s_next[d] # NULL /\ s_semAdd[s_next[d]] <= a THEN from[s_next[d]] ELSE d
  IN  from[activeSemdList_h]

(* getPrevSemd: the last descriptor before address a, or the dummy.        *)
GetPrevSemd(a) ==
  LET from[d \in Semd] ==
        IF s_next[d] # NULL /\ s_semAdd[s_next[d]] < a THEN from[s_next[d]] ELSE d
  IN  from[activeSemdList_h]

(* The test after each search: the descriptor behind prev is a's.          *)
Owns(prev, a) == s_next[prev] # NULL /\ s_semAdd[s_next[prev]] = a

Blocked(p) == \E d \in Active : p \in Range(s_procQ[d])

(* insertBlocked on a semaphore that has a descriptor ...                  *)
JoinSemd(a, p) ==
  LET prev == GetPrevSemd(a) IN
  /\ Owns(prev, a) /\ ~Blocked(p)
  /\ s_procQ' = [s_procQ EXCEPT ![s_next[prev]] = Append(@, p)]
  /\ p_semAdd' = [p_semAdd EXCEPT ![p] = a]
  /\ ret' = NULL
  /\ UNCHANGED <<s_next, s_semAdd, semdList_h>>

(* ... on one that gets the top of the free stack, woven in behind the     *)
(* descriptor the search ended at ...                                      *)
AllocSemd(a, p) ==
  LET prev == GetPrevSemd(a)
      newSemd == semdList_h IN
  /\ ~Owns(prev, a) /\ newSemd # NULL /\ ~Blocked(p)
  /\ semdList_h' = s_next[newSemd]
  /\ s_next' = [s_next EXCEPT ![newSemd] = s_next[prev], ![prev] = newSemd]
  /\ s_semAdd' = [s_semAdd EXCEPT ![newSemd] = a]
  /\ s_procQ' = [s_procQ EXCEPT ![newSemd] = <<p>>]
  /\ p_semAdd' = [p_semAdd EXCEPT ![p] = a]
  /\ ret' = NULL

(* ... and with the stack empty: nothing has changed, p is anywhere.       *)
NoSemd(a) ==
  /\ ~Owns(GetPrevSemd(a), a) /\ semdList_h = NULL
  /\ ret' = TRUE_
  /\ UNCHANGED <<semds, p_semAdd>>

InsertBlocked(a, p) ==
  /\ JoinSemd(a, p) \/ AllocSemd(a, p) \/ NoSemd(a)
  /\ UNCHANGED activeSemdList_h

(* What removeBlocked and outBlocked do once a process is taken from the   *)
(* queue of the descriptor behind prev and q is left: an empty queue gives *)
(* its descriptor back.                                                    *)
LeaveBehind(prev, q) ==
  LET d == s_next[prev] IN
  /\ s_procQ' = [s_procQ EXCEPT ![d] = q]
  /\ IF q = <<>>
       THEN /\ s_next' = [s_next EXCEPT ![prev] = s_next[d], ![d] = semdList_h]
            /\ semdList_h' = d
       ELSE UNCHANGED <<s_next, semdList_h>>
  /\ UNCHANGED s_semAdd

RemoveBlocked(a) ==
  LET prev == GetPrevSemd(a) IN
  /\ IF Owns(prev, a)
       THEN /\ ret' = Head(s_procQ[s_next[prev]])
            /\ LeaveBehind(prev, Tail(s_procQ[s_next[prev]]))
       ELSE ret' = NULL /\ UNCHANGED semds
  /\ UNCHANGED <<activeSemdList_h, p_semAdd>>

(* Slip: the head of the queue taken instead of p.                         *)
OutBlockedHead(p) ==
  LET prev == GetPrevSemd(p_semAdd[p]) IN
  /\ IF Owns(prev, p_semAdd[p]) /\ p \in Range(s_procQ[s_next[prev]])
       THEN /\ ret' = p
            /\ LeaveBehind(prev, Tail(s_procQ[s_next[prev]]))
       ELSE ret' = NULL /\ UNCHANGED semds
  /\ UNCHANGED <<activeSemdList_h, p_semAdd>>

(* outBlocked trusts p_semAdd, which nothing here resets: p may have left  *)
(* that semaphore long ago.                                                *)
OutBlocked(p) ==
  LET prev == GetPrevSemd(p_semAdd[p]) IN
  /\ IF Owns(prev, p_semAdd[p]) /\ p \in Range(s_procQ[s_next[prev]])
       THEN /\ ret' = p
            /\ LeaveBehind(prev, RemoveFirst(s_procQ[s_next[prev]], p))
       ELSE ret' = NULL /\ UNCHANGED semds
  /\ UNCHANGED <<activeSemdList_h, p_semAdd>>

HeadBlocked(a) ==
  LET prev == GetPrevSemd(a) IN
  /\ ret' = IF Owns(prev, a) THEN Head(s_procQ[s_next[prev]]) ELSE NULL
  /\ UNCHANGED <<semds, activeSemdList_h, p_semAdd>>

Next ==
  \/ \E a \in Addr, p \in PCB : InsertBlocked(a, p)
  \/ \E a \in Addr : RemoveBlocked(a)
  \/ \E p \in PCB : OutBlocked(p)
  \/ \E a \in Addr : HeadBlocked(a)

Spec == Init /\ [][Next]_vars
--------------------------------------------------------------------------
(* The variables have their types, and a descriptor with processes in its  *)
(* queue has the address of a semaphore.                                   *)
TypeOK ==
  /\ s_next \in [Semd -> Semd \cup {NULL}]
  /\ s_semAdd \in [Semd -> Addr \cup {NULL}]
  /\ s_procQ \in [Semd -> Seq(PCB)]
  /\ semdList_h \in Semd \cup {NULL} /\ activeSemdList_h \in Semd
  /\ p_semAdd \in [PCB -> Addr \cup {NULL}]
  /\ ret \in PCB \cup {NULL, TRUE_}
  /\ \A d \in Semd : s_procQ[d] # <<>> => s_semAdd[d] \in Addr

(* The active list ascends, with no address twice, whatever was inserted   *)
(* and given back in between: getPrevSemd, which stops at the first address*)
(* that is not smaller, would miss a descriptor out of place and the       *)
(* processes behind it would never be woken.                               *)
Sorted ==
  \A d \in Active :
    s_next[d] # NULL => s_semAdd[d] < s_semAdd[s_next[d]]

(* Every descriptor but the dummy is on exactly one list, on the active    *)
(* one just while somebody waits: none leaks, so insertBlocked fails only  *)
(* when MAXPROC semaphores are in use.                                     *)
NoLeak ==
  /\ Active \cap Free = {}
  /\ Active \cup Free = Semd \ {activeSemdList_h}
  /\ \A d \in Semd : d \in Active <=> s_procQ[d] # <<>>

(* The processes that a search for address a finds; with NoLeak and Sorted,*)
(* all that wait there.                                                    *)
WaitingOn(a) ==
  LET prev == GetPrevSemd(a)
  IN  IF Owns(prev, a) THEN s_procQ[s_next[prev]] ELSE <<>>
==========================================================================
