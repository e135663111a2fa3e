------------------------------- MODULE Avsl ------------------------------
(***************************************************************************)
(* The active virtual semaphore list of avsl.c as it lies in memory: nodes *)
(* linked in a circle, oldest first, by vs_next and vs_prev, and a stack   *)
(* of free nodes linked by vs_next.  A node waits for one semaphore with   *)
(* one process; a semaphore may have many nodes.                           *)
(***************************************************************************)
EXTENDS Links, FiniteSets

CONSTANTS Sem,      \* addresses of virtual semaphores
          ProcID,   \* numbers of user processes, from 1 on
          Nodes     \* how many nodes: MAXPROC + 1

AvslAssumption ==
  Nodes \in Nat \ {0} /\ ProcID \subseteq Nat \ {0} /\ 0 \notin Sem

Node   == 1..Nodes                \* virtSemdTable
NULL   == 0
FALSE_ == 0                       \* not FAILURE, which is -1
TRUE_  == 1

VARIABLES vs_next, vs_prev, vs_semaphore, vs_procID,   \* the nodes
          virtSemd_h,        \* the head of the circle
          virtSemdFree_h,    \* the top of the free stack
          torn,              \* a head with others behind it was removed
          ret                \* what the last call returned

links  == <<vs_next, vs_prev>>
heads  == <<virtSemd_h, virtSemdFree_h>>
fields == <<vs_semaphore, vs_procID>>
vars   == <<links, heads, fields, torn, ret>>

(* initAVSL frees the nodes in the order of the table.                     *)
Init ==
  /\ vs_next = [n \in Node |-> n - 1] /\ vs_prev = [n \in Node |-> NULL]
  /\ vs_semaphore = [n \in Node |-> NULL] /\ vs_procID = [n \in Node |-> 0]
  /\ virtSemd_h = NULL /\ virtSemdFree_h = Nodes
  /\ torn = FALSE
  /\ ret = FALSE_

(* The nodes from n along vs_next: round the circle or down the stack.     *)
From(n) == Linked(vs_next, n, NULL, Nodes)

Circle == From(virtSemd_h)
Active == Range(Circle)
Free   == Range(From(virtSemdFree_h))

(* freeVirtSemd on links next that the caller has already changed.         *)
Release(next, n) ==
  /\ vs_next' = [next EXCEPT ![n] = virtSemdFree_h]
  /\ virtSemdFree_h' = n

(* Slip: the old tail not linked to the new one.                           *)
WeaveHalf(n) ==
  IF virtSemd_h = NULL
    THEN /\ vs_next' = [vs_next EXCEPT ![n] = n]
         /\ vs_prev' = [vs_prev EXCEPT ![n] = n]
         /\ virtSemd_h' = n
    ELSE /\ vs_next' = [vs_next EXCEPT ![n] = virtSemd_h]
         /\ vs_prev' = [vs_prev EXCEPT ![n] = vs_prev[virtSemd_h], ![virtSemd_h] = n]
         /\ UNCHANGED virtSemd_h

(* The new node becomes the only one or goes between the tail and the head.*)
Weave(n) ==
  IF virtSemd_h = NULL
    THEN /\ vs_next' = [vs_next EXCEPT ![n] = n]
         /\ vs_prev' = [vs_prev EXCEPT ![n] = n]
         /\ virtSemd_h' = n
    ELSE LET tail == vs_prev[virtSemd_h] IN
         /\ vs_next' = [vs_next EXCEPT ![n] = virtSemd_h, ![tail] = n]
         /\ vs_prev' = [vs_prev EXCEPT ![n] = tail, ![virtSemd_h] = n]
         /\ UNCHANGED virtSemd_h

VInsertBlocked(a, p) ==
  LET n == virtSemdFree_h IN
  /\ ~torn
  /\ IF n = NULL
       THEN ret' = FALSE_ /\ UNCHANGED <<links, heads, fields>>
       ELSE /\ ret' = TRUE_
            /\ virtSemdFree_h' = vs_next[n]
            /\ vs_semaphore' = [vs_semaphore EXCEPT ![n] = a]
            /\ vs_procID' = [vs_procID EXCEPT ![n] = p]
            /\ Weave(n)
  /\ UNCHANGED torn

NotFound == ret' = FALSE_ /\ UNCHANGED <<links, heads, torn>>

(* Slip: the node's memory not given back.                                 *)
RemoveOnlyLeak(a) ==
  LET h == virtSemd_h IN
  /\ h # NULL /\ vs_next[h] = h /\ vs_semaphore[h] = a
  /\ ret' = vs_procID[h]
  /\ virtSemd_h' = NULL
  /\ vs_next' = [vs_next EXCEPT ![h] = NULL]
  /\ vs_prev' = [vs_prev EXCEPT ![h] = NULL]
  /\ UNCHANGED <<virtSemdFree_h, torn>>

(* The cases of vRemoveBlocked: the only node ...                          *)
RemoveOnly(a) ==
  LET h == virtSemd_h IN
  /\ h # NULL /\ vs_next[h] = h /\ vs_semaphore[h] = a
  /\ ret' = vs_procID[h]
  /\ virtSemd_h' = NULL
  /\ Release(vs_next, h)
  /\ vs_prev' = [vs_prev EXCEPT ![h] = NULL]
  /\ UNCHANGED torn

(* ... the head of several, whose own links change and not those of its    *)
(* neighbours.  The neighbours still lead to it, and it is free: what a    *)
(* later call does with such a list is not modelled.                       *)
RemoveHead(a) ==
  LET h == virtSemd_h
      next == [vs_next EXCEPT ![h] = vs_next[vs_next[h]]] IN
  /\ h # NULL /\ vs_next[h] # h /\ vs_semaphore[h] = a
  /\ ret' = vs_procID[h]
  /\ vs_prev' = [vs_prev EXCEPT ![h] = vs_prev[vs_prev[h]]]
  /\ Release(next, h)
  /\ virtSemd_h' = next[h]
  /\ torn' = TRUE

(* ... and the first of the others that waits for a, which the loop finds  *)
(* unless it comes round to the head.                                      *)
RemoveInner(a) ==
  LET of == {i \in 2..Len(Circle) : vs_semaphore[Circle[i]] = a} IN
  /\ virtSemd_h # NULL /\ vs_semaphore[virtSemd_h] # a /\ of # {}
  /\ LET n == Circle[Min(of)] IN
       /\ ret' = vs_procID[n]
       /\ vs_prev' = [vs_prev EXCEPT ![vs_next[n]] = vs_prev[n]]
       /\ Release([vs_next EXCEPT ![vs_prev[n]] = vs_next[n]], n)
  /\ UNCHANGED <<virtSemd_h, torn>>

VRemoveBlocked(a) ==
  /\ ~torn
  /\ \/ RemoveOnly(a) \/ RemoveHead(a) \/ RemoveInner(a)
     \/ (\A n \in Active : vs_semaphore[n] # a) /\ NotFound
  /\ UNCHANGED fields

Next ==
  \E a \in Sem : VRemoveBlocked(a) \/ \E p \in ProcID : VInsertBlocked(a, p)

Spec == Init /\ [][Next]_vars
--------------------------------------------------------------------------
(* Until a head of several is removed: both links of a node agree, all the *)
(* way round; no node is in both lists and none in neither, so that        *)
(* vInsertBlocked fails only when all are in use.                          *)
Woven ==
  torn \/ /\ \A n \in Active : vs_prev[vs_next[n]] = n /\ vs_next[vs_prev[n]] = n
          /\ Active \cap Free = {} /\ Active \cup Free = Node

(* vRemoveBlocked "removes it from the list and returns it to the free     *)
(* list" (avsl.c:163): a free node can not be reached in the list.         *)
RemovedIsFree == Active \cap Free = {}

(* The nodes in the circle, as what they say.                              *)
Waiting ==
  [i \in 1..Len(Circle) |-> [sem |-> vs_semaphore[Circle[i]], proc |-> vs_procID[Circle[i]]]]
==========================================================================
