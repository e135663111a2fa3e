-------------------------------- MODULE Adl ------------------------------
(***************************************************************************)
(* The active delay list of adl.c as it lies in memory: nodes linked by    *)
(* d_next, an active list and a stack of free nodes.                       *)
(***************************************************************************)
EXTENDS Links, FiniteSets

CONSTANTS ProcID,   \* numbers of user processes
          Time,     \* times of day to wake at
          Nodes     \* how many nodes: MAXUSERPROC + 1

AdlAssumption == Nodes \in Nat \ {0} /\ ProcID \subseteq Nat /\ Time \subseteq Nat

Node    == 1..Nodes               \* delaydTable
NULL    == 0
FAILURE == -1
FALSE_  == 0
TRUE_   == 1

VARIABLES d_next, d_wakeTime, d_procID,   \* the nodes
          delaydFree_h,                   \* the top of the free stack
          activeDelaydList_h,             \* the head of the list
          ret                             \* what the last call returned

lists  == <<d_next, delaydFree_h, activeDelaydList_h>>
fields == <<d_wakeTime, d_procID>>
vars   == <<lists, fields, ret>>

(* initADL frees the nodes in the order of the table.                      *)
Init ==
  /\ d_next = [n \in Node |-> n - 1]
  /\ d_wakeTime = [n \in Node |-> 0] /\ d_procID = [n \in Node |-> 0]
  /\ delaydFree_h = Nodes /\ activeDelaydList_h = NULL
  /\ ret = FALSE_

(* The nodes from n to the end of its list.                                *)
From(n) == Linked(d_next, n, NULL, Nodes)

Active == Range(From(activeDelaydList_h))
Free   == Range(From(delaydFree_h))

(* Slip: the time of the node itself compared, not of the next one.        *)
FindPreviousDelaydLate(wakeTime) ==
  LET from[n \in Node] ==
        IF d_next[n] # NULL /\ d_wakeTime[n] < wakeTime THEN from[d_next[n]] ELSE n
  IN  from[activeDelaydList_h]

(* findPreviousDelayd: the search compares the nodes behind the head only. *)
FindPreviousDelayd(wakeTime) ==
  LET from[n \in Node] ==
        IF d_next[n] # NULL /\ d_wakeTime[d_next[n]] < wakeTime THEN from[d_next[n]] ELSE n
  IN  from[activeDelaydList_h]

(* allocDelayd and the fields of the new node; then it becomes the only    *)
(* one, or goes behind the node the search ends at.                        *)
InsertDelay(wakeTime, p) ==
  LET n == delaydFree_h IN
  IF n = NULL
    THEN ret' = FALSE_ /\ UNCHANGED <<lists, fields>>
    ELSE /\ ret' = TRUE_
         /\ delaydFree_h' = d_next[n]
         /\ d_wakeTime' = [d_wakeTime EXCEPT ![n] = wakeTime]
         /\ d_procID' = [d_procID EXCEPT ![n] = p]
         /\ IF activeDelaydList_h = NULL
              THEN /\ activeDelaydList_h' = n
                   /\ d_next' = [d_next EXCEPT ![n] = NULL]
              ELSE LET prev == FindPreviousDelayd(wakeTime) IN
                   /\ d_next' = [d_next EXCEPT ![n] = d_next[prev], ![prev] = n]
                   /\ UNCHANGED activeDelaydList_h

(* Slip: the free stack forgotten below the node given back.               *)
RemoveDelayLose ==
  LET n == activeDelaydList_h IN
  IF n = NULL
    THEN ret' = FAILURE /\ UNCHANGED <<lists, fields>>
    ELSE /\ ret' = d_procID[n]
         /\ activeDelaydList_h' = d_next[n]
         /\ d_next' = [d_next EXCEPT ![n] = NULL]
         /\ delaydFree_h' = n
         /\ UNCHANGED fields

(* removeDelay, with freeDelayd.                                           *)
RemoveDelay ==
  LET n == activeDelaydList_h IN
  IF n = NULL
    THEN ret' = FAILURE /\ UNCHANGED <<lists, fields>>
    ELSE /\ ret' = d_procID[n]
         /\ activeDelaydList_h' = d_next[n]
         /\ d_next' = [d_next EXCEPT ![n] = delaydFree_h]
         /\ delaydFree_h' = n
         /\ UNCHANGED fields

HeadDelaydTime ==
  /\ ret' = IF activeDelaydList_h = NULL THEN FAILURE ELSE d_wakeTime[activeDelaydList_h]
  /\ UNCHANGED <<lists, fields>>

Next ==
  RemoveDelay \/ HeadDelaydTime \/ \E w \in Time, p \in ProcID : InsertDelay(w, p)

Spec == Init /\ [][Next]_vars
--------------------------------------------------------------------------
(* Every node is on one list and none is on both: insertDelay fails only   *)
(* when as many processes sleep as there are nodes.                        *)
NoLeak == Active \cap Free = {} /\ Active \cup Free = Node

Listed ==
  LET list == From(activeDelaydList_h)
  IN  [i \in 1..Len(list) |-> [wake |-> d_wakeTime[list[i]], proc |-> d_procID[list[i]]]]
==========================================================================
