----------------------------- MODULE ProcTree ----------------------------
(***************************************************************************)
(* The process tree of pcb.c as it lies in memory: p_child points to the   *)
(* newest child of a process, which has no p_nextSib; from there p_prevSib *)
(* leads to the older ones.  Callers insert a process without parent or    *)
(* children: a new one.                                                    *)
(***************************************************************************)
EXTENDS Links, FiniteSets

CONSTANTS PCB, NULL

ProcTreeAssumption == IsFiniteSet(PCB) /\ NULL \notin PCB

VARIABLES p_prnt, p_child, p_nextSib, p_prevSib,
          ret               \* what the last call returned

links == <<p_prnt, p_child, p_nextSib, p_prevSib>>
vars == <<links, ret>>

(* The children of p, from p_child along p_prevSib.                        *)
Offspring(p) == Linked(p_prevSib, p_child[p], NULL, Cardinality(PCB))

Nowhere == [p \in PCB |-> NULL]

Init ==
  /\ p_prnt = Nowhere /\ p_child = Nowhere
  /\ p_nextSib = Nowhere /\ p_prevSib = Nowhere
  /\ ret = NULL

InsertChild(prnt, p) ==
  /\ p_prnt[p] = NULL /\ p_child[p] = NULL
  /\ IF p_child[prnt] = NULL
       THEN /\ p_prevSib' = [p_prevSib EXCEPT ![p] = NULL]
            /\ p_nextSib' = [p_nextSib EXCEPT ![p] = NULL]
       ELSE /\ p_prevSib' = [p_prevSib EXCEPT ![p] = p_child[prnt]]
            /\ p_nextSib' = [p_nextSib EXCEPT ![p_child[prnt]] = p, ![p] = NULL]
  /\ p_child' = [p_child EXCEPT ![prnt] = p]
  /\ p_prnt' = [p_prnt EXCEPT ![p] = prnt]
  /\ UNCHANGED ret

RemoveChild(prnt) ==
  LET p == p_child[prnt] IN
  \/ p = NULL /\ ret' = NULL /\ UNCHANGED links
  \/ /\ p # NULL
     /\ ret' = p
     /\ p_prnt' = [p_prnt EXCEPT ![p] = NULL]
     /\ p_child' = [p_child EXCEPT ![prnt] = p_prevSib[p]]
     /\ IF p_prevSib[p] = NULL
          THEN UNCHANGED <<p_nextSib, p_prevSib>>
          ELSE /\ p_nextSib' = [p_nextSib EXCEPT ![p_prevSib[p]] = NULL]
               /\ p_prevSib' = [p_prevSib EXCEPT ![p] = NULL]

(* Slip: a middle child leaves its older sibling pointing at it.           *)
UnhookOneSide(p) ==
  /\ p_prevSib' = [p_prevSib EXCEPT ![p_nextSib[p]] = p_prevSib[p], ![p] = NULL]
  /\ p_nextSib' = [p_nextSib EXCEPT ![p] = NULL]

(* The branches of outChild for a child that is not the newest: the oldest,*)
(* and one between two siblings.                                           *)
Unhook(p) ==
  IF p_prevSib[p] = NULL
    THEN /\ p_prevSib' = [p_prevSib EXCEPT ![p_nextSib[p]] = NULL]
         /\ p_nextSib' = [p_nextSib EXCEPT ![p] = NULL]
    ELSE /\ p_prevSib' = [p_prevSib EXCEPT ![p_nextSib[p]] = p_prevSib[p], ![p] = NULL]
         /\ p_nextSib' = [p_nextSib EXCEPT ![p_prevSib[p]] = p_nextSib[p], ![p] = NULL]

OutChild(p) ==
  \/ p_prnt[p] = NULL /\ ret' = NULL /\ UNCHANGED links
  \/ /\ p_prnt[p] # NULL
     /\ p = p_child[p_prnt[p]]
     /\ RemoveChild(p_prnt[p])
  \/ /\ p_prnt[p] # NULL
     /\ p # p_child[p_prnt[p]]
     /\ Unhook(p)
     /\ p_prnt' = [p_prnt EXCEPT ![p] = NULL]
     /\ ret' = p
     /\ UNCHANGED p_child

Next ==
  \E p \in PCB :
    RemoveChild(p) \/ OutChild(p) \/ \E q \in PCB \ {p} : InsertChild(p, q)

Spec == Init /\ [][Next]_vars
--------------------------------------------------------------------------
(* The two sibling links agree, the newest child has no newer sibling, the *)
(* children of a process are those that have it as parent, and a process   *)
(* without parent keeps no sibling: outChild may follow every link it has  *)
(* and a later insertChild finds nothing stale.                            *)
Siblings ==
  /\ \A p, q \in PCB : p_nextSib[p] = q <=> p_prevSib[q] = p
  /\ \A p \in PCB : p_child[p] # NULL => p_nextSib[p_child[p]] = NULL
  /\ \A p, c \in PCB : c \in Range(Offspring(p)) <=> p_prnt[c] = p
  /\ \A p \in PCB : p_prnt[p] = NULL => p_nextSib[p] = NULL /\ p_prevSib[p] = NULL
==========================================================================
