------------------------------- MODULE Lists -----------------------------
(***************************************************************************)
(* The five linked structures of phases 1 and 3 side by side.  A behaviour *)
(* works on the one that `under` names and leaves the others as they were  *)
(* set up.  The process queues are not even set up in the others, for      *)
(* initPcbs may do that in many orders.                                    *)
(***************************************************************************)
EXTENDS Integers

CONSTANTS Blocks, Queue, pcbList_h,       \* the process queues
          Family,                         \* the process tree
          Sleepers, Addr,                 \* the active semaphore list
          Sem, VirtNodes,                 \* the active virtual semaphore list
          Time, DelayNodes,               \* the active delay list
          ProcID,                         \* user processes, of the last two
          Nil

VARIABLES under,
          p_next, p_prev, tp, q_ret,
          p_prnt, p_child, p_nextSib, p_prevSib, t_ret,
          s_next, s_semAdd, s_procQ, semdList_h, activeSemdList_h, p_semAdd, s_ret,
          vs_next, vs_prev, vs_semaphore, vs_procID, virtSemd_h, virtSemdFree_h, torn, v_ret,
          d_next, d_wakeTime, d_procID, delaydFree_h, activeDelaydList_h, d_ret

queues == <<p_next, p_prev, tp, q_ret>>
tree   == <<p_prnt, p_child, p_nextSib, p_prevSib, t_ret>>
semds  == <<s_next, s_semAdd, s_procQ, semdList_h, activeSemdList_h, p_semAdd, s_ret>>
virts  == <<vs_next, vs_prev, vs_semaphore, vs_procID, virtSemd_h, virtSemdFree_h, torn, v_ret>>
delays == <<d_next, d_wakeTime, d_procID, delaydFree_h, activeDelaydList_h, d_ret>>
vars   == <<under, queues, tree, semds, virts, delays>>

Queues == INSTANCE ProcQ WITH PCB <- Blocks, NULL <- Nil, ret <- q_ret
Tree   == INSTANCE ProcTree WITH PCB <- Family, NULL <- Nil, ret <- t_ret
Semds  == INSTANCE Asl WITH PCB <- Sleepers, ret <- s_ret
Virts  == INSTANCE Avsl WITH Nodes <- VirtNodes, ret <- v_ret
Delays == INSTANCE Adl WITH Nodes <- DelayNodes, ret <- d_ret

ASSUME ListsAssumption ==
  /\ Queues!ProcQAssumption /\ Tree!ProcTreeAssumption /\ Semds!AslAssumption
  /\ Virts!AvslAssumption /\ Delays!AdlAssumption

Init ==
  /\ under \in {"queues", "tree", "semaphores", "virtual", "delays"}
  /\ Tree!Init /\ Semds!Init /\ Virts!Init /\ Delays!Init
  /\ IF under = "queues"
       THEN Queues!Init
       ELSE /\ p_next = [b \in Blocks |-> Nil] /\ p_prev = [b \in Blocks |-> Nil]
            /\ tp = [q \in Queue |-> Nil] /\ q_ret = Nil

QueueStep ==
  /\ under = "queues" /\ Queues!Next
  /\ UNCHANGED <<under, tree, semds, virts, delays>>

TreeStep ==
  /\ under = "tree" /\ Tree!Next
  /\ UNCHANGED <<under, queues, semds, virts, delays>>

SemdStep ==
  /\ under = "semaphores" /\ Semds!Next
  /\ UNCHANGED <<under, queues, tree, virts, delays>>

VirtStep ==
  /\ under = "virtual" /\ Virts!Next
  /\ UNCHANGED <<under, queues, tree, semds, delays>>

DelayStep ==
  /\ under = "delays" /\ Delays!Next
  /\ UNCHANGED <<under, queues, tree, semds, virts>>

Next == QueueStep \/ TreeStep \/ SemdStep \/ VirtStep \/ DelayStep

Spec == Init /\ [][Next]_vars
--------------------------------------------------------------------------
(* The links of pcb.c and asl.c lead to what they should or nowhere, both  *)
(* links of a block do so together, and a descriptor with waiters has an   *)
(* address.                                                                *)
TypeOK ==
  /\ under = "queues" => Queues!TypeOK
  /\ under = "semaphores" => Semds!TypeOK

(* Both links of a node agree all the way round, so that unlinking one     *)
(* tears no list open and every search ends: in the process queues, no two *)
(* of which share a block, between the siblings of the process tree        *)
(* (pcb.c), and in the virtual semaphore list (avsl.c) until a head with   *)
(* others behind it is removed.                                            *)
Woven ==
  /\ under = "queues" => Queues!Woven
  /\ under = "tree" => Tree!Siblings
  /\ under = "virtual" => Virts!Woven

(* The active semaphore list ascends, so that no search of getPrevSemd     *)
(* (asl.c) stops short of a descriptor.                                    *)
Sorted == under = "semaphores" => Semds!Sorted

(* Every descriptor of asl.c is free or has waiters, every node of adl.c   *)
(* is in one of its lists: insertion fails only when all are in use.       *)
NoLeak ==
  /\ under = "semaphores" => Semds!NoLeak
  /\ under = "delays" => Delays!NoLeak
==========================================================================
