------------------------------ MODULE MCLists ----------------------------
(* The linked structures for TLC, and what each implements.                *)
EXTENDS Lists, TLC

(* Blocks are interchangeable: only their addresses differ.                *)
Symmetry == Permutations(Sleepers)

(* What the abstract specifications speak of, read off the links.          *)
fifo      == [q \in Queue |-> Queues!Contents(q)]
offspring == [p \in Family |-> Tree!Offspring(p)]
sleeping  == [a \in Addr |-> Semds!WaitingOn(a)]
waiting   == Virts!Waiting
delayed   == Delays!Listed

Fifo == INSTANCE FifoQueues WITH PCB <- Blocks, NULL <- Nil, ret <- q_ret, queue <- fifo

Children == INSTANCE ChildLists
              WITH PCB <- Family, NULL <- Nil, ret <- t_ret, children <- offspring

Semaphores == INSTANCE SemaphoreQueues
                WITH PCB <- Sleepers, NULL <- Semds!NULL, TRUE_ <- Semds!TRUE_, ret <- s_ret,
                     MaxActive <- Semds!MAXPROC, waiting <- sleeping

Waiters == INSTANCE VirtualWaiters WITH MaxWaiting <- VirtNodes, ret <- v_ret

Delayed == INSTANCE DelayList WITH MaxDelayed <- DelayNodes, ret <- d_ret
--------------------------------------------------------------------------
(* The links of pcb.c implement first in, first out queues: what goes into *)
(* one comes out, once, in order, whatever was taken out of the middle     *)
(* before.                                                                 *)
QueuesAreFifo == Fifo!Init /\ [][under = "queues" => Fifo!Next]_queues

(* The four links of the process tree are lists of children, newest first: *)
(* what nukeItTilItPukes removes is the newest child, and outChild of any  *)
(* child leaves all the others in the list.                                *)
TreeIsLists == Children!Init /\ [][under = "tree" => Children!Next]_tree

(* A queue for every address of asl.c: a process waits where it blocked,   *)
(* wakes in its turn, is withdrawn wherever it stands, and an insertion    *)
(* fails only when MAXPROC other semaphores have waiters.                  *)
SemdsAreQueues == Semaphores!Init /\ [][under = "semaphores" => Semaphores!Next]_semds

(* Until a head of several is removed, vRemoveBlocked wakes the oldest     *)
(* waiter of its semaphore.                                                *)
VirtsAreWaiters == Waiters!Init /\ [][under = "virtual" => torn' \/ Waiters!Next]_virts

(* vRemoveBlocked "removes it from the list and returns it to the free     *)
(* list" (avsl.c:163): no node can be reached in both.                     *)
RemovedIsFree == Virts!RemovedIsFree

(* insertDelay of one that is to wake before the head (adl.c:178-182): it  *)
(* finds its place among those behind the head only.                       *)
BehindHead(w, p) ==
  /\ delayed # <<>> /\ w < delayed[1].wake
  /\ Delayed!Enter(2, [wake |-> w, proc |-> p])

(* Every sleeper leaves the delay list of adl.c once, from its head.  Who  *)
(* is to wake no earlier than the head gets its proper place; who is to    *)
(* wake earlier, the proper place behind the head.                         *)
DelaysAreListed ==
  Delayed!Init /\ [][under = "delays" =>
                       Delayed!Next \/ \E w \in Time, p \in ProcID : BehindHead(w, p)]_delays

(* The list "is maintained in increasing order based on the wake time of   *)
(* the node" (adl.c:8-10).                                                 *)
DelaysAscend == Delayed!Ascends
==========================================================================
