---------------------------- MODULE FifoQueues ---------------------------
(***************************************************************************)
(* What the process queues of phase 1 promise: first in, first out, with   *)
(* removal from the middle.  ProcQ.tla does it with the links of pcb.c.    *)
(***************************************************************************)
EXTENDS SequencesExt

CONSTANTS PCB, Queue, NULL

VARIABLES queue,   \* the processes of each queue, oldest first
          ret      \* what the last operation returned

Init ==
  /\ queue \in [Queue -> {<<>>} \cup SetToSeqs(PCB)]
  /\ \A q, r \in Queue : q # r => queue[q] = <<>> \/ queue[r] = <<>>
  /\ ret = NULL

(* insertProcQ, and freePcb on the free list.                              *)
Enqueue(q, p) ==
  /\ UNCHANGED ret
  /\ \A r \in Queue : p \notin Range(queue[r])
  /\ queue' = [queue EXCEPT ![q] = Append(@, p)]

(* removeProcQ, and allocPcb on the free list.                             *)
Dequeue(q) ==
  \/ queue[q] = <<>> /\ ret' = NULL /\ UNCHANGED queue
  \/ /\ queue[q] # <<>>
     /\ ret' = Head(queue[q])
     /\ queue' = [queue EXCEPT ![q] = Tail(@)]

(* outProcQ.                                                               *)
Take(q, p) ==
  /\ ret' = IF p \in Range(queue[q]) THEN p ELSE NULL
  /\ queue' = [queue EXCEPT ![q] = RemoveFirst(@, p)]

(* headProcQ.                                                              *)
Peek(q) ==
  /\ ret' = IF queue[q] = <<>> THEN NULL ELSE Head(queue[q])
  /\ UNCHANGED queue

Next ==
  \E q \in Queue :
    Peek(q) \/ Dequeue(q) \/ \E p \in PCB : Enqueue(q, p) \/ Take(q, p)

Spec == Init /\ [][Next]_<<queue, ret>>
==========================================================================
