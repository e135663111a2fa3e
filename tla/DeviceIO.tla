----------------------------- MODULE DeviceIO -----------------------------
(***************************************************************************)
(* Device input and output: SYSCALL 8 and the device half of the interrupt *)
(* handler, down to the device registers, and the processes that use them: *)
(* a command is written to a device and SYSCALL 8 waits for its status.    *)
(*                                                                         *)
(* A channel is a device, or one direction of a terminal; each has its     *)
(* semaphore.  Of the scheduler only this matters here: a process that     *)
(* does not wait may run, and an interrupt may come between any two steps  *)
(* of processes that have not masked it.                                   *)
(***************************************************************************)
EXTENDS Integers, SequencesExt

CONSTANTS Proc,      \* the processes
          Disk,      \* the devices that are not terminals
          Terminal,
          NULL,
          Console,   \* the terminals that print of p2test.c writes to, with
                     \* interrupts on; phase 3 masks them for every other device
          MaxVal     \* bound: no interrupt once a semaphore is this high

ASSUME DeviceAssumption ==
  /\ Disk \cap (Terminal \X {"recv", "transm"}) = {}
  /\ NULL \notin Proc \cup Disk \cup (Terminal \X {"recv", "transm"}) /\ MaxVal \in Nat
  /\ Console \subseteq Terminal

Recv(t)   == <<t, "recv">>
Transm(t) == <<t, "transm">>
Channel   == Disk \cup Terminal \X {"recv", "transm"}

(* The channels whose users mask interrupts from the command to SYSCALL 8. *)
Masked == Disk \cup (Terminal \ Console) \X {"recv", "transm"}

(* The status of a channel: ready for a command, busy with one, or the     *)
(* result of one, which stays there and interrupts until it is acknowledged*)
Result == {"success", "error"}

VARIABLES status,          \* d_status, t_recv_status or t_transm_status
          semaphoreArray,
          waiters,         \* the process queue of each semaphore
          devStatus,       \* kept by the handler for a later SYSCALL 8
          a1,              \* register a1 of each process
          doing            \* the channel a process has given a command to and
                           \* not had the status of

vars == <<status, semaphoreArray, waiters, devStatus, a1, doing>>

Init ==
  /\ status = [c \in Channel |-> "ready"]
  /\ semaphoreArray = [c \in Channel |-> 0]
  /\ waiters = [c \in Channel |-> <<>>]
  /\ devStatus = [c \in Channel |-> NULL]
  /\ a1 = [p \in Proc |-> NULL]
  /\ doing = [p \in Proc |-> NULL]

Waiting(p) == \E c \in Channel : p \in Range(waiters[c])

(* Whether p may give channel c a command: it gets the mutex of c.  No     *)
(* line tests that the device is ready.  The guard stands for a mutex that *)
(* nobody gets any more: a process killed while it waits for a device never*)
(* releases it, and who releases one has left its device acknowledged      *)
(* (print panics over any other answer).  The directions of a terminal are *)
(* used by one process at a time: each terminal belongs to one user process*)
(* (vmIOsupport.c:469).                                                    *)
MayStart(p, c) ==
  /\ doing[p] = NULL /\ ~Waiting(p)
  /\ status[c] = "ready" /\ \A q \in Proc : doing[q] # c
  /\ \A t \in Terminal, q \in Proc :
       c \in {Recv(t), Transm(t)} => doing[q] \notin {Recv(t), Transm(t)}

(* SYSCALL 8 by p: it blocks, or a completed operation has been counted    *)
(* and it gets what devStatus holds.                                       *)
WaitForIO(p, c) ==
  /\ semaphoreArray' = [semaphoreArray EXCEPT ![c] = @ - 1]
  /\ IF semaphoreArray[c] - 1 < 0
       THEN /\ waiters' = [waiters EXCEPT ![c] = Append(@, p)]
            /\ doing' = [doing EXCEPT ![p] = c]
            /\ a1' = [a1 EXCEPT ![p] = NULL]
       ELSE /\ a1' = [a1 EXCEPT ![p] = devStatus[c]]
            /\ doing' = [doing EXCEPT ![p] = NULL]
            /\ UNCHANGED waiters
  /\ UNCHANGED devStatus

(* The command and SYSCALL 8 under a mask are one step ...                 *)
MaskedIO(p, c) ==
  /\ c \in Masked /\ MayStart(p, c)
  /\ status' = [status EXCEPT ![c] = "busy"]
  /\ WaitForIO(p, c)

(* ... and without a mask they are two; print only writes.                 *)
Command(p, c) ==
  /\ \E t \in Console : c = Transm(t)
  /\ MayStart(p, c)
  /\ status' = [status EXCEPT ![c] = "busy"]
  /\ doing' = [doing EXCEPT ![p] = c]
  /\ UNCHANGED <<semaphoreArray, waiters, devStatus, a1>>

AwaitStatus(p, c) ==
  /\ c \notin Masked /\ doing[p] = c /\ ~Waiting(p)
  /\ WaitForIO(p, c)
  /\ UNCHANGED status

(* The device finishes.                                                    *)
Complete(c) ==
  /\ status[c] = "busy"
  /\ \E r \in Result : status' = [status EXCEPT ![c] = r]
  /\ UNCHANGED <<semaphoreArray, waiters, devStatus, a1, doing>>
--------------------------------------------------------------------------
(* Slips: < for <=, and the status read after the acknowledgement.         *)
VLess(c) ==
  /\ semaphoreArray[c] < MaxVal
  /\ semaphoreArray' = [semaphoreArray EXCEPT ![c] = @ + 1]
  /\ IF semaphoreArray[c] + 1 < 0 /\ waiters[c] # <<>>
       THEN LET p == Head(waiters[c]) IN
            /\ waiters' = [waiters EXCEPT ![c] = Tail(@)]
            /\ a1' = [a1 EXCEPT ![p] = status[c]]
            /\ doing' = [doing EXCEPT ![p] = NULL]
       ELSE UNCHANGED <<waiters, a1, doing>>

VAcknowledged(c) ==
  /\ semaphoreArray[c] < MaxVal
  /\ semaphoreArray' = [semaphoreArray EXCEPT ![c] = @ + 1]
  /\ IF semaphoreArray[c] + 1 <= 0 /\ waiters[c] # <<>>
       THEN LET p == Head(waiters[c]) IN
            /\ waiters' = [waiters EXCEPT ![c] = Tail(@)]
            /\ a1' = [a1 EXCEPT ![p] = "ready"]
            /\ doing' = [doing EXCEPT ![p] = NULL]
       ELSE UNCHANGED <<waiters, a1, doing>>

(* The V of both handlers: at or below zero the first waiter, if its       *)
(* semaphore still has one, gets the status.                               *)
V(c) ==
  /\ semaphoreArray[c] < MaxVal
  /\ semaphoreArray' = [semaphoreArray EXCEPT ![c] = @ + 1]
  /\ IF semaphoreArray[c] + 1 <= 0 /\ waiters[c] # <<>>
       THEN LET p == Head(waiters[c]) IN
            /\ waiters' = [waiters EXCEPT ![c] = Tail(@)]
            /\ a1' = [a1 EXCEPT ![p] = status[c]]
            /\ doing' = [doing EXCEPT ![p] = NULL]
       ELSE UNCHANGED <<waiters, a1, doing>>

Interrupts(c) == status[c] \in Result

(* ACK written to a channel; one that is still busy ignores it.            *)
Acknowledge(c) == IF status[c] = "busy" THEN status ELSE [status EXCEPT ![c] = "ready"]

(* interruptHandler for lines 3-6: the status is kept for nobody in        *)
(* particular when the waiter is gone, and the device is acknowledged.     *)
DiskInterrupt(d) ==
  /\ Interrupts(d)
  /\ V(d)
  /\ devStatus' = IF semaphoreArray[d] + 1 <= 0 /\ waiters[d] = <<>>
                    THEN [devStatus EXCEPT ![d] = status[d]] ELSE devStatus
  /\ status' = Acknowledge(d)

(* handleTerminal, for line 7, which comes after all others: the direction *)
(* is the transmitter unless that is ready, and it is acknowledged when    *)
(* there is a waiter.                                                      *)
TerminalInterrupt(t) ==
  LET c == IF status[Transm(t)] # "ready" THEN Transm(t) ELSE Recv(t) IN
  /\ Interrupts(Recv(t)) \/ Interrupts(Transm(t))
  /\ \A d \in Disk : ~Interrupts(d)
  /\ V(c)
  /\ status' = IF semaphoreArray[c] + 1 <= 0 /\ waiters[c] # <<>>
                 THEN Acknowledge(c) ELSE status
  /\ UNCHANGED devStatus

(* Slip: a V on the device semaphore, as for the other semaphores.         *)
KillV(p) ==
  /\ doing[p] # NULL
  /\ waiters' = [c \in Channel |-> RemoveFirst(waiters[c], p)]
  /\ semaphoreArray' = [c \in Channel |-> IF p \in Range(waiters[c])
                                            THEN semaphoreArray[c] + 1
                                            ELSE semaphoreArray[c]]
  /\ doing' = [doing EXCEPT ![p] = NULL]
  /\ UNCHANGED <<status, devStatus, a1>>

(* nukeItTilItPukes on a process that has an operation under way: it leaves*)
(* the queue, and the semaphore waits for the interrupt.                   *)
Kill(p) ==
  /\ doing[p] # NULL
  /\ waiters' = [c \in Channel |-> RemoveFirst(waiters[c], p)]
  /\ doing' = [doing EXCEPT ![p] = NULL]
  /\ UNCHANGED <<status, semaphoreArray, devStatus, a1>>

Next ==
  \/ \E p \in Proc, c \in Channel : MaskedIO(p, c) \/ Command(p, c) \/ AwaitStatus(p, c)
  \/ \E c \in Channel : Complete(c)
  \/ \E d \in Disk : DiskInterrupt(d)
  \/ \E t \in Terminal : TerminalInterrupt(t)
  \/ \E p \in Proc : Kill(p)

Spec == Init /\ [][Next]_vars

(* A device finishes what it was told to do, and its interrupt comes.  The *)
(* line of the terminals may starve behind the others.                     *)
FairSpec ==
  /\ Spec
  /\ \A c \in Channel : WF_vars(Complete(c))
  /\ \A d \in Disk : WF_vars(DiskInterrupt(d))
--------------------------------------------------------------------------
(* A process waits on a channel only while that channel is busy or about to*)
(* interrupt, and alone: its interrupt is still to come, whether processes *)
(* mask interrupts or not and whoever was killed.                          *)
NoLostWakeup ==
  \A c \in Channel : waiters[c] # <<>> => Len(waiters[c]) = 1 /\ status[c] # "ready"

(* Of a masked channel the semaphore is 0 when it is ready and -1 when it*)
(* is not (a terminal that nobody waits for may have interrupted again and *)
(* again), also after its waiter was killed: no SYSCALL 8 finds the count  *)
(* of somebody else's operation and returns at once.                       *)
Balanced ==
  \A c \in Masked :
    /\ c \in Disk => semaphoreArray[c] = IF status[c] = "ready" THEN 0 ELSE -1
    /\ status[c] = "ready" \/ waiters[c] # <<>> => semaphoreArray[c] = -Len(waiters[c])

(* A process that returns from SYSCALL 8 on a masked channel has the       *)
(* result of the operation it started, unless the other direction of its   *)
(* terminal is not ready: a dead process may have left it interrupting,    *)
(* and handleTerminal takes a busy transmitter for one that has finished.  *)
Alone(c) == \A t \in Terminal : c \in {Recv(t), Transm(t)} =>
              status[Recv(t)] = "ready" \/ status[Transm(t)] = "ready"

OwnStatus ==
  [][\A p \in Proc :
       doing[p] \in Masked /\ Alone(doing[p]) /\ doing'[p] = NULL =>
         Kill(p) \/ (status[doing[p]] \in Result /\ a1'[p] = status[doing[p]])]_vars

(* A process that waits for a device is answered, unless it is killed.     *)
Answered ==
  \A p \in Proc, d \in Disk : p \in Range(waiters[d]) ~> p \notin Range(waiters[d])

(* interrupts.c:21: "In every case, the device is acknowledged and its     *)
(* status is stored in the return value."  The status is stored, and the   *)
(* terminal acknowledged.                                                  *)
StatusStored(d) ==
  \/ devStatus'[d] = status[d]
  \/ \E p \in Proc : p \in Range(waiters[d]) /\ a1'[p] = status[d]

Acknowledged(t) ==
  \E c \in {Recv(t), Transm(t)} : Interrupts(c) /\ status'[c] = "ready"

InEveryCase ==
  [][/\ \A d \in Disk : DiskInterrupt(d) => StatusStored(d)
     /\ \A t \in Terminal : TerminalInterrupt(t) => Acknowledged(t)]_vars
==========================================================================
