--------------------------- MODULE DeviceProofs --------------------------
(***************************************************************************)
(* Device input and output for any number of processes, disks and          *)
(* terminals: no waiter is left without an interrupt to come, semaphores   *)
(* of devices used with interrupts masked are balanced, and their users    *)
(* get the status of their own operations.  The inductive invariant is     *)
(* IInv, which relates the processes with an operation under way to the    *)
(* queues and to the status of the devices.                                *)
(***************************************************************************)
EXTENDS DeviceIO, QueueLemmas

DeviceTypes ==
  /\ status \in [Channel -> {"ready", "busy"} \cup Result]
  /\ semaphoreArray \in [Channel -> Int]
  /\ waiters \in [Channel -> Seq(Proc)]
  /\ a1 = [p \in Proc |-> a1[p]]
  /\ doing \in [Proc -> Channel \cup {NULL}]

(* A channel has one process with an operation, and no other waits.        *)
OneUser ==
  /\ \A p, q \in Proc : doing[p] = doing[q] /\ doing[p] # NULL => p = q
  /\ \A c \in Channel : \A p \in Range(waiters[c]) : doing[p] = c
  /\ \A c \in Channel : Len(waiters[c]) <= 1

(* With interrupts masked an operation is a wait.                          *)
MaskedWaits ==
  \A p \in Proc : doing[p] \in Masked => p \in Range(waiters[doing[p]])

(* The device of an operation is busy or interrupts.                       *)
Underway == \A p \in Proc : doing[p] # NULL => status[doing[p]] # "ready"

IInv == DeviceTypes /\ OneUser /\ MaskedWaits /\ Underway /\ Balanced
--------------------------------------------------------------------------
(* What the constants say of channels.                                     *)
LEMMA Channels ==
  /\ Masked \subseteq Channel /\ Disk \subseteq Masked /\ NULL \notin Channel
  /\ \A t \in Terminal : /\ Recv(t) \in Channel /\ Transm(t) \in Channel
                         /\ Recv(t) \notin Disk /\ Transm(t) \notin Disk
  BY DeviceAssumption DEF Channel, Masked, Recv, Transm

(* A count that is kept negated is zero when the queue is empty.           *)
LEMMA Negated == \A n \in Nat : -n = 0 <=> n = 0
  OBVIOUS

(* A queue of at most one process.                                         *)
LEMMA ShortQueue ==
  ASSUME NEW S, NEW q \in Seq(S), Len(q) <= 1
  PROVE  /\ IsInjective(q)
         /\ q # <<>> => /\ Len(q) = 1 /\ Tail(q) = <<>>
                        /\ Head(q) \in S /\ Range(q) = {Head(q)}
  <1>1. DOMAIN q = 1..Len(q) /\ Len(q) \in Nat
    OBVIOUS
  <1>2. IsInjective(q)
    BY <1>1 DEF IsInjective
  <1>3. ASSUME q # <<>>
        PROVE  Len(q) = 1 /\ Tail(q) = <<>> /\ Head(q) \in S /\ Range(q) = {Head(q)}
    <2>1. Len(q) = 1 /\ Head(q) \in S
      BY <1>1, <1>3
    <2>2. Tail(q) \in Seq(S) /\ Len(Tail(q)) = 0
      BY <1>3, <2>1
    <2>3. Tail(q) = <<>>
      BY <2>2
    <2>4. Range(q) = Range(Tail(q)) \cup {Head(q)}
      BY <1>3, TailMembers
    <2> QED
      BY <2>1, <2>3, <2>4, EmptyQueue
  <1> QED
    BY <1>2, <1>3

(* A queue that is not empty holds the one process with an operation on    *)
(* the channel, which is not ready.                                        *)
LEMMA TheWaiter ==
  ASSUME IInv, NEW c \in Channel, waiters[c] # <<>>
  PROVE  /\ Len(waiters[c]) = 1 /\ Tail(waiters[c]) = <<>>
         /\ Head(waiters[c]) \in Proc /\ doing[Head(waiters[c])] = c
         /\ Range(waiters[c]) = {Head(waiters[c])}
         /\ \A p \in Proc : doing[p] = c => p = Head(waiters[c])
         /\ status[c] # "ready"
  <1> USE DEF IInv
  <1>1. waiters[c] \in Seq(Proc) /\ Len(waiters[c]) <= 1
    BY DEF DeviceTypes, OneUser
  <1>2. /\ Len(waiters[c]) = 1 /\ Tail(waiters[c]) = <<>>
        /\ Head(waiters[c]) \in Proc /\ Range(waiters[c]) = {Head(waiters[c])}
    BY <1>1, ShortQueue
  <1>3. doing[Head(waiters[c])] = c
    BY <1>2 DEF OneUser
  <1>4. c # NULL
    BY Channels
  <1>5. \A p \in Proc : doing[p] = c => p = Head(waiters[c])
    BY <1>2, <1>3, <1>4 DEF OneUser
  <1>6. status[c] # "ready"
    BY <1>2, <1>3, <1>4 DEF Underway
  <1> QED
    BY <1>2, <1>3, <1>5, <1>6

(* The invariant at boot.                                                  *)
LEMMA InitIInv == Init => IInv
  <1> SUFFICES ASSUME Init PROVE IInv
    OBVIOUS
  <1> USE DEF Init
  <1>1. DeviceTypes
    BY DEF DeviceTypes, Result
  <1>2. \A c \in Channel : Len(waiters[c]) = 0 /\ Range(waiters[c]) = {}
    BY EmptyQueue
  <1>3. \A p \in Proc : doing[p] = NULL
    OBVIOUS
  <1>4. OneUser
    BY <1>2, <1>3 DEF OneUser
  <1>5. MaskedWaits /\ Underway
    BY <1>3, Channels DEF MaskedWaits, Underway
  <1>6. Balanced
    <2> SUFFICES ASSUME NEW c \in Masked
                 PROVE  semaphoreArray[c] = 0 /\ status[c] = "ready" /\ -Len(waiters[c]) = 0
      BY DEF Balanced
    <2>1. c \in Channel /\ Len(waiters[c]) = 0
      BY <1>2, Channels
    <2>2. Len(waiters[c]) \in Nat
      BY <1>1, Channels DEF DeviceTypes
    <2>3. -Len(waiters[c]) = 0 <=> Len(waiters[c]) = 0
      BY <2>2, Negated
    <2> QED
      BY <2>1, <2>3
  <1> QED
    BY <1>1, <1>4, <1>5, <1>6 DEF IInv
--------------------------------------------------------------------------
(* A masked operation on a ready device finds the semaphore at zero, so it *)
(* waits.                                                                  *)
LEMMA MaskedStep ==
  ASSUME IInv, NEW p \in Proc, NEW c \in Channel, MaskedIO(p, c)
  PROVE  /\ semaphoreArray[c] = 0 /\ waiters[c] = <<>>
         /\ waiters' = [waiters EXCEPT ![c] = <<p>>]
         /\ doing' = [doing EXCEPT ![p] = c]
         /\ a1' = [a1 EXCEPT ![p] = NULL]
  <1> USE DEF IInv
  <1>1. status[c] = "ready" /\ c \in Masked
    BY DEF MaskedIO, MayStart
  <1>2. waiters[c] = <<>>
    BY <1>1, TheWaiter
  <1>3. semaphoreArray[c] = -Len(waiters[c])
    BY <1>1 DEF Balanced
  <1>4. semaphoreArray[c] = 0
    <2>1. Len(waiters[c]) = 0
      BY <1>2
    <2>2. Len(waiters[c]) \in Nat
      BY <1>2
    <2>3. -Len(waiters[c]) = 0 <=> Len(waiters[c]) = 0
      BY <2>2, Negated
    <2> QED
      BY <1>3, <2>1, <2>3
  <1>5. Append(waiters[c], p) = <<p>>
    BY <1>2
  <1>6. semaphoreArray[c] - 1 < 0
    BY <1>4
  <1> QED
    BY <1>2, <1>4, <1>5, <1>6 DEF MaskedIO, WaitForIO

LEMMA MaskedIOKeeps ==
  ASSUME IInv, NEW p \in Proc, NEW c \in Channel, MaskedIO(p, c)
  PROVE  IInv'
  <1> USE DEF IInv
  <1>1. /\ semaphoreArray[c] = 0 /\ waiters[c] = <<>>
        /\ waiters' = [waiters EXCEPT ![c] = <<p>>]
        /\ doing' = [doing EXCEPT ![p] = c]
        /\ a1' = [a1 EXCEPT ![p] = NULL]
    BY MaskedStep
  <1>2. /\ c \in Masked /\ MayStart(p, c)
        /\ status' = [status EXCEPT ![c] = "busy"]
        /\ semaphoreArray' = [semaphoreArray EXCEPT ![c] = @ - 1]
    BY DEF MaskedIO, WaitForIO
  <1>3. <<p>> \in Seq(Proc) /\ Len(<<p>>) = 1 /\ Range(<<p>>) = {p}
    BY DEF Range
  <1>4. DeviceTypes'
    <2>1. semaphoreArray' \in [Channel -> Int]
      BY <1>2 DEF DeviceTypes
    <2>2. waiters' \in [Channel -> Seq(Proc)]
      BY <1>1, <1>3 DEF DeviceTypes
    <2>3. /\ status' \in [Channel -> {"ready", "busy"} \cup Result]
          /\ a1' = [q \in Proc |-> a1'[q]]
          /\ doing' \in [Proc -> Channel \cup {NULL}]
      BY <1>1, <1>2 DEF DeviceTypes
    <2> QED
      BY <2>1, <2>2, <2>3 DEF DeviceTypes
  <1>5. \A q \in Proc : doing[q] # c
    BY <1>2 DEF MayStart
  <1>6. \A d \in Channel : p \notin Range(waiters[d])
    BY <1>2 DEF MayStart, Waiting
  <1>7. OneUser'
    <2>1. ASSUME NEW q \in Proc, NEW r \in Proc, doing'[q] = doing'[r], doing'[q] # NULL
          PROVE  q = r
      BY <1>1, <1>5, <2>1 DEF OneUser, DeviceTypes
    <2>2. ASSUME NEW d \in Channel, NEW q \in Range(waiters'[d]) PROVE doing'[q] = d
      <3>1. CASE d = c
        BY <1>1, <1>3, <3>1 DEF DeviceTypes
      <3>2. CASE d # c
        <4>1. waiters'[d] = waiters[d]
          BY <1>1, <3>2 DEF DeviceTypes
        <4>2. q # p /\ doing[q] = d
          BY <1>6, <4>1 DEF OneUser
        <4> QED
          BY <1>1, <4>2 DEF DeviceTypes
      <3> QED
        BY <3>1, <3>2
    <2>3. ASSUME NEW d \in Channel PROVE Len(waiters'[d]) <= 1
      BY <1>1, <1>3 DEF OneUser, DeviceTypes
    <2> QED
      BY <2>1, <2>2, <2>3 DEF OneUser
  <1>8. MaskedWaits'
    <2> SUFFICES ASSUME NEW q \in Proc, doing'[q] \in Masked
                 PROVE  q \in Range(waiters'[doing'[q]])
      BY DEF MaskedWaits
    <2>1. CASE q = p
      BY <1>1, <1>3, <2>1 DEF DeviceTypes
    <2>2. CASE q # p
      <3>1. doing'[q] = doing[q] /\ doing[q] # c
        BY <1>1, <1>5, <2>2 DEF DeviceTypes
      <3>2. waiters'[doing[q]] = waiters[doing[q]]
        BY <1>1, <3>1, Channels DEF DeviceTypes
      <3> QED
        BY <3>1, <3>2 DEF MaskedWaits
    <2> QED
      BY <2>1, <2>2
  <1>9. Underway'
    BY <1>1, <1>2 DEF Underway, DeviceTypes
  <1>10. Balanced'
    <2> SUFFICES ASSUME NEW d \in Masked
                 PROVE  /\ d \in Disk => semaphoreArray'[d] = IF status'[d] = "ready" THEN 0 ELSE -1
                        /\ status'[d] = "ready" \/ waiters'[d] # <<>>
                             => semaphoreArray'[d] = -Len(waiters'[d])
      BY DEF Balanced
    <2>1. CASE d = c
      BY <1>1, <1>2, <1>3, <2>1 DEF DeviceTypes
    <2>2. CASE d # c
      <3>1. /\ status'[d] = status[d] /\ waiters'[d] = waiters[d]
            /\ semaphoreArray'[d] = semaphoreArray[d]
        BY <1>1, <1>2, <2>2, Channels DEF DeviceTypes
      <3> QED
        BY <3>1 DEF Balanced
    <2> QED
      BY <2>1, <2>2
  <1> QED
    BY <1>4, <1>7, <1>8, <1>9, <1>10

(* The command of print.                                                   *)
LEMMA Unmasked ==
  ASSUME NEW t \in Console
  PROVE  Transm(t) \in Channel /\ Transm(t) \notin Masked
  BY DeviceAssumption DEF Channel, Masked, Transm

LEMMA CommandKeeps ==
  ASSUME IInv, NEW p \in Proc, NEW c \in Channel, Command(p, c)
  PROVE  IInv'
  <1> USE DEF IInv
  <1>1. /\ MayStart(p, c)
        /\ status' = [status EXCEPT ![c] = "busy"]
        /\ doing' = [doing EXCEPT ![p] = c]
        /\ UNCHANGED <<semaphoreArray, waiters, a1>>
    BY DEF Command
  <1>2. c \notin Masked
    BY Unmasked DEF Command
  <1>3. \A q \in Proc : doing[q] # c
    BY <1>1 DEF MayStart
  <1>4. \A d \in Channel : p \notin Range(waiters[d])
    BY <1>1 DEF MayStart, Waiting
  <1>5. DeviceTypes'
    BY <1>1 DEF DeviceTypes
  <1>6. OneUser'
    <2>1. ASSUME NEW q \in Proc, NEW r \in Proc, doing'[q] = doing'[r], doing'[q] # NULL
          PROVE  q = r
      BY <1>1, <1>3, <2>1 DEF OneUser, DeviceTypes
    <2>2. ASSUME NEW d \in Channel, NEW q \in Range(waiters[d]) PROVE doing'[q] = d
      BY <1>1, <1>4 DEF OneUser, DeviceTypes
    <2> QED
      BY <1>1, <2>1, <2>2 DEF OneUser
  <1>7. MaskedWaits'
    BY <1>1, <1>2 DEF MaskedWaits, DeviceTypes
  <1>8. Underway'
    BY <1>1 DEF Underway, DeviceTypes
  <1>9. Balanced'
    BY <1>1, <1>2, Channels DEF Balanced, DeviceTypes
  <1> QED
    BY <1>5, <1>6, <1>7, <1>8, <1>9

(* SYSCALL 8 after it: the process blocks alone, or is given a status.     *)
LEMMA AwaitStatusKeeps ==
  ASSUME IInv, NEW p \in Proc, NEW c \in Channel, AwaitStatus(p, c)
  PROVE  IInv'
  <1> USE DEF IInv
  <1>1. /\ c \notin Masked /\ doing[p] = c /\ c # NULL
        /\ status' = status
        /\ semaphoreArray' = [semaphoreArray EXCEPT ![c] = @ - 1]
        /\ \A d \in Channel : p \notin Range(waiters[d])
    BY Channels DEF AwaitStatus, WaitForIO, Waiting
  <1>2. waiters[c] = <<>>
    <2>1. waiters[c] # <<>> => p \in Range(waiters[c])
      BY <1>1, TheWaiter
    <2> QED
      BY <1>1, <2>1
  <1>3. Append(waiters[c], p) = <<p>>
    BY <1>2
  <1>4. \/ /\ waiters' = [waiters EXCEPT ![c] = <<p>>]
           /\ doing' = [doing EXCEPT ![p] = c]
           /\ a1' = [a1 EXCEPT ![p] = NULL]
        \/ /\ waiters' = waiters
           /\ doing' = [doing EXCEPT ![p] = NULL]
           /\ a1' = [a1 EXCEPT ![p] = devStatus[c]]
    BY <1>3 DEF AwaitStatus, WaitForIO
  <1>5. <<p>> \in Seq(Proc) /\ Len(<<p>>) = 1 /\ Range(<<p>>) = {p}
    BY DEF Range
  <1>6. semaphoreArray' \in [Channel -> Int]
    BY <1>1 DEF DeviceTypes
  <1>7. DeviceTypes'
    <2>1. waiters' \in [Channel -> Seq(Proc)]
      BY <1>4, <1>5 DEF DeviceTypes
    <2>2. /\ status' \in [Channel -> {"ready", "busy"} \cup Result]
          /\ a1' = [q \in Proc |-> a1'[q]]
          /\ doing' \in [Proc -> Channel \cup {NULL}]
      BY <1>1, <1>4 DEF DeviceTypes
    <2> QED
      BY <1>6, <2>1, <2>2 DEF DeviceTypes
  <1>8. \A q \in Proc : q # p => doing'[q] = doing[q] /\ doing[q] # c
    BY <1>1, <1>4 DEF DeviceTypes, OneUser
  <1>9. doing'[p] \in {c, NULL} /\ (waiters'[c] # <<>> => doing'[p] = c)
    BY <1>2, <1>4 DEF DeviceTypes
  <1>10. \A d \in Channel : d # c => waiters'[d] = waiters[d]
    BY <1>4 DEF DeviceTypes
  <1>11. waiters'[c] = <<>> \/ waiters'[c] = <<p>>
    BY <1>2, <1>4 DEF DeviceTypes
  <1>12. OneUser'
    <2>1. ASSUME NEW q \in Proc, NEW r \in Proc, doing'[q] = doing'[r], doing'[q] # NULL
          PROVE  q = r
      BY <1>8, <1>9, <2>1 DEF OneUser
    <2>2. ASSUME NEW d \in Channel, NEW q \in Range(waiters'[d]) PROVE doing'[q] = d
      <3>1. CASE d = c
        BY <1>5, <1>9, <1>11, <3>1, EmptyQueue
      <3>2. CASE d # c
        <4>1. q \in Range(waiters[d]) /\ q # p /\ doing[q] = d
          BY <1>1, <1>10, <3>2 DEF OneUser
        <4>2. q \in Proc
          BY <4>1, MemberType DEF DeviceTypes
        <4> QED
          BY <1>8, <4>1, <4>2
      <3> QED
        BY <3>1, <3>2
    <2>3. ASSUME NEW d \in Channel PROVE Len(waiters'[d]) <= 1
      <3>1. CASE d # c
        BY <1>10, <3>1 DEF OneUser
      <3>2. CASE waiters'[d] = <<>>
        BY <3>2
      <3>3. CASE waiters'[d] = <<p>>
        BY <3>3
      <3> QED
        BY <1>11, <3>1, <3>2, <3>3
    <2> QED
      BY <2>1, <2>2, <2>3 DEF OneUser
  <1>13. MaskedWaits'
    <2> SUFFICES ASSUME NEW q \in Proc, doing'[q] \in Masked
                 PROVE  q \in Range(waiters'[doing'[q]])
      BY DEF MaskedWaits
    <2>1. q # p
      BY <1>1, <1>9, Channels
    <2>2. doing'[q] = doing[q] /\ doing[q] # c
      BY <1>8, <2>1
    <2>3. waiters'[doing[q]] = waiters[doing[q]]
      BY <1>10, <2>2, Channels
    <2> QED
      BY <2>2, <2>3 DEF MaskedWaits
  <1>14. Underway'
    BY <1>1, <1>8, <1>9 DEF Underway
  <1>15. Balanced'
    <2>1. \A d \in Masked : /\ status'[d] = status[d] /\ waiters'[d] = waiters[d]
                            /\ semaphoreArray'[d] = semaphoreArray[d]
      BY <1>1, <1>10, Channels DEF DeviceTypes
    <2> QED
      BY <2>1 DEF Balanced
  <1> QED
    BY <1>7, <1>12, <1>13, <1>14, <1>15

(* The device finishes.                                                    *)
LEMMA CompleteKeeps ==
  ASSUME IInv, NEW c \in Channel, Complete(c)
  PROVE  IInv'
  <1> USE DEF IInv
  <1>1. PICK r \in Result : status' = [status EXCEPT ![c] = r]
    BY DEF Complete
  <1>2. status[c] = "busy" /\ UNCHANGED <<semaphoreArray, waiters, a1, doing>>
    BY DEF Complete
  <1>3. \A d \in Channel : status'[d] = "ready" <=> status[d] = "ready"
    BY <1>1, <1>2 DEF DeviceTypes, Result
  <1>4. DeviceTypes'
    BY <1>1, <1>2 DEF DeviceTypes
  <1>5. OneUser' /\ MaskedWaits'
    BY <1>2 DEF OneUser, MaskedWaits
  <1>6. Underway'
    BY <1>2, <1>3 DEF Underway, DeviceTypes
  <1>7. Balanced'
    BY <1>2, <1>3, Channels DEF Balanced
  <1> QED
    BY <1>4, <1>5, <1>6, <1>7

(* The V of an interrupt releases the waiter of a channel or nobody.       *)
Released(c) ==
  /\ semaphoreArray[c] + 1 <= 0 /\ waiters[c] # <<>>
  /\ waiters' = [waiters EXCEPT ![c] = <<>>]
  /\ a1' = [a1 EXCEPT ![Head(waiters[c])] = status[c]]
  /\ doing' = [doing EXCEPT ![Head(waiters[c])] = NULL]

Nobody(c) ==
  /\ ~(semaphoreArray[c] + 1 <= 0 /\ waiters[c] # <<>>)
  /\ UNCHANGED <<waiters, a1, doing>>

LEMMA VStep ==
  ASSUME IInv, NEW c \in Channel, V(c)
  PROVE  /\ semaphoreArray' = [semaphoreArray EXCEPT ![c] = @ + 1]
         /\ Released(c) \/ Nobody(c)
  BY TheWaiter DEF V, Released, Nobody

LEMMA VKeeps ==
  ASSUME IInv, NEW c \in Channel, V(c),
         status' \in [Channel -> {"ready", "busy"} \cup Result]
  PROVE  DeviceTypes' /\ OneUser' /\ MaskedWaits'
  <1> USE DEF IInv
  <1>1. /\ semaphoreArray' = [semaphoreArray EXCEPT ![c] = @ + 1]
        /\ Released(c) \/ Nobody(c)
    BY VStep
  <1>2. semaphoreArray' \in [Channel -> Int]
    BY <1>1 DEF DeviceTypes
  <1>3. CASE Nobody(c)
    BY <1>2, <1>3 DEF Nobody, DeviceTypes, OneUser, MaskedWaits
  <1>4. CASE Released(c)
    <2> DEFINE h == Head(waiters[c])
    <2>1. /\ waiters' = [waiters EXCEPT ![c] = <<>>]
          /\ a1' = [a1 EXCEPT ![h] = status[c]]
          /\ doing' = [doing EXCEPT ![h] = NULL]
      BY <1>4 DEF Released
    <2>2. h \in Proc /\ doing[h] = c /\ Range(waiters[c]) = {h}
      BY <1>4, TheWaiter DEF Released
    <2> HIDE DEF h
    <2>3. Range(<<>>) = {} /\ Len(<<>>) = 0 /\ <<>> \in Seq(Proc)
      BY EmptyQueue
    <2>4. DeviceTypes'
      <3>1. waiters' \in [Channel -> Seq(Proc)]
        BY <2>1, <2>3 DEF DeviceTypes
      <3>2. a1' = [p \in Proc |-> a1'[p]] /\ doing' \in [Proc -> Channel \cup {NULL}]
        BY <2>1, <2>2 DEF DeviceTypes
      <3> QED
        BY <1>2, <3>1, <3>2 DEF DeviceTypes
    <2>5. OneUser'
      <3>1. ASSUME NEW q \in Proc, NEW r \in Proc, doing'[q] = doing'[r], doing'[q] # NULL
            PROVE  q = r
        BY <2>1, <2>2, <3>1 DEF OneUser, DeviceTypes
      <3>2. ASSUME NEW d \in Channel, NEW q \in Range(waiters'[d]) PROVE doing'[q] = d
        <4>1. d # c /\ waiters'[d] = waiters[d]
          BY <2>1, <2>3 DEF DeviceTypes
        <4>2. doing[q] = d /\ q # h
          BY <2>2, <4>1 DEF OneUser
        <4> QED
          BY <2>1, <4>2 DEF DeviceTypes
      <3>3. ASSUME NEW d \in Channel PROVE Len(waiters'[d]) <= 1
        BY <2>1, <2>3 DEF OneUser, DeviceTypes
      <3> QED
        BY <3>1, <3>2, <3>3 DEF OneUser
    <2>6. MaskedWaits'
      <3> SUFFICES ASSUME NEW q \in Proc, doing'[q] \in Masked
                   PROVE  q \in Range(waiters'[doing'[q]])
        BY DEF MaskedWaits
      <3>1. q # h /\ doing'[q] = doing[q]
        BY <2>1, <2>2, Channels DEF DeviceTypes
      <3>2. q \in Range(waiters[doing[q]])
        BY <3>1 DEF MaskedWaits
      <3>3. doing[q] # c
        BY <2>2, <3>1, <3>2
      <3>4. waiters'[doing[q]] = waiters[doing[q]]
        BY <2>1, <3>1, <3>3, Channels DEF DeviceTypes
      <3> QED
        BY <3>1, <3>2, <3>4
    <2> QED
      BY <2>4, <2>5, <2>6
  <1> QED
    BY <1>1, <1>3, <1>4

(* A disk is acknowledged in every case: whoever used it has been released.*)
LEMMA DiskInterruptKeeps ==
  ASSUME IInv, NEW d \in Disk, DiskInterrupt(d)
  PROVE  IInv'
  <1> USE DEF IInv
  <1>1. d \in Masked /\ d \in Channel
    BY Channels
  <1>2. V(d) /\ status[d] \in Result /\ status' = [status EXCEPT ![d] = "ready"]
    BY DEF DiskInterrupt, Interrupts, Acknowledge, Result
  <1>3. status' \in [Channel -> {"ready", "busy"} \cup Result]
    BY <1>2 DEF DeviceTypes
  <1>4. DeviceTypes' /\ OneUser' /\ MaskedWaits'
    BY <1>1, <1>2, <1>3, VKeeps
  <1>5. /\ semaphoreArray' = [semaphoreArray EXCEPT ![d] = @ + 1]
        /\ Released(d) \/ Nobody(d)
    BY <1>1, <1>2, VStep
  <1>6. semaphoreArray[d] = -1
    BY <1>1, <1>2 DEF Balanced, Result
  <1>7. waiters'[d] = <<>> /\ \A c \in Channel : c # d => waiters'[c] = waiters[c]
    <2>1. semaphoreArray[d] + 1 <= 0
      BY <1>6
    <2> QED
      BY <1>1, <1>5, <2>1 DEF Released, Nobody, DeviceTypes
  <1>8. Underway'
    <2> SUFFICES ASSUME NEW p \in Proc, doing'[p] # NULL
                 PROVE  status'[doing'[p]] # "ready"
      BY DEF Underway
    <2>1. doing'[p] = doing[p]
      BY <1>1, <1>5, TheWaiter DEF Released, Nobody, DeviceTypes
    <2>2. doing[p] # d
      <3>1. ASSUME doing[p] = d PROVE FALSE
        <4>1. p \in Range(waiters'[d])
          BY <1>1, <1>4, <2>1, <3>1 DEF MaskedWaits
        <4> QED
          BY <1>7, <4>1, EmptyQueue
      <3> QED
        BY <3>1
    <2>3. status[doing[p]] # "ready" /\ doing[p] \in Channel
      BY <2>1 DEF Underway, DeviceTypes
    <2> QED
      BY <1>2, <2>1, <2>2, <2>3 DEF DeviceTypes
  <1>9. Balanced'
    <2> SUFFICES ASSUME NEW c \in Masked
                 PROVE  /\ c \in Disk => semaphoreArray'[c] = IF status'[c] = "ready" THEN 0 ELSE -1
                        /\ status'[c] = "ready" \/ waiters'[c] # <<>>
                             => semaphoreArray'[c] = -Len(waiters'[c])
      BY DEF Balanced
    <2>1. CASE c = d
      <3>1. semaphoreArray'[c] = 0 /\ status'[c] = "ready"
        BY <1>1, <1>2, <1>5, <1>6, <2>1 DEF DeviceTypes
      <3>2. Len(waiters'[c]) \in Nat /\ Len(waiters'[c]) = 0
        BY <1>7, <2>1
      <3>3. -Len(waiters'[c]) = 0 <=> Len(waiters'[c]) = 0
        BY <3>2, Negated
      <3> QED
        BY <3>1, <3>2, <3>3
    <2>2. CASE c # d
      <3>1. /\ status'[c] = status[c] /\ waiters'[c] = waiters[c]
            /\ semaphoreArray'[c] = semaphoreArray[c]
        BY <1>2, <1>5, <1>7, <2>2, Channels DEF DeviceTypes
      <3> QED
        BY <3>1 DEF Balanced
    <2> QED
      BY <2>1, <2>2
  <1> QED
    BY <1>4, <1>8, <1>9

(* A terminal is acknowledged only with its waiter released.               *)
Direction(t) == IF status[Transm(t)] # "ready" THEN Transm(t) ELSE Recv(t)

LEMMA DirectionNotReady ==
  ASSUME IInv, NEW t \in Terminal, TerminalInterrupt(t)
  PROVE  /\ Direction(t) \in Channel /\ Direction(t) \notin Disk
         /\ status[Direction(t)] # "ready" /\ V(Direction(t))
         /\ \/ Released(Direction(t)) /\ status' = Acknowledge(Direction(t))
            \/ Nobody(Direction(t)) /\ status' = status
  <1> DEFINE c == Direction(t)
  <1>1. c \in Channel /\ c \notin Disk
    BY Channels DEF Direction
  <1>2. status[c] # "ready"
    BY DEF TerminalInterrupt, Interrupts, Direction, Result
  <1>3. V(c) /\ status' = IF semaphoreArray[c] + 1 <= 0 /\ waiters[c] # <<>>
                            THEN Acknowledge(c) ELSE status
    BY DEF TerminalInterrupt, Direction
  <1> HIDE DEF c
  <1>4. \/ Released(c) /\ status' = Acknowledge(c)
        \/ Nobody(c) /\ status' = status
    BY <1>1, <1>3, VStep DEF Released, Nobody
  <1> QED
    BY <1>1, <1>2, <1>3, <1>4 DEF c

LEMMA TerminalInterruptKeeps ==
  ASSUME IInv, NEW t \in Terminal, TerminalInterrupt(t)
  PROVE  IInv'
  <1> USE DEF IInv
  <1> DEFINE c == Direction(t)
  <1>1. /\ c \in Channel /\ c \notin Disk /\ status[c] # "ready" /\ V(c)
        /\ \/ Released(c) /\ status' = Acknowledge(c)
           \/ Nobody(c) /\ status' = status
    BY DirectionNotReady
  <1> HIDE DEF c
  <1>2. status' \in [Channel -> {"ready", "busy"} \cup Result]
    BY <1>1 DEF DeviceTypes, Acknowledge
  <1>3. DeviceTypes' /\ OneUser' /\ MaskedWaits'
    BY <1>1, <1>2, VKeeps
  <1>4. semaphoreArray' = [semaphoreArray EXCEPT ![c] = @ + 1]
    BY <1>1, VStep
  <1>5. \A d \in Channel : d # c => /\ status'[d] = status[d]
                                    /\ waiters'[d] = waiters[d]
                                    /\ semaphoreArray'[d] = semaphoreArray[d]
    BY <1>1, <1>4 DEF Released, Nobody, DeviceTypes, Acknowledge
  <1>6. Underway'
    <2> SUFFICES ASSUME NEW p \in Proc, doing'[p] # NULL
                 PROVE  status'[doing'[p]] # "ready"
      BY DEF Underway
    <2>1. CASE Released(c)
      <3>1. p # Head(waiters[c]) /\ doing'[p] = doing[p] /\ doing[p] # c
        BY <1>1, <2>1, TheWaiter DEF Released, DeviceTypes
      <3>2. status[doing[p]] # "ready" /\ doing[p] \in Channel
        BY <3>1 DEF Underway, DeviceTypes
      <3> QED
        BY <1>5, <3>1, <3>2
    <2>2. CASE Nobody(c) /\ status' = status
      BY <2>2 DEF Nobody, Underway
    <2> QED
      BY <1>1, <2>1, <2>2
  <1>7. ASSUME c \in Masked
        PROVE  status'[c] = "ready" \/ waiters'[c] # <<>>
                 => semaphoreArray'[c] = -Len(waiters'[c])
    <2>1. waiters[c] # <<>> => semaphoreArray[c] = -1
      <3>1. ASSUME waiters[c] # <<>> PROVE semaphoreArray[c] = -Len(waiters[c])
        BY <1>7, <3>1 DEF Balanced
      <3>2. ASSUME waiters[c] # <<>> PROVE Len(waiters[c]) = 1
        BY <1>1, <3>2, TheWaiter
      <3> QED
        BY <3>1, <3>2
    <2>2. CASE Released(c)
      <3>1. semaphoreArray'[c] = 0 /\ waiters'[c] = <<>>
        BY <1>1, <1>4, <2>1, <2>2 DEF Released, DeviceTypes
      <3>2. Len(waiters'[c]) \in Nat /\ Len(waiters'[c]) = 0
        BY <3>1
      <3>3. -Len(waiters'[c]) = 0 <=> Len(waiters'[c]) = 0
        BY <3>2, Negated
      <3> QED
        BY <3>1, <3>2, <3>3
    <2>3. CASE Nobody(c) /\ status' = status
      <3>1. waiters[c] = <<>>
        BY <2>1, <2>3 DEF Nobody
      <3> QED
        BY <1>1, <2>3, <3>1 DEF Nobody
    <2> QED
      BY <1>1, <2>2, <2>3
  <1>8. Balanced'
    <2> SUFFICES ASSUME NEW d \in Masked
                 PROVE  /\ d \in Disk => semaphoreArray'[d] = IF status'[d] = "ready" THEN 0 ELSE -1
                        /\ status'[d] = "ready" \/ waiters'[d] # <<>>
                             => semaphoreArray'[d] = -Len(waiters'[d])
      BY DEF Balanced
    <2>1. CASE d = c
      BY <1>1, <1>7, <2>1
    <2>2. CASE d # c
      <3>1. /\ status'[d] = status[d] /\ waiters'[d] = waiters[d]
            /\ semaphoreArray'[d] = semaphoreArray[d]
        BY <1>5, <2>2, Channels
      <3> QED
        BY <3>1 DEF Balanced
    <2> QED
      BY <2>1, <2>2
  <1> QED
    BY <1>3, <1>6, <1>8

(* The dead process leaves its queue, and the semaphore waits.             *)
LEMMA KillKeeps ==
  ASSUME IInv, NEW p \in Proc, Kill(p)
  PROVE  IInv'
  <1> USE DEF IInv
  <1>1. /\ waiters' = [c \in Channel |-> RemoveFirst(waiters[c], p)]
        /\ doing' = [doing EXCEPT ![p] = NULL]
        /\ UNCHANGED <<status, semaphoreArray, a1>>
    BY DEF Kill
  <1>2. ASSUME NEW c \in Channel
        PROVE  /\ waiters'[c] \in Seq(Proc)
               /\ p \notin Range(waiters[c]) => waiters'[c] = waiters[c]
               /\ p \in Range(waiters[c]) => waiters'[c] = <<>> /\ waiters[c] # <<>>
               /\ Range(waiters'[c]) = Range(waiters[c]) \ {p}
    <2>1. waiters[c] \in Seq(Proc) /\ Len(waiters[c]) <= 1
      BY DEF DeviceTypes, OneUser
    <2>2. waiters'[c] = RemoveFirst(waiters[c], p)
      BY <1>1
    <2>3. IsInjective(waiters[c])
      BY <2>1, ShortQueue
    <2>4. /\ waiters'[c] \in Seq(Proc)
          /\ p \notin Range(waiters[c]) => waiters'[c] = waiters[c]
          /\ p \in Range(waiters[c]) => Len(waiters'[c]) = Len(waiters[c]) - 1
          /\ Range(waiters'[c]) = Range(waiters[c]) \ {p}
      BY <2>1, <2>2, <2>3, RemoveMembers
    <2>5. ASSUME p \in Range(waiters[c]) PROVE waiters'[c] = <<>> /\ waiters[c] # <<>>
      <3>1. waiters[c] # <<>>
        BY <2>5, EmptyQueue
      <3>2. Range(waiters[c]) = {p}
        BY <2>1, <2>5, <3>1, ShortQueue
      <3>3. Range(waiters'[c]) = {}
        BY <2>4, <3>2
      <3> QED
        BY <2>4, <3>1, <3>3, MemberType
    <2> QED
      BY <2>4, <2>5
  <1>3. \A q \in Proc : q # p => doing'[q] = doing[q]
    BY <1>1 DEF DeviceTypes
  <1>4. doing'[p] = NULL
    BY <1>1 DEF DeviceTypes
  <1>5. DeviceTypes'
    <2>1. waiters' \in [Channel -> Seq(Proc)]
      BY <1>1, <1>2
    <2> QED
      BY <1>1, <2>1 DEF DeviceTypes
  <1>6. OneUser'
    <2>1. ASSUME NEW q \in Proc, NEW r \in Proc, doing'[q] = doing'[r], doing'[q] # NULL
          PROVE  q = r
      BY <1>3, <1>4, <2>1 DEF OneUser
    <2>2. ASSUME NEW c \in Channel, NEW q \in Range(waiters'[c]) PROVE doing'[q] = c
      <3>1. q \in Range(waiters[c]) /\ q # p
        BY <1>2
      <3>2. q \in Proc
        BY <3>1, MemberType DEF DeviceTypes
      <3> QED
        BY <1>3, <3>1, <3>2 DEF OneUser
    <2>3. ASSUME NEW c \in Channel PROVE Len(waiters'[c]) <= 1
      <3>1. waiters'[c] = waiters[c] \/ waiters'[c] = <<>>
        BY <1>2
      <3>2. CASE waiters'[c] = waiters[c]
        BY <3>2 DEF OneUser
      <3>3. CASE waiters'[c] = <<>>
        BY <3>3
      <3> QED
        BY <3>1, <3>2, <3>3
    <2> QED
      BY <2>1, <2>2, <2>3 DEF OneUser
  <1>7. MaskedWaits'
    <2> SUFFICES ASSUME NEW q \in Proc, doing'[q] \in Masked
                 PROVE  q \in Range(waiters'[doing'[q]])
      BY DEF MaskedWaits
    <2>1. q # p /\ doing'[q] = doing[q] /\ doing[q] \in Channel
      BY <1>3, <1>4, Channels
    <2>2. q \in Range(waiters[doing[q]])
      BY <2>1 DEF MaskedWaits
    <2> QED
      BY <1>2, <2>1, <2>2
  <1>8. Underway'
    BY <1>1, <1>3, <1>4 DEF Underway
  <1>9. Balanced'
    <2> SUFFICES ASSUME NEW c \in Masked
                 PROVE  /\ c \in Disk => semaphoreArray[c] = IF status[c] = "ready" THEN 0 ELSE -1
                        /\ status[c] = "ready" \/ waiters'[c] # <<>>
                             => semaphoreArray[c] = -Len(waiters'[c])
      BY <1>1 DEF Balanced
    <2>1. CASE p \notin Range(waiters[c])
      BY <1>2, <2>1, Channels DEF Balanced
    <2>2. CASE p \in Range(waiters[c])
      <3>1. waiters'[c] = <<>> /\ status[c] # "ready"
        BY <1>2, <2>2, Channels, TheWaiter
      <3> QED
        BY <3>1 DEF Balanced
    <2> QED
      BY <2>1, <2>2
  <1> QED
    BY <1>5, <1>6, <1>7, <1>8, <1>9
--------------------------------------------------------------------------
(* IInv is an invariant.                                                   *)
THEOREM DevicesInvariance == Spec => []IInv
  <1>1. Init => IInv
    BY InitIInv
  <1>2. IInv /\ [Next]_vars => IInv'
    <2> SUFFICES ASSUME IInv, [Next]_vars PROVE IInv'
      OBVIOUS
    <2>1. CASE \E p \in Proc, c \in Channel :
                 MaskedIO(p, c) \/ Command(p, c) \/ AwaitStatus(p, c)
      BY <2>1, MaskedIOKeeps, CommandKeeps, AwaitStatusKeeps
    <2>2. CASE \E c \in Channel : Complete(c)
      BY <2>2, CompleteKeeps
    <2>3. CASE \E d \in Disk : DiskInterrupt(d)
      BY <2>3, DiskInterruptKeeps
    <2>4. CASE \E t \in Terminal : TerminalInterrupt(t)
      BY <2>4, TerminalInterruptKeeps
    <2>5. CASE \E p \in Proc : Kill(p)
      BY <2>5, KillKeeps
    <2>6. CASE UNCHANGED vars
      BY <2>6 DEF vars, IInv, DeviceTypes, OneUser, MaskedWaits, Underway, Balanced
    <2> QED
      BY <2>1, <2>2, <2>3, <2>4, <2>5, <2>6 DEF Next
  <1> QED
    BY <1>1, <1>2, PTL DEF Spec

(* A process waits on a channel alone and with an interrupt to come: for   *)
(* SYSCALL 8 and both interrupt handlers, whoever is killed.               *)
THEOREM WakeupsKept == Spec => []NoLostWakeup
  <1>1. IInv => NoLostWakeup
    <2> SUFFICES ASSUME IInv, NEW c \in Channel, waiters[c] # <<>>
                 PROVE  Len(waiters[c]) = 1 /\ status[c] # "ready"
      BY DEF NoLostWakeup
    <2> QED
      BY TheWaiter
  <1> QED
    BY <1>1, DevicesInvariance, PTL

(* The semaphore of a masked channel counts its one operation, also after  *)
(* the death of its waiter: no SYSCALL 8 returns at once.                  *)
THEOREM SemaphoresBalanced == Spec => []Balanced
  <1>1. IInv => Balanced
    BY DEF IInv
  <1> QED
    BY <1>1, DevicesInvariance, PTL

(* SYSCALL 8 on a masked channel returns the status of the operation the   *)
(* process itself started.                                                 *)
OwnAnswer(p) ==
  doing[p] \in Masked /\ Alone(doing[p]) /\ doing'[p] = NULL =>
    Kill(p) \/ (status[doing[p]] \in Result /\ a1'[p] = status[doing[p]])

LEMMA ReleasedIsOwn ==
  ASSUME IInv, NEW c \in Channel, status[c] \in Result, Released(c) \/ Nobody(c),
         NEW p \in Proc, doing[p] # NULL, doing'[p] = NULL
  PROVE  doing[p] = c /\ a1'[p] = status[c]
  <1> USE DEF IInv
  <1>1. Released(c)
    BY DEF Nobody
  <1>2. Head(waiters[c]) \in Proc /\ doing[Head(waiters[c])] = c
    BY <1>1, TheWaiter DEF Released
  <1>3. p = Head(waiters[c])
    BY <1>1, <1>2 DEF Released, DeviceTypes
  <1> QED
    BY <1>1, <1>2, <1>3 DEF Released, DeviceTypes

THEOREM AnswersAreOwn == Spec => OwnStatus
  <1>1. IInv /\ [Next]_vars => [\A p \in Proc : OwnAnswer(p)]_vars
    <2> SUFFICES ASSUME IInv, Next, NEW p \in Proc, doing[p] \in Masked,
                        Alone(doing[p]), doing'[p] = NULL
                 PROVE  Kill(p) \/ (status[doing[p]] \in Result /\ a1'[p] = status[doing[p]])
      BY DEF OwnAnswer
    <2> USE DEF IInv
    <2>0. doing[p] # NULL /\ doing[p] \in Channel
      BY Channels
    <2>1. ASSUME NEW q \in Proc, NEW c \in Channel, MaskedIO(q, c) PROVE FALSE
      <3>1. doing' = [doing EXCEPT ![q] = c] /\ c # NULL
        BY <2>1, MaskedStep, Channels
      <3> QED
        BY <2>0, <3>1 DEF DeviceTypes
    <2>2. ASSUME NEW q \in Proc, NEW c \in Channel, Command(q, c) PROVE FALSE
      <3>1. doing' = [doing EXCEPT ![q] = c] /\ c # NULL
        BY <2>2, Channels DEF Command
      <3> QED
        BY <2>0, <3>1 DEF DeviceTypes
    <2>3. ASSUME NEW q \in Proc, NEW c \in Channel, AwaitStatus(q, c) PROVE FALSE
      <3>1. q # p
        BY <2>3 DEF AwaitStatus
      <3>2. doing'[p] = doing[p]
        BY <2>3, <3>1 DEF AwaitStatus, WaitForIO, DeviceTypes
      <3> QED
        BY <2>0, <3>2
    <2>4. ASSUME NEW c \in Channel, Complete(c) PROVE FALSE
      BY <2>0, <2>4 DEF Complete
    <2>5. ASSUME NEW d \in Disk, DiskInterrupt(d)
          PROVE  status[doing[p]] \in Result /\ a1'[p] = status[doing[p]]
      <3>1. d \in Channel /\ status[d] \in Result /\ (Released(d) \/ Nobody(d))
        BY <2>5, Channels, VStep DEF DiskInterrupt, Interrupts
      <3> QED
        BY <2>0, <3>1, ReleasedIsOwn
    <2>6. ASSUME NEW t \in Terminal, TerminalInterrupt(t)
          PROVE  status[doing[p]] \in Result /\ a1'[p] = status[doing[p]]
      <3> DEFINE c == Direction(t)
      <3>1. c \in Channel /\ (Released(c) \/ Nobody(c))
        BY <2>6, DirectionNotReady
      <3>2. doing[p] = c
        <4>1. Released(c)
          BY <2>0, <3>1 DEF Nobody
        <4>2. Head(waiters[c]) \in Proc /\ doing[Head(waiters[c])] = c
          BY <3>1, <4>1, TheWaiter DEF Released
        <4> QED
          BY <2>0, <4>1, <4>2 DEF Released, DeviceTypes
      <3>3. status[Recv(t)] = "ready" \/ status[Transm(t)] = "ready"
        BY <3>2 DEF Alone, Direction
      <3>4. status[c] \in Result
        BY <2>6, <3>3 DEF TerminalInterrupt, Interrupts, Direction, Result
      <3> HIDE DEF c
      <3> QED
        BY <2>0, <3>1, <3>4, ReleasedIsOwn
    <2>7. ASSUME NEW q \in Proc, Kill(q) PROVE Kill(p)
      <3>1. q = p
        BY <2>0, <2>7 DEF Kill, DeviceTypes
      <3> QED
        BY <2>7, <3>1
    <2> QED
      BY <2>1, <2>2, <2>3, <2>4, <2>5, <2>6, <2>7 DEF Next
  <1>2. Spec => [][\A p \in Proc : OwnAnswer(p)]_vars
    BY <1>1, DevicesInvariance, PTL DEF Spec
  <1> QED
    BY <1>2 DEF OwnStatus, OwnAnswer
==========================================================================
