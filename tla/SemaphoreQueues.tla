------------------------- MODULE SemaphoreQueues -------------------------
(***************************************************************************)
(* What the active semaphore list promises: a queue of processes for every *)
(* semaphore address, not empty for MaxActive of them at once.  Asl.tla    *)
(* does it with the descriptors of asl.c.                                  *)
(***************************************************************************)
EXTENDS Integers, FiniteSets, SequencesExt

CONSTANTS PCB, Addr, MaxActive, NULL, TRUE_

VARIABLES waiting,   \* the processes blocked on each address, oldest first
          p_semAdd,  \* the address each process last blocked on
          ret        \* what the last operation returned

Blocked == UNION {Range(waiting[s]) : s \in Addr}
Active  == {s \in Addr : waiting[s] # <<>>}

Init ==
  /\ waiting = [s \in Addr |-> <<>>]
  /\ p_semAdd = [p \in PCB |-> NULL]
  /\ ret = NULL

Block(s, p) ==
  \/ /\ ret' = TRUE_
     /\ s \notin Active /\ Cardinality(Active) = MaxActive
     /\ UNCHANGED <<waiting, p_semAdd>>
  \/ /\ ret' = NULL
     /\ p_semAdd' = [p_semAdd EXCEPT ![p] = s]
     /\ s \in Active \/ Cardinality(Active) < MaxActive
     /\ p \notin Blocked
     /\ waiting' = [waiting EXCEPT ![s] = Append(@, p)]

Unblock(s) ==
  \/ waiting[s] = <<>> /\ ret' = NULL /\ UNCHANGED <<waiting, p_semAdd>>
  \/ /\ waiting[s] # <<>>
     /\ ret' = Head(waiting[s])
     /\ waiting' = [waiting EXCEPT ![s] = Tail(@)]
     /\ UNCHANGED p_semAdd

Withdraw(p) ==
  /\ UNCHANGED p_semAdd
  /\ ret' = IF p \in Blocked THEN p ELSE NULL
  /\ waiting' = [s \in Addr |-> RemoveFirst(waiting[s], p)]

Peek(s) ==
  /\ ret' = IF waiting[s] = <<>> THEN NULL ELSE Head(waiting[s])
  /\ UNCHANGED <<waiting, p_semAdd>>

Next ==
  \/ \E p \in PCB : Withdraw(p) \/ \E s \in Addr : Block(s, p)
  \/ \E s \in Addr : Unblock(s) \/ Peek(s)

Spec == Init /\ [][Next]_<<waiting, p_semAdd, ret>>
==========================================================================
