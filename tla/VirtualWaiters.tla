-------------------------- MODULE VirtualWaiters -------------------------
(***************************************************************************)
(* What the active virtual semaphore list promises: the processes that     *)
(* wait for the virtual semaphores, in the order they came, MaxWaiting of  *)
(* them at most.  Avsl.tla does it with the nodes of avsl.c.               *)
(***************************************************************************)
EXTENDS Integers, SequencesExt

CONSTANTS Sem,         \* addresses of virtual semaphores
          ProcID,      \* numbers of user processes, from 1 on
          MaxWaiting

FALSE_ == 0
TRUE_  == 1

VARIABLES waiting,   \* who waits and for what, oldest first
          ret        \* what the last operation returned

Init == waiting = <<>> /\ ret = FALSE_

Block(a, p) ==
  IF Len(waiting) = MaxWaiting
    THEN ret' = FALSE_ /\ UNCHANGED waiting
    ELSE ret' = TRUE_ /\ waiting' = Append(waiting, [sem |-> a, proc |-> p])

(* The oldest waiter for a, wherever in the list it is.                    *)
Unblock(a) ==
  LET of == {i \in DOMAIN waiting : waiting[i].sem = a}
  IN  IF of = {}
        THEN ret' = FALSE_ /\ UNCHANGED waiting
        ELSE /\ ret' = waiting[Min(of)].proc
             /\ waiting' = RemoveAt(waiting, Min(of))

Next == \E a \in Sem : Unblock(a) \/ \E p \in ProcID : Block(a, p)
==========================================================================
