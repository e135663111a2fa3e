---------------------------- MODULE Semaphore ----------------------------
(***************************************************************************)
(* What one semaphore of the nucleus promises to the processes that use    *)
(* it: a number of permits that is never negative and a queue of the       *)
(* processes that wait for one.  SYSCALLs 3 and 4 of exceptions.c keep     *)
(* both in one signed integer and a queue of the active semaphore list;    *)
(* Nucleus.tla is shown to implement this module for every semaphore a     *)
(* process allocates.                                                      *)
(***************************************************************************)
EXTENDS Naturals, SequencesExt

CONSTANT Process

VARIABLES permits,   \* how many P operations can pass without waiting
          waiting    \* the processes waiting for a permit, oldest first

semaphore == <<permits, waiting>>

Init == permits \in Nat /\ waiting = <<>>

(* Passeren: take a permit, or join the end of the queue when there is none. *)
P(p) ==
  \/ /\ permits > 0
     /\ permits' = permits - 1
     /\ UNCHANGED waiting
  \/ /\ permits = 0
     /\ p \notin Range(waiting)
     /\ waiting' = Append(waiting, p)
     /\ UNCHANGED permits

(* Verhogen: hand the permit to the oldest waiter, or keep it.             *)
V ==
  \/ /\ waiting # <<>>
     /\ waiting' = Tail(waiting)
     /\ UNCHANGED permits
  \/ /\ waiting = <<>>
     /\ permits' = permits + 1
     /\ UNCHANGED waiting

(* A waiter that is killed leaves the queue and takes no permit with it.   *)
Leave(p) ==
  /\ p \in Range(waiting)
  /\ waiting' = RemoveFirst(waiting, p)
  /\ UNCHANGED permits

Next == V \/ \E p \in Process : P(p) \/ Leave(p)

Spec == Init /\ [][Next]_semaphore
==========================================================================
