------------------------- MODULE NucleusSemaphore ------------------------
(***************************************************************************)
(* The nucleus implements Semaphore.tla.  sem is any one semaphore of the  *)
(* processes (in UserSem): its permits are the positive part of the        *)
(* integer at its address and its waiters the queue of its descriptor, and *)
(* every step of the whole nucleus is a step of that semaphore or leaves   *)
(* it alone.                                                               *)
(***************************************************************************)
EXTENDS Nucleus

CONSTANT sem

Abstract ==
  INSTANCE Semaphore WITH Process <- PCB,
                          permits <- IF value[sem] > 0 THEN value[sem] ELSE 0,
                          waiting <- asl[sem]

(* A P passes only with a permit, a V wakes the process that has waited    *)
(* longest or leaves a permit, and a waiter that is killed takes none:     *)
(* SYSCALLs 3 and 4 and nukeItTilItPukes.                                  *)
ImplementsSemaphore == Abstract!Spec
==========================================================================
