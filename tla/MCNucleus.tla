---------------------------- MODULE MCNucleus ----------------------------
(* The nucleus and its semaphores for TLC; the instances are in the cfg    *)
(* files.                                                                  *)
EXTENDS NucleusSemaphore
==========================================================================
