-------------------------- MODULE MCPseudoClock --------------------------
(* Instances of the pseudo-clock for TLC.                                  *)
EXTENDS PseudoClock, TLC

(* Processes are interchangeable.                                          *)
ProcSymmetry == Permutations(Proc)
==========================================================================
