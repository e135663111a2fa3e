----------------------------- MODULE MCTraps -----------------------------
(* An instance of the exception handlers for TLC.                          *)
EXTENDS Traps

(* Process blocks are interchangeable: only their addresses differ.        *)
PCBSymmetry == Permutations(PCB)
==========================================================================
