--------------------------- MODULE MCUserMemory ---------------------------
(***************************************************************************)
(* Instances of UserMemory: two processes with two pages each, and two     *)
(* frames for the four.  Disk 2 has a buffer that no tape uses.            *)
(***************************************************************************)
EXTENDS UserMemory

Used == <<{0, 1}, {0}>>

Tapes == <<2, 1>>

Few ==
  { <<{"DISK", "ERROR"}, {"DISK"}>>,
    <<{"TERMINAL", "ERROR"}, {"END"}>> }
===========================================================================
