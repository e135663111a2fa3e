--------------------------- MODULE MCVirtualSync --------------------------
(***************************************************************************)
(* An instance of VirtualSync: three processes, one semaphore, two nodes.  *)
(* No symmetry: a liveness property is checked.                            *)
(***************************************************************************)
EXTENDS VirtualSync

CONSTANTS p1, p2, p3

Few ==
  { p1 :> {"P", "DELAY"} @@ p2 :> {"V", "DELAY", "END"} @@ p3 :> {},
    p1 :> {"P"} @@ p2 :> {"V"} @@ p3 :> {"DELAY"},
    p1 :> {"P", "V"} @@ p2 :> {"P"} @@ p3 :> {"V", "END"} }
==========================================================================
