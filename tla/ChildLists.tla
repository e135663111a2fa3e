---------------------------- MODULE ChildLists ---------------------------
(***************************************************************************)
(* What the process tree of phase 1 promises: each process has a list of   *)
(* children, the newest first, and is in at most one such list.            *)
(***************************************************************************)
EXTENDS SequencesExt

CONSTANTS PCB, NULL

VARIABLES children,   \* the children of each process, newest first
          ret         \* what the last operation returned

Init == children = [p \in PCB |-> <<>>] /\ ret = NULL

ParentOf(p) == {q \in PCB : p \in Range(children[q])}

Adopt(prnt, p) ==
  /\ ParentOf(p) = {}
  /\ children' = [children EXCEPT ![prnt] = Cons(p, @)]
  /\ UNCHANGED ret

DropNewest(prnt) ==
  \/ children[prnt] = <<>> /\ ret' = NULL /\ UNCHANGED children
  \/ /\ children[prnt] # <<>>
     /\ ret' = Head(children[prnt])
     /\ children' = [children EXCEPT ![prnt] = Tail(@)]

Drop(p) ==
  /\ ret' = IF ParentOf(p) = {} THEN NULL ELSE p
  /\ children' = [q \in PCB |-> RemoveFirst(children[q], p)]

Next ==
  \E p \in PCB : DropNewest(p) \/ Drop(p) \/ \E q \in PCB \ {p} : Adopt(p, q)

Spec == Init /\ [][Next]_<<children, ret>>
==========================================================================
