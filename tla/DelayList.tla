---------------------------- MODULE DelayList ----------------------------
(***************************************************************************)
(* What adl.c says of the active delay list: the delayed processes in      *)
(* increasing order of their wake-up times, whoever comes to be delayed in *)
(* its proper place.  Those that wake at the same time may stand in any    *)
(* order.                                                                  *)
(***************************************************************************)
EXTENDS Integers, SequencesExt

CONSTANTS ProcID, Time,
          MaxDelayed

FAILURE == -1
FALSE_  == 0
TRUE_   == 1

VARIABLES delayed,   \* who sleeps until when
          ret        \* what the last operation returned

Init == delayed = <<>> /\ ret = FALSE_

(* d may become the k-th of the list, behind all that wake earlier and in  *)
(* front of all that wake later, as far as these stand from i on.          *)
Fits(list, i, d, k) ==
  /\ \A j \in i..(k - 1) : list[j].wake <= d.wake
  /\ \A j \in k..Len(list) : d.wake <= list[j].wake

Enter(i, d) ==
  /\ Len(delayed) < MaxDelayed
  /\ ret' = TRUE_
  /\ \E k \in i..(Len(delayed) + 1) :
       Fits(delayed, i, d, k) /\ delayed' = InsertAt(delayed, k, d)

Sleep(w, p) ==
  \/ Len(delayed) = MaxDelayed /\ ret' = FALSE_ /\ UNCHANGED delayed
  \/ Enter(1, [wake |-> w, proc |-> p])

Wake ==
  IF delayed = <<>>
    THEN ret' = FAILURE /\ UNCHANGED delayed
    ELSE ret' = Head(delayed).proc /\ delayed' = Tail(delayed)

Look ==
  /\ ret' = IF delayed = <<>> THEN FAILURE ELSE Head(delayed).wake
  /\ UNCHANGED delayed

Next == Wake \/ Look \/ \E w \in Time, p \in ProcID : Sleep(w, p)

(* The list is in order.                                                   *)
Ascends == \A i, j \in DOMAIN delayed : i < j => delayed[i].wake <= delayed[j].wake
==========================================================================
