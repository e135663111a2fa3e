------------------------------- MODULE Links -----------------------------
(* Following one link of the nodes of a table: s_next, d_next, vs_next,    *)
(* p_next, p_prev or p_prevSib.                                            *)
EXTENDS Integers, Sequences, Functions, FiniteSetsExt

(* The first N nodes met from n on; null once the links end.               *)
Walk(link, n, null, N) ==
  LET w[i \in 1..N] ==
        IF i = 1 THEN n ELSE LET m == w[i - 1] IN IF m = null THEN null ELSE link[m]
  IN  w

(* The nodes from n on until the links end or are back at n, N at most.    *)
Linked(link, n, null, N) ==
  LET w == Walk(link, n, null, N)
      On(j) == w[j] # null /\ (j > 1 => w[j] # n)
  IN  [i \in {k \in 1..N : \A j \in 1..k : On(j)} |-> w[i]]
==========================================================================
