--------------------------- MODULE MCLoadBalancer ---------------------------
(***************************************************************************)
(* Instances of LoadBalancer for TLC.                                      *)
(***************************************************************************)
EXTENDS LoadBalancer

CONSTANTS m1, m2, w1, w2

\* m1 is in the subnet of the entry address, m2 in another one.
Placed == [m \in Members |-> IF m = m1 THEN "s0" ELSE "s1"]

Lanes == Permutations(Workers)
=============================================================================
