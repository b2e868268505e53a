----------------------------- MODULE MCLifecycle -----------------------------
(***************************************************************************)
(* Instances of ResourceLifecycle for TLC.                                 *)
(***************************************************************************)
EXTENDS ResourceInvariant, ResourceRefinement, TLC

CONSTANTS v1, s1, s2, w1, w2

OneParent  == s1 :> v1
TwoParents == s1 :> v1 @@ s2 :> v1
SamePair   == {<<s1, s2>>, <<s2, s1>>}

LaneSymmetry == Permutations(Workers)
=============================================================================
