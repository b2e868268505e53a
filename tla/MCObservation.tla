---------------------------- MODULE MCObservation ----------------------------
(***************************************************************************)
(* Instances of Observation for TLC: one row of each kind, about all       *)
(* objects.                                                                *)
(***************************************************************************)
EXTENDS Observation, TLC

OneOfEach    == [t \in Targets |-> t]
AllObjects   == [t \in Targets |-> Objects]
OwnProcess   == [w \in Lanes |-> w]
=============================================================================
