------------------------------ MODULE MCEgress ------------------------------
(***************************************************************************)
(* Egress for TLC, three components side by side:                          *)
(*   public    an EIP that a VPC's binding and a load balancer claim in    *)
(*             turn (PublicEgress)                                         *)
(*   base      a VPC with its base connectivity (BaseConnectivity, with    *)
(*             variables of its own)                                       *)
(*   backfill  the roll-out of base connectivity (BaseBackfill on          *)
(*             BackfillState)                                              *)
(*                                                                         *)
(* They share no variable and none enables or disables a step of another,  *)
(* so a behaviour takes the steps of one of them, chosen at the start,     *)
(* while the others stay as they began.                                    *)
(***************************************************************************)
EXTENDS PublicEgress, BackfillState

CONSTANTS e1, s1, v1, w1, w2, vpc1, eip1, snat1,
          Dispatchers, MaxBatch, MaxOrders,
          Parts  \* the components to choose from

VARIABLES baseRow, baseLane, baseNet, baseObj, baseMade, baseFaults,
          base, baseClaim, baseUp, baseBound,
          opening, act, disp, pool, orders,
          part  \* whose steps the behaviour takes

onlyBase == <<baseRow, baseLane, baseNet, baseObj, baseMade, baseFaults,
              base, baseClaim, baseUp, baseBound>>

onlyBackfill == <<stored, opening, act, disp, pool, orders>>

MCResources == {e1, s1}

Base ==
  INSTANCE BaseConnectivity
    WITH Resources <- {vpc1, eip1, snat1}, Vpc <- vpc1, Eip <- eip1, Snat <- snat1,
         Rollouts <- BOOLEAN,
         row <- baseRow, lane <- baseLane, net <- baseNet, obj <- baseObj,
         made <- baseMade, faults <- baseFaults,
         claim <- baseClaim, up <- baseUp, bound <- baseBound

Backfill == INSTANCE BaseBackfill

ASSUME BaseAssumption     == Base!BaseConstants
ASSUME BackfillAssumption == Backfill!BackfillConstants

Symmetry == Permutations(Workers)

MCInit ==
  /\ Init /\ Base!Init /\ Backfill!Init
  /\ part \in Parts
  /\ part # "backfill" => vpc = [x \in VPCs |-> Backfill!NoVpc]

MCNext ==
  \/ part = "public" /\ Next /\ UNCHANGED <<onlyBase, onlyBackfill, part>>
  \/ part = "base" /\ Base!Next /\ UNCHANGED <<vars, onlyBackfill, part>>
  \/ part = "backfill" /\ Backfill!Next /\ UNCHANGED <<vars, onlyBase, part>>

MCSpec == MCInit /\ [][MCNext]_<<vars, onlyBase, onlyBackfill, part>>

\* No fair action is enabled where a component begins, so the fairness of the
\* one that stays there asks for nothing.
MCFairSpec == MCSpec /\ Fairness /\ Base!Fairness

\* BaseConnectivity: clean-up in order, deleted means gone, the claim covers
\* the binding, and the parent hears of its children.
BaseSafety == Base!BaseSafety

\* BaseConnectivity: the VPC becomes available together with its parts.
AvailableTogether == Base!AvailableTogether

\* BaseConnectivity: it becomes ready, and its removal completes.
BaseProgress == Base!BaseProgress
=============================================================================
