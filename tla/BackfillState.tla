--------------------------- MODULE BackfillState ---------------------------
(***************************************************************************)
(* The tables the roll-out of base connectivity keeps, and what must hold  *)
(* of them whatever mix of plans, dispatchers, switches and creations      *)
(* (BaseBackfill) works on them.                                           *)
(***************************************************************************)
EXTENDS Naturals

CONSTANTS
  VPCs,  \* numbers, in the order of tenant and id
  Runs   \* identities of backfill plans

VARIABLES
  vpc,      \* network_vpcs with the base connectivity of each
  rollout,  \* network_connectivity_rollout
  run,      \* network_base_backfill_runs
  cand      \* network_base_backfill_candidates

stored == <<vpc, rollout, run, cand>>

Live(v) == vpc[v].state \in {"provisioning", "available"}

-----------------------------------------------------------------------------
(***************************************************************************)
(* Properties.                                                             *)
(***************************************************************************)
\* Once legacy aggregation is active every VPC that is not being removed is
\* required to have base connectivity and has its base rows, however its
\* creation, the switches and the activation interleaved (the rollout lock of
\* AcceptVPC, SetNewVPCBaseConnectivity and ActivateLegacyBaseAggregation).
LegacyCoversAll ==
  rollout.legacy =>
    \A v \in VPCs : Live(v) => vpc[v].required /\ vpc[v].base # "none"

\* Base connectivity is admitted at most once for a VPC, by whatever mix of
\* creation, overlapping plans and concurrent dispatchers.
AdmittedOnce == \A v \in VPCs : vpc[v].admitted <= 1

\* Dispatchers share one rate: between two ends of the interval a run
\* processes at most one candidate (next_admission_at under the run's lock).
SharedRate == \A r \in Runs : run[r].recent <= 1

\* Nothing is admitted for a run after its pause has been committed, nor
\* before its review (SetBaseBackfillPaused against an open admission).
NothingWhilePaused ==
  [][\A r \in Runs, v \in VPCs :
       (cand[r][v] = "pending" /\ cand'[r][v] = "accepted")
         => ~run[r].paused /\ run[r].reviewed]_stored

\* A VPC whose removal has been accepted gets no base rows, though it was
\* eligible when the plan was reviewed and when the dispatcher chose it.
RemovalClosesAdmission ==
  [][\A v \in VPCs : (vpc[v].base = "none" /\ vpc'[v].base # "none")
                       => vpc[v].state \notin {"deleting", "deleted"}]_stored

\* When legacy aggregation becomes active, the facts of every VPC concerned
\* are fresh at that moment, though the checks took time.
ActivatedOnFreshFacts ==
  [][(~rollout.legacy /\ rollout'.legacy)
       => \A v \in VPCs : Live(v) => vpc[v].base = "ready" /\ vpc[v].fresh]_stored

\* What always holds of the tables: every VPC is covered once legacy
\* aggregation is active, and admitted once and at the shared rate.
BackfillSafety == LegacyCoversAll /\ AdmittedOnce /\ SharedRate

\* What no step may do: admit while a plan is paused or a VPC is being removed,
\* or activate on old facts.
BackfillSteps ==
  NothingWhilePaused /\ RemovalClosesAdmission /\ ActivatedOnFreshFacts
=============================================================================
