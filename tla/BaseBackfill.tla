---------------------------- MODULE BaseBackfill ----------------------------
(***************************************************************************)
(* Bringing base connectivity to VPCs that were created before it existed: *)
(* reviewed plans (runs), dispatchers that admit one candidate at a time   *)
(* at a shared rate, and the rollout switches that put new VPCs on the     *)
(* base path and finally require it of every VPC.                          *)
(*                                                                         *)
(* A transaction is one step unless it waits for a second lock; then each  *)
(* lock is a step.  Locks: one per run row, one per VPC row, and the       *)
(* advisory lock of the rollout.  The tables are in BackfillState.         *)
(***************************************************************************)
EXTENDS BackfillState, Integers, FiniteSets, FiniteSetsExt

CONSTANTS
  Dispatchers,  \* processes of the administrative command
  MaxBatch,     \* -base-max of each dispatch
  MaxOrders     \* bound on the operator's commands

BackfillConstants ==
  /\ VPCs \subseteq Nat /\ MaxBatch \in Nat \ {0} /\ MaxOrders \in Nat
  /\ "free" \notin Dispatchers  \* the name of nobody

VARIABLES
  opening,  \* the transaction of AcceptVPC for each VPC
  act,      \* the transaction of ActivateLegacyBaseAggregation
  disp,     \* the dispatchers
  pool,     \* the intranet pool passes poolReady
  orders

vars == <<stored, opening, act, disp, pool, orders>>

NoVpc == [state |-> "none", active |-> FALSE, base |-> "none", fresh |-> FALSE,
          required |-> FALSE, admitted |-> 0]
Legacy == [NoVpc EXCEPT !.state = "available"]
NoRun  == [planned |-> FALSE, paused |-> TRUE, reviewed |-> FALSE, due |-> TRUE,
           lock |-> "free", recent |-> 0]
NoAct  == [at |-> "idle", todo |-> {}, all |-> {}]
Off    == [on |-> FALSE, run |-> "none", vpc |-> 0, count |-> 0]

Init ==
  /\ vpc \in [VPCs -> {NoVpc, Legacy}]
  /\ opening = [v \in VPCs |-> "no"] /\ act = NoAct
  /\ rollout = [new |-> FALSE, legacy |-> FALSE]
  /\ run = [r \in Runs |-> NoRun]
  /\ cand = [r \in Runs |-> [v \in VPCs |-> "none"]]
  /\ disp = [d \in Dispatchers |-> Off]
  /\ pool = TRUE /\ orders = 0

Order == orders < MaxOrders /\ orders' = orders + 1

\* The advisory lock of the rollout, held until the end of a transaction.
RolloutFree_NotByAdmission == act.at = "idle"

RolloutFree == act.at = "idle" /\ \A v \in VPCs : opening[v] \in {"no", "inserted"}

VpcFree(v)  == act.at = "checks" => v \notin act.all

-----------------------------------------------------------------------------
(***************************************************************************)
(* VPCs.                                                                   *)
(***************************************************************************)
\* acceptBaseConnectivity: the base rows of a VPC.
WithBase(row, required) ==
  [row EXCEPT !.base = "pending", !.fresh = FALSE, !.required = @ \/ required,
              !.active = TRUE, !.admitted = @ + 1]

\* AcceptVPC inserts its rows, takes the rollout lock and reads the switch,
\* and commits with the base rows if new VPCs need them.
AcceptBegins(v) ==
  /\ vpc[v].state = "none" /\ opening[v] = "no"
  /\ opening' = [opening EXCEPT ![v] = "inserted"]
  /\ UNCHANGED <<vpc, rollout, act, run, cand, disp, pool, orders>>

AcceptReads(v) ==
  /\ opening[v] = "inserted" /\ RolloutFree
  /\ opening' = [opening EXCEPT ![v] = IF rollout.new THEN "base" ELSE "plain"]
  /\ UNCHANGED <<vpc, rollout, act, run, cand, disp, pool, orders>>

AcceptCommits(v) ==
  LET row == [NoVpc EXCEPT !.state = "provisioning", !.active = TRUE]
  IN /\ opening[v] \in {"base", "plain"}
     /\ opening' = [opening EXCEPT ![v] = "no"]
     /\ \/ opening[v] = "plain" /\ vpc' = [vpc EXCEPT ![v] = row]
        \/ opening[v] = "base" /\ pool /\ vpc' = [vpc EXCEPT ![v] = WithBase(row, TRUE)]
        \/ opening[v] = "base" /\ ~pool /\ UNCHANGED vpc
     /\ UNCHANGED <<rollout, act, run, cand, disp, pool, orders>>

\* The workers: an operation completes, once the base (if any) is ready.
Established(v) ==
  /\ Live(v) /\ vpc[v].active /\ VpcFree(v)
  /\ vpc' = [vpc EXCEPT ![v] = [@ EXCEPT !.state = "available", !.active = FALSE,
                  !.base = IF vpc[v].base = "pending" THEN "ready" ELSE vpc[v].base,
                  !.fresh = TRUE]]
  /\ UNCHANGED <<opening, rollout, act, run, cand, disp, pool, orders>>

\* An observation of the base gets old, or is renewed.
Expires(v) ==
  /\ vpc[v].base = "ready" /\ vpc[v].fresh
  /\ vpc' = [vpc EXCEPT ![v].fresh = FALSE]
  /\ UNCHANGED <<opening, rollout, act, run, cand, disp, pool, orders>>

Observed(v) ==
  /\ vpc[v].base = "ready" /\ ~vpc[v].fresh /\ Live(v) /\ VpcFree(v)
  /\ vpc' = [vpc EXCEPT ![v].fresh = TRUE]
  /\ UNCHANGED <<opening, rollout, act, run, cand, disp, pool, orders>>

DeleteVPC(v) ==
  /\ Live(v) /\ VpcFree(v)
  /\ vpc' = [vpc EXCEPT ![v] = [@ EXCEPT !.state = "deleting", !.active = TRUE]]
  /\ UNCHANGED <<opening, rollout, act, run, cand, disp, pool, orders>>

Removed(v) ==
  /\ vpc[v].state = "deleting"
  /\ vpc' = [vpc EXCEPT ![v] = [@ EXCEPT !.state = "deleted", !.active = FALSE]]
  /\ UNCHANGED <<opening, rollout, act, run, cand, disp, pool, orders>>

PoolChanges ==
  /\ Order /\ pool' = ~pool
  /\ UNCHANGED <<vpc, opening, rollout, act, run, cand, disp>>

-----------------------------------------------------------------------------
(***************************************************************************)
(* Plans.                                                                  *)
(***************************************************************************)
\* The initial state of a candidate in the review snapshot.
Candidate(v) ==
  IF vpc[v].state = "none" THEN "none"
  ELSE IF vpc[v].state \in {"deleting", "deleted"} \/ vpc[v].base # "none" THEN "excluded"
  ELSE IF vpc[v].state # "available" \/ vpc[v].active THEN "conflict"
  ELSE "pending"

\* Planning again with the same identity returns the first plan.
PlanBaseBackfill(r) ==
  /\ Order /\ ~run[r].planned
  /\ run' = [run EXCEPT ![r].planned = TRUE]
  /\ cand' = [cand EXCEPT ![r] = [v \in VPCs |-> Candidate(v)]]
  /\ UNCHANGED <<vpc, opening, rollout, act, disp, pool>>

\* SetBaseBackfillPaused: a resume states the digest of the reviewed plan.
SetPaused(r, paused) ==
  /\ Order /\ run[r].planned /\ run[r].lock = "free"
  /\ run' = [run EXCEPT ![r] = [@ EXCEPT !.paused = paused,
                                         !.reviewed = run[r].reviewed \/ ~paused]]
  /\ UNCHANGED <<vpc, opening, rollout, act, cand, disp, pool>>

\* next_admission_at passes.
IntervalPasses(r) ==
  /\ ~run[r].due
  /\ run' = [run EXCEPT ![r] = [@ EXCEPT !.due = TRUE, !.recent = 0]]
  /\ UNCHANGED <<vpc, opening, rollout, act, cand, disp, pool, orders>>

-----------------------------------------------------------------------------
(***************************************************************************)
(* Dispatchers: the loop of the dispatch command around                    *)
(* AdmitNextBaseBackfill.                                                  *)
(***************************************************************************)
Dispatch(d, r) ==
  /\ ~disp[d].on /\ Order
  /\ disp' = [disp EXCEPT ![d] = [Off EXCEPT !.on = TRUE, !.run = r]]
  /\ UNCHANGED <<vpc, opening, rollout, act, run, cand, pool>>

\* NextBaseBackfillCandidate.
Pending(r) == {v \in VPCs : cand[r][v] = "pending"}

\* What the first part of AdmitNextBaseBackfill reports without admitting.
Report(r) ==
  IF ~run[r].planned THEN "error"
  ELSE IF run[r].paused THEN "paused"
  ELSE IF ~run[r].reviewed THEN "error"
  ELSE IF Pending(r) = {} THEN "admission_complete"
  ELSE IF ~run[r].due THEN "waiting"
  ELSE "admits"

\* The results that make the command ask again.
Repeats(report) == report = "waiting"

Ask(d) ==
  LET r == disp[d].run
  IN /\ disp[d].on /\ disp[d].vpc = 0 /\ run[r].lock = "free"
     /\ IF Report(r) = "admits"
          THEN /\ disp' = [disp EXCEPT ![d].vpc = Min(Pending(r))]
               /\ run' = [run EXCEPT ![r].lock = d]
          ELSE /\ disp' = IF Repeats(Report(r)) THEN disp ELSE [disp EXCEPT ![d] = Off]
               /\ UNCHANGED run
     /\ UNCHANGED <<vpc, opening, rollout, act, cand, pool, orders>>

\* acceptBaseBackfillCandidate: the result for the locked VPC.
Result(v) ==
  IF \/ vpc[v].required \/ vpc[v].state # "available"
     \/ vpc[v].base # "none" \/ vpc[v].active
    THEN "conflict"
  ELSE IF ~pool THEN "pending"
  ELSE "accepted"

\* AdvanceBaseBackfillAdmission: a candidate that is blocked pauses the run.
Advanced(row, blocked) ==
  [row EXCEPT !.paused = @ \/ blocked, !.due = FALSE, !.lock = "free",
              !.recent = @ + 1]

\* -base-max candidates have been processed.
LastOfBatch(count) == count >= MaxBatch

\* The rest of AdmitNextBaseBackfill, with the lock of the VPC.
Admit(d) ==
  LET r == disp[d].run
      v == disp[d].vpc
      blocked == Result(v) = "pending"
      counted == disp[d].count + 1
  IN /\ disp[d].on /\ v # 0 /\ VpcFree(v)
     /\ cand' = [cand EXCEPT ![r][v] = Result(v)]
     /\ vpc' = IF Result(v) = "accepted"
                 THEN [vpc EXCEPT ![v] = WithBase(@, FALSE)] ELSE vpc
     /\ run' = [run EXCEPT ![r] = Advanced(@, blocked)]
     /\ disp' = [disp EXCEPT ![d] = IF blocked \/ LastOfBatch(counted) THEN Off
                                    ELSE [@ EXCEPT !.vpc = 0, !.count = counted]]
     /\ UNCHANGED <<opening, rollout, act, pool, orders>>

\* The process ends; the transaction it had open is rolled back.
Interrupt(d) ==
  /\ disp[d].on /\ Order
  /\ disp' = [disp EXCEPT ![d] = Off]
  /\ run' = IF disp[d].vpc # 0 THEN [run EXCEPT ![disp[d].run].lock = "free"] ELSE run
  /\ UNCHANGED <<vpc, opening, rollout, act, cand, pool>>

-----------------------------------------------------------------------------
(***************************************************************************)
(* Rollout.                                                                *)
(***************************************************************************)
\* SetNewVPCConnectivityEnabled.
MayDisable == ~rollout.legacy

SetNewVPCBaseConnectivity(enabled) ==
  /\ Order /\ RolloutFree /\ (enabled \/ MayDisable)
  /\ rollout' = [rollout EXCEPT !.new = enabled]
  /\ UNCHANGED <<vpc, opening, act, run, cand, disp, pool>>

\* ActivateLegacyBaseAggregation takes the rollout lock, and then the locks
\* of all VPCs that are not being removed.
ActivationBegins ==
  /\ Order /\ RolloutFree /\ rollout.new /\ ~rollout.legacy
  /\ act' = [NoAct EXCEPT !.at = "locked"]
  /\ UNCHANGED <<vpc, opening, rollout, run, cand, disp, pool>>

ActivationLocks ==
  /\ act.at = "locked"
  /\ \E live \in {{v \in VPCs : Live(v)}} :
       act' = [at |-> "checks", todo |-> live, all |-> live]
  /\ UNCHANGED <<vpc, opening, rollout, run, cand, disp, pool, orders>>

\* requireBaseConnectivity.
BaseIsReady(v) == vpc[v].base = "ready" /\ vpc[v].fresh /\ ~vpc[v].active

ActivationChecks ==
  /\ act.at = "checks" /\ act.todo # {}
  /\ \E v \in {Min(act.todo)} :
       act' = IF BaseIsReady(v) THEN [act EXCEPT !.todo = @ \ {v}] ELSE NoAct
  /\ UNCHANGED <<vpc, opening, rollout, run, cand, disp, pool, orders>>

\* CountStaleLegacyBaseEvidence: facts may expire during the checks.
StaleEvidence_Ignored == {}

StaleEvidence == {v \in act.all : ~vpc[v].fresh}

ActivationCommits ==
  /\ act.at = "checks" /\ act.todo = {}
  /\ act' = NoAct
  /\ IF StaleEvidence = {}
       THEN /\ vpc' = [v \in VPCs |->
                         IF v \in act.all THEN [vpc[v] EXCEPT !.required = TRUE]
                                          ELSE vpc[v]]
            /\ rollout' = [rollout EXCEPT !.legacy = TRUE]
       ELSE UNCHANGED <<vpc, rollout>>
  /\ UNCHANGED <<opening, run, cand, disp, pool, orders>>

-----------------------------------------------------------------------------
VpcStep(v) ==
  \/ AcceptBegins(v) \/ AcceptReads(v) \/ AcceptCommits(v)
  \/ Established(v) \/ Expires(v) \/ Observed(v) \/ DeleteVPC(v) \/ Removed(v)

Activation == ActivationLocks \/ ActivationChecks \/ ActivationCommits

Next ==
  \/ \E v \in VPCs : VpcStep(v)
  \/ PoolChanges
  \/ \E r \in Runs : \/ PlanBaseBackfill(r) \/ IntervalPasses(r)
                     \/ \E paused \in BOOLEAN : SetPaused(r, paused)
  \/ \E d \in Dispatchers : \/ \E r \in Runs : Dispatch(d, r)
                            \/ Ask(d) \/ Admit(d) \/ Interrupt(d)
  \/ \E enabled \in BOOLEAN : SetNewVPCBaseConnectivity(enabled)
  \/ ActivationBegins \/ Activation

Spec == Init /\ [][Next]_vars

-----------------------------------------------------------------------------
(***************************************************************************)
(* Properties.                                                             *)
(***************************************************************************)
\* The type invariant of every variable.
TypeOK ==
  /\ \A v \in VPCs :
       /\ vpc[v].state \in {"none", "provisioning", "available", "deleting", "deleted"}
       /\ vpc[v].base \in {"none", "pending", "ready"}
       /\ {vpc[v].active, vpc[v].fresh, vpc[v].required} \subseteq BOOLEAN
       /\ vpc[v].admitted \in Nat
  /\ opening \in [VPCs -> {"no", "inserted", "base", "plain"}]
  /\ act.at \in {"idle", "locked", "checks"} /\ act.todo \subseteq act.all
  /\ \A r \in Runs :
       /\ run[r].lock \in {"free"} \cup Dispatchers
       /\ cand[r] \in [VPCs -> {"none", "excluded", "conflict", "pending", "accepted"}]
  /\ \A d \in Dispatchers : disp[d].count \in 0..(MaxBatch - 1)
  /\ orders \in 0..MaxOrders
=============================================================================
