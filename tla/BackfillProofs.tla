--------------------------- MODULE BackfillProofs ---------------------------
(***************************************************************************)
(* The roll-out of base connectivity, for any VPCs, plans and dispatchers: *)
(* once legacy aggregation is active every VPC is covered, a VPC is        *)
(* admitted once and at the shared rate (BackfillSafety), and nothing is   *)
(* admitted while a plan is paused or a VPC is being removed, nor anything *)
(* activated on old facts (BackfillSteps).                                 *)
(*                                                                         *)
(* RolloutInv adds what the locks are for:                                 *)
(*   - the rollout lock: a creation that has read the switch finds it      *)
(*     unchanged when it commits, and none has read it while an activation *)
(*     is under way (GoodOpening), so the activation knows every VPC, and  *)
(*     those it has checked stay ready (GoodActivation);                   *)
(*   - the lock of a run: from the choice of a candidate to its admission  *)
(*     the run is reviewed, not paused and due (GoodDispatcher).           *)
(***************************************************************************)
EXTENDS BaseBackfill, TLAPS

-----------------------------------------------------------------------------
(* The inductive invariant. *)

VpcRecord ==
  [state : {"none", "provisioning", "available", "deleting", "deleted"}, active : BOOLEAN,
   base : {"none", "pending", "ready"}, fresh : BOOLEAN, required : BOOLEAN, admitted : Nat]

RunRecord ==
  [planned : BOOLEAN, paused : BOOLEAN, reviewed : BOOLEAN, due : BOOLEAN,
   lock : {"free"} \cup Dispatchers, recent : Nat]

\* The candidate of a dispatcher is the first of those that were pending.
Dispatcher ==
  [on : BOOLEAN, run : Runs \cup {"none"}, vpc : {0} \cup {Min(S) : S \in SUBSET VPCs},
   count : Nat]

Types ==
  /\ vpc \in [VPCs -> VpcRecord]
  /\ opening \in [VPCs -> {"no", "inserted", "base", "plain"}]
  /\ rollout \in [new : BOOLEAN, legacy : BOOLEAN]
  /\ act \in [at : {"idle", "locked", "checks"}, todo : SUBSET VPCs, all : SUBSET VPCs]
  /\ run \in [Runs -> RunRecord]
  /\ cand \in [Runs -> [VPCs -> {"none", "excluded", "conflict", "pending", "accepted"}]]
  /\ disp \in [Dispatchers -> Dispatcher]

GoodVpc(v) ==
  /\ vpc[v].admitted <= 1 /\ (vpc[v].base = "none" => vpc[v].admitted = 0)
  /\ vpc[v].state = "none" => vpc[v].base = "none"
  /\ rollout.legacy /\ Live(v) => vpc[v].required /\ vpc[v].base # "none"

GoodOpening(v) ==
  /\ opening[v] # "no" => vpc[v].state = "none"
  /\ opening[v] = "base"  => act.at = "idle" /\ rollout.new
  /\ opening[v] = "plain" => act.at = "idle" /\ ~rollout.new

GoodActivation ==
  /\ rollout.legacy \/ act.at # "idle" => rollout.new
  /\ act.at = "checks" =>
       /\ \A v \in VPCs : Live(v) => v \in act.all
       /\ \A v \in act.all \ act.todo : vpc[v].base = "ready"

GoodRun(r) == run[r].recent <= 1 /\ (run[r].due => run[r].recent = 0)

GoodDispatcher(d) ==
  LET r == disp[d].run
  IN /\ disp[d].on => r \in Runs
     /\ disp[d].on /\ disp[d].vpc # 0 =>
          run[r].lock = d /\ run[r].reviewed /\ ~run[r].paused /\ run[r].due

RolloutInv ==
  /\ Types
  /\ \A v \in VPCs : GoodVpc(v) /\ GoodOpening(v)
  /\ GoodActivation
  /\ \A r \in Runs : GoodRun(r)
  /\ \A d \in Dispatchers : GoodDispatcher(d)

-----------------------------------------------------------------------------
(***************************************************************************)
(* Steps that leave one half of the state alone: the VPCs with the         *)
(* rollout, or the plans with their dispatchers.                           *)
(***************************************************************************)
VpcTypes  == /\ vpc \in [VPCs -> VpcRecord]
             /\ opening \in [VPCs -> {"no", "inserted", "base", "plain"}]
             /\ rollout \in [new : BOOLEAN, legacy : BOOLEAN]
             /\ act \in [at : {"idle", "locked", "checks"}, todo : SUBSET VPCs,
                         all : SUBSET VPCs]
PlanTypes == /\ run \in [Runs -> RunRecord] /\ disp \in [Dispatchers -> Dispatcher]
             /\ cand \in [Runs -> [VPCs -> {"none", "excluded", "conflict", "pending", "accepted"}]]

VpcHalf  == VpcTypes /\ (\A v \in VPCs : GoodVpc(v) /\ GoodOpening(v)) /\ GoodActivation
PlanHalf == /\ PlanTypes /\ \A r \in Runs : GoodRun(r)
            /\ \A d \in Dispatchers : GoodDispatcher(d)

LEMMA Halves ==
  (RolloutInv <=> VpcHalf /\ PlanHalf) /\ (RolloutInv' <=> VpcHalf' /\ PlanHalf')
  BY DEF RolloutInv, VpcHalf, PlanHalf, Types, VpcTypes, PlanTypes

LEMMA VpcsRest ==
  ASSUME VpcHalf, UNCHANGED <<vpc, opening, rollout, act>>
  PROVE  VpcHalf'
  BY DEF VpcHalf, VpcTypes, GoodVpc, GoodOpening, GoodActivation, Live

LEMMA PlansRest ==
  ASSUME PlanHalf, UNCHANGED <<run, cand, disp>>
  PROVE  PlanHalf'
  BY DEF PlanHalf, PlanTypes, GoodRun, GoodDispatcher

\* A row changes in place: it does not come to life, and loses no base rows.
LEMMA RowChanges ==
  ASSUME VpcHalf, NEW v \in VPCs, NEW n \in VpcRecord, vpc' = [vpc EXCEPT ![v] = n],
         UNCHANGED <<opening, rollout, act>>, vpc[v].state # "none",
         n.state # "none", n.admitted <= 1, n.base = "none" => n.admitted = 0,
         n.state \in {"provisioning", "available"} => Live(v),
         vpc[v].required => n.required, vpc[v].base # "none" => n.base # "none",
         vpc[v].base = "ready" => n.base = "ready"
  PROVE  VpcHalf'
<1>1. vpc \in [VPCs -> VpcRecord]
  BY DEF VpcHalf, VpcTypes
<1>2. vpc' \in [VPCs -> VpcRecord] /\ vpc'[v] = n /\ \A x \in VPCs \ {v} : vpc'[x] = vpc[x]
  BY <1>1
<1>3. \A x \in VPCs : Live(x)' => Live(x)
  BY <1>2 DEF Live
<1>4. ASSUME NEW x \in VPCs PROVE GoodVpc(x)' /\ GoodOpening(x)'
  <2>1. GoodVpc(x) /\ GoodOpening(x)
    BY DEF VpcHalf
  <2>2. CASE x = v
    BY <1>2, <1>3, <2>1, <2>2 DEF GoodVpc, GoodOpening
  <2>3. CASE x # v
    BY <1>2, <1>3, <2>1, <2>3 DEF GoodVpc, GoodOpening
  <2> QED
    BY <2>2, <2>3
<1>5. act.all \subseteq VPCs
  BY DEF VpcHalf, VpcTypes
<1>6. GoodActivation'
  BY <1>2, <1>3, <1>5 DEF VpcHalf, GoodActivation
<1> QED
  BY <1>2, <1>4, <1>6 DEF VpcHalf, VpcTypes

-----------------------------------------------------------------------------
(* VPCs. *)

LEMMA RowFacts ==
  ASSUME RolloutInv, NEW v \in VPCs
  PROVE  vpc[v] \in VpcRecord /\ GoodVpc(v) /\ GoodOpening(v)
  BY DEF RolloutInv, Types

LEMMA NewRows ==
  /\ NoVpc \in VpcRecord /\ Legacy \in VpcRecord
  /\ NoVpc.state = "none" /\ NoVpc.base = "none" /\ NoVpc.admitted = 0 /\ ~NoVpc.required
  /\ Legacy.state = "available" /\ Legacy.base = "none" /\ Legacy.admitted = 0
  BY DEF NoVpc, Legacy, VpcRecord

LEMMA WithBaseFields ==
  ASSUME NEW k \in VpcRecord, NEW b \in BOOLEAN
  PROVE  /\ WithBase(k, b) \in VpcRecord /\ WithBase(k, b).state = k.state
         /\ WithBase(k, b).base = "pending" /\ WithBase(k, b).admitted = k.admitted + 1
         /\ WithBase(k, b).required <=> k.required \/ b
<1>1. PICK c \in BOOLEAN : c = (k.required \/ b)
  BY DEF VpcRecord
<1>2. k.admitted + 1 \in Nat
  BY DEF VpcRecord
<1>3. PICK m \in Nat : m = k.admitted + 1
  BY <1>2
<1>4. WithBase(k, b) = [k EXCEPT !.base = "pending", !.fresh = FALSE, !.required = c,
                                 !.active = TRUE, !.admitted = m]
  BY <1>1, <1>3 DEF WithBase
<1>5. /\ WithBase(k, b) \in VpcRecord /\ WithBase(k, b).state = k.state
      /\ WithBase(k, b).base = "pending" /\ WithBase(k, b).admitted = m
      /\ WithBase(k, b).required = c
  BY <1>4 DEF VpcRecord
<1> QED
  BY <1>1, <1>3, <1>5

LEMMA OpeningKeeps ==
  ASSUME RolloutInv, NEW v \in VPCs, AcceptBegins(v) \/ AcceptReads(v)
  PROVE  RolloutInv'
<1>1. UNCHANGED <<vpc, rollout, act, run, cand, disp>>
  BY DEF AcceptBegins, AcceptReads
<1>2. PICK o \in {"inserted", "base", "plain"} :
        /\ opening' = [opening EXCEPT ![v] = o] /\ vpc[v].state = "none"
        /\ o = "base" => act.at = "idle" /\ rollout.new
        /\ o = "plain" => act.at = "idle" /\ ~rollout.new
  <2>1. CASE AcceptBegins(v)
    BY <2>1 DEF AcceptBegins
  <2>2. CASE AcceptReads(v)
    <3>1. vpc[v].state = "none" /\ act.at = "idle"
      BY <2>2, RowFacts DEF AcceptReads, RolloutFree, GoodOpening
    <3> QED
      BY <2>2, <3>1 DEF AcceptReads
  <2> QED
    BY <2>1, <2>2
<1>3. opening' \in [VPCs -> {"no", "inserted", "base", "plain"}] /\ opening'[v] = o
      /\ \A x \in VPCs \ {v} : opening'[x] = opening[x]
  BY <1>2 DEF RolloutInv, Types
<1>4. ASSUME NEW x \in VPCs PROVE GoodVpc(x)' /\ GoodOpening(x)'
  <2>1. GoodVpc(x) /\ GoodOpening(x)
    BY RowFacts
  <2>2. CASE x = v
    BY <1>1, <1>2, <1>3, <2>1, <2>2 DEF GoodVpc, GoodOpening, Live
  <2>3. CASE x # v
    BY <1>1, <1>3, <2>1, <2>3 DEF GoodVpc, GoodOpening, Live
  <2> QED
    BY <2>2, <2>3
<1>5. GoodActivation'
  BY <1>1 DEF RolloutInv, GoodActivation, Live
<1>6. VpcHalf'
  BY <1>1, <1>3, <1>4, <1>5 DEF RolloutInv, Types, VpcHalf, VpcTypes
<1> QED
  BY <1>1, <1>6, Halves, PlansRest

\* What the creation has read of the switch still holds when it commits.
LEMMA AcceptCommitsKeeps ==
  ASSUME RolloutInv, NEW v \in VPCs, AcceptCommits(v)
  PROVE  RolloutInv'
<1>1. UNCHANGED <<rollout, act, run, cand, disp>> /\ opening' = [opening EXCEPT ![v] = "no"]
  BY DEF AcceptCommits
<1>2. opening[v] \in {"base", "plain"} /\ act.at = "idle"
  BY RowFacts DEF AcceptCommits, GoodOpening
<1>3. PICK k \in VpcRecord : k = [NoVpc EXCEPT !.state = "provisioning", !.active = TRUE]
  BY DEF NoVpc, VpcRecord
<1>4. k.base = "none" /\ k.admitted = 0 /\ k.state = "provisioning"
  BY <1>3 DEF NoVpc
<1>5. PICK n \in VpcRecord :
        /\ vpc' = [vpc EXCEPT ![v] = n] /\ n.admitted <= 1 /\ (n.base = "none" => n.admitted = 0)
        /\ n.state = "none" => n.base = "none"
        /\ rollout.legacy /\ n.state # "none" => n.required /\ n.base # "none"
  <2>1. CASE opening[v] = "plain"
    <3>1. ~rollout.legacy
      BY <2>1, RowFacts DEF RolloutInv, GoodOpening, GoodActivation
    <3>2. vpc' = [vpc EXCEPT ![v] = k]
      BY <1>3, <2>1 DEF AcceptCommits
    <3>3. k.admitted <= 1
      BY <1>4
    <3> QED
      BY <1>4, <3>1, <3>2, <3>3
  <2>2. CASE opening[v] = "base" /\ pool
    <3>1. PICK n \in VpcRecord : n = WithBase(k, TRUE)
      BY WithBaseFields
    <3>2. vpc' = [vpc EXCEPT ![v] = n]
      BY <1>3, <2>2, <3>1 DEF AcceptCommits
    <3>3. /\ n.admitted = k.admitted + 1 /\ n.base = "pending" /\ n.required
          /\ n.state = k.state
      BY <3>1, WithBaseFields
    <3>4. n.admitted <= 1
      BY <1>4, <3>3
    <3> QED
      BY <1>4, <3>2, <3>3, <3>4
  <2>3. CASE opening[v] = "base" /\ ~pool
    <3>1. vpc' = [vpc EXCEPT ![v] = vpc[v]]
      BY <2>3 DEF AcceptCommits, RolloutInv, Types
    <3>2. vpc[v] \in VpcRecord /\ GoodVpc(v) /\ vpc[v].state = "none"
      BY <2>3, RowFacts DEF GoodOpening
    <3> QED
      BY <3>1, <3>2 DEF GoodVpc
  <2> QED
    BY <1>2, <2>1, <2>2, <2>3
<1>6. vpc' \in [VPCs -> VpcRecord] /\ vpc'[v] = n /\ \A x \in VPCs \ {v} : vpc'[x] = vpc[x]
  BY <1>5 DEF RolloutInv, Types
<1>7. opening' \in [VPCs -> {"no", "inserted", "base", "plain"}] /\ opening'[v] = "no"
      /\ \A x \in VPCs \ {v} : opening'[x] = opening[x]
  BY <1>1 DEF RolloutInv, Types
<1>8. ASSUME NEW x \in VPCs PROVE GoodVpc(x)' /\ GoodOpening(x)'
  <2>1. GoodVpc(x) /\ GoodOpening(x)
    BY RowFacts
  <2>2. CASE x = v
    BY <1>1, <1>5, <1>6, <1>7, <2>2 DEF GoodVpc, GoodOpening, Live
  <2>3. CASE x # v
    BY <1>1, <1>6, <1>7, <2>1, <2>3 DEF GoodVpc, GoodOpening, Live
  <2> QED
    BY <2>2, <2>3
<1>9. GoodActivation'
  BY <1>1, <1>2 DEF RolloutInv, GoodActivation
<1>10. VpcHalf'
  BY <1>1, <1>6, <1>7, <1>8, <1>9 DEF RolloutInv, Types, VpcHalf, VpcTypes
<1> QED
  BY <1>1, <1>10, Halves, PlansRest

LEMMA RowKeeps ==
  ASSUME RolloutInv, NEW v \in VPCs,
         Established(v) \/ Expires(v) \/ Observed(v) \/ DeleteVPC(v) \/ Removed(v)
  PROVE  RolloutInv'
<1>1. UNCHANGED <<opening, rollout, act, run, cand, disp>>
  BY DEF Established, Expires, Observed, DeleteVPC, Removed
<1>2. PICK k \in VpcRecord : k = vpc[v]
  BY RowFacts
<1> DEFINE Kept(n) ==
      /\ n.admitted = k.admitted /\ n.required = k.required /\ vpc' = [vpc EXCEPT ![v] = n]
      /\ n.state # "none" /\ (n.state \in {"provisioning", "available"} => Live(v))
      /\ n.base = k.base \/ (k.base = "pending" /\ n.base = "ready")
<1>3. k.state # "none" /\ \E n \in VpcRecord : Kept(n)
  <2>1. CASE Established(v)
    <3>1. PICK b \in {"none", "pending", "ready"} :
            b = IF k.base = "pending" THEN "ready" ELSE k.base
      BY DEF VpcRecord
    <3>2. PICK n \in VpcRecord : n = [k EXCEPT !.state = "available", !.active = FALSE,
                                               !.base = b, !.fresh = TRUE]
      BY DEF VpcRecord
    <3>3. /\ Live(v)
          /\ vpc' = [vpc EXCEPT ![v] = [vpc[v] EXCEPT !.state = "available", !.active = FALSE,
                       !.base = IF vpc[v].base = "pending" THEN "ready" ELSE vpc[v].base,
                       !.fresh = TRUE]]
      BY <2>1, Zenon DEF Established
    <3>4. vpc' = [vpc EXCEPT ![v] = n] /\ Live(v)
      BY <1>2, <3>1, <3>2, <3>3, Zenon
    <3>5. n.admitted = k.admitted /\ n.required = k.required /\ n.base = b
          /\ n.state = "available"
      BY <3>2 DEF VpcRecord
    <3> QED
      BY <1>2, <3>1, <3>4, <3>5 DEF Live
  <2>2. CASE Expires(v) \/ Observed(v)
    <3>1. PICK b \in BOOLEAN : vpc' = [vpc EXCEPT ![v].fresh = b] /\ k.base = "ready"
      BY <1>2, <2>2 DEF Expires, Observed
    <3>2. PICK n \in VpcRecord : n = [k EXCEPT !.fresh = b]
      BY DEF VpcRecord
    <3>3. n.admitted = k.admitted /\ n.required = k.required /\ n.base = k.base
          /\ n.state = k.state
      BY <3>2 DEF VpcRecord
    <3>4. k.state # "none"
      BY <1>2, <2>2, <3>1, RowFacts DEF Expires, Observed, Live, GoodVpc
    <3> QED
      BY <1>2, <3>1, <3>2, <3>3, <3>4 DEF Live
  <2>3. CASE DeleteVPC(v)
    <3>1. PICK n \in VpcRecord : n = [k EXCEPT !.state = "deleting", !.active = TRUE]
      BY DEF VpcRecord
    <3>2. n.admitted = k.admitted /\ n.required = k.required /\ n.base = k.base
          /\ n.state = "deleting"
      BY <3>1 DEF VpcRecord
    <3> QED
      BY <1>2, <2>3, <3>1, <3>2 DEF DeleteVPC, Live
  <2>4. CASE Removed(v)
    <3>1. PICK n \in VpcRecord : n = [k EXCEPT !.state = "deleted", !.active = FALSE]
      BY DEF VpcRecord
    <3>2. n.admitted = k.admitted /\ n.required = k.required /\ n.base = k.base
          /\ n.state = "deleted"
      BY <3>1 DEF VpcRecord
    <3> QED
      BY <1>2, <2>4, <3>1, <3>2 DEF Removed
  <2> QED
    BY <2>1, <2>2, <2>3, <2>4
<1>4. PICK n \in VpcRecord : Kept(n)
  BY <1>3
<1>5. k.admitted <= 1 /\ (k.base = "none" => k.admitted = 0)
  BY <1>2, RowFacts DEF GoodVpc
<1>6. n.admitted <= 1 /\ (n.base = "none" => n.admitted = 0)
  BY <1>4, <1>5
<1>7. /\ vpc' = [vpc EXCEPT ![v] = n] /\ vpc[v].state # "none" /\ n.state # "none"
      /\ n.state \in {"provisioning", "available"} => Live(v)
  BY <1>2, <1>3, <1>4
<1>8. /\ vpc[v].required => n.required
      /\ vpc[v].base # "none" => n.base # "none"
      /\ vpc[v].base = "ready" => n.base = "ready"
  BY <1>2, <1>4
<1>9. VpcHalf
  BY Halves
<1>10. VpcHalf'
  BY <1>1, <1>6, <1>7, <1>8, <1>9, RowChanges
<1> QED
  BY <1>1, <1>10, Halves, PlansRest

-----------------------------------------------------------------------------
(* Rollout. *)

ActRecord == [at : {"idle", "locked", "checks"}, todo : SUBSET VPCs, all : SUBSET VPCs]

\* The activation advances, and the VPCs rest.
LEMMA ActivationAdvances ==
  ASSUME RolloutInv, NEW a \in ActRecord, act' = a,
         UNCHANGED <<vpc, opening, rollout, run, cand, disp>>,
         a.at # "idle" => /\ rollout.new
                          /\ \A v \in VPCs : opening[v] \notin {"base", "plain"},
         a.at = "checks" => /\ \A v \in VPCs : Live(v) => v \in a.all
                            /\ \A v \in a.all \ a.todo : vpc[v].base = "ready"
  PROVE  RolloutInv'
<1>1. ASSUME NEW v \in VPCs PROVE GoodVpc(v)' /\ GoodOpening(v)'
  <2>1. GoodVpc(v) /\ GoodOpening(v)
    BY RowFacts
  <2>2. GoodVpc(v)'
    BY <2>1 DEF GoodVpc, Live
  <2>3. GoodOpening(v)'
    BY <2>1 DEF GoodOpening, ActRecord
  <2> QED
    BY <2>2, <2>3
<1>2. GoodActivation'
  BY DEF RolloutInv, GoodActivation, Live
<1>3. VpcHalf'
  BY <1>1, <1>2 DEF RolloutInv, Types, VpcHalf, VpcTypes, ActRecord
<1> QED
  BY <1>3, Halves, PlansRest

LEMMA IdleRecord == NoAct \in ActRecord /\ NoAct.at = "idle"
  BY DEF NoAct, ActRecord

LEMMA ActivationKeeps ==
  ASSUME RolloutInv, ActivationBegins \/ ActivationLocks \/ ActivationChecks
  PROVE  RolloutInv'
<1>1. UNCHANGED <<vpc, opening, rollout, run, cand, disp>>
  BY DEF ActivationBegins, ActivationLocks, ActivationChecks
<1>2. act \in ActRecord /\ GoodActivation /\ \A v \in VPCs : GoodOpening(v)
  BY DEF RolloutInv, Types, ActRecord
<1>3. CASE ActivationBegins
  <2>1. PICK a \in ActRecord : act' = a /\ a.at = "locked"
    BY <1>3 DEF ActivationBegins, NoAct, ActRecord
  <2>2. rollout.new /\ \A v \in VPCs : opening[v] \notin {"base", "plain"}
    BY <1>3 DEF ActivationBegins, RolloutFree
  <2> QED
    BY <1>1, <2>1, <2>2, ActivationAdvances
<1>4. CASE ActivationLocks
  <2>1. PICK live \in SUBSET VPCs :
          /\ live = {v \in VPCs : Live(v)}
          /\ act' = [at |-> "checks", todo |-> live, all |-> live]
    BY <1>4 DEF ActivationLocks
  <2>2. PICK a \in ActRecord : act' = a /\ a.all = live /\ a.todo = live
    BY <2>1 DEF ActRecord
  <2>3. rollout.new /\ \A v \in VPCs : opening[v] \notin {"base", "plain"}
    BY <1>2, <1>4 DEF ActivationLocks, GoodActivation, GoodOpening
  <2> QED
    BY <1>1, <2>1, <2>2, <2>3, ActivationAdvances
<1>5. CASE ActivationChecks
  <2>1. PICK v \in {Min(act.todo)} :
          act' = IF BaseIsReady(v) THEN [act EXCEPT !.todo = @ \ {v}] ELSE NoAct
    BY <1>5 DEF ActivationChecks
  <2>2. CASE ~BaseIsReady(v)
    BY <1>1, <2>1, <2>2, IdleRecord, ActivationAdvances
  <2>3. CASE BaseIsReady(v)
    <3>1. PICK a \in ActRecord : a = [act EXCEPT !.todo = @ \ {v}]
      BY <1>2 DEF ActRecord
    <3>2. a.at = "checks" /\ a.all = act.all /\ a.todo = act.todo \ {v} /\ act.at = "checks"
      BY <1>2, <1>5, <3>1 DEF ActRecord, ActivationChecks
    <3>3. vpc[v].base = "ready"
      BY <2>3 DEF BaseIsReady
    <3>4. rollout.new /\ \A x \in VPCs : opening[x] \notin {"base", "plain"}
      BY <1>2, <3>2 DEF GoodActivation, GoodOpening
    <3>5. /\ \A x \in VPCs : Live(x) => x \in a.all
          /\ \A x \in a.all \ a.todo : vpc[x].base = "ready"
      BY <1>2, <3>2, <3>3 DEF GoodActivation
    <3>6. act' = a
      BY <2>1, <2>3, <3>1
    <3> QED
      BY <1>1, <3>4, <3>5, <3>6, ActivationAdvances
  <2> QED
    BY <2>2, <2>3
<1> QED
  BY <1>3, <1>4, <1>5

LEMMA RequiredFields ==
  ASSUME NEW k \in VpcRecord
  PROVE  /\ [k EXCEPT !.required = TRUE] \in VpcRecord
         /\ [k EXCEPT !.required = TRUE].required
         /\ [k EXCEPT !.required = TRUE].state = k.state
         /\ [k EXCEPT !.required = TRUE].base = k.base
         /\ [k EXCEPT !.required = TRUE].admitted = k.admitted
  BY DEF VpcRecord

\* Every VPC has been checked, and has kept its base since.
LEMMA ActivationCommitsKeeps ==
  ASSUME RolloutInv, ActivationCommits
  PROVE  RolloutInv'
<1>1. UNCHANGED <<opening, run, cand, disp>> /\ act' = NoAct
  BY DEF ActivationCommits
<1>2. CASE StaleEvidence # {}
  <2>1. UNCHANGED <<vpc, rollout>>
    BY <1>2 DEF ActivationCommits
  <2> QED
    BY <1>1, <2>1, IdleRecord, ActivationAdvances
<1>3. CASE StaleEvidence = {}
  <2>1. /\ vpc' = [v \in VPCs |-> IF v \in act.all THEN [vpc[v] EXCEPT !.required = TRUE]
                                                   ELSE vpc[v]]
        /\ rollout' = [rollout EXCEPT !.legacy = TRUE]
    BY <1>3 DEF ActivationCommits
  <2>2. rollout' \in [new : BOOLEAN, legacy : BOOLEAN] /\ (rollout'.new <=> rollout.new)
    BY <2>1 DEF RolloutInv, Types
  <2>3. ASSUME NEW v \in VPCs
        PROVE  /\ vpc'[v] \in VpcRecord /\ vpc'[v].state = vpc[v].state
               /\ vpc'[v].base = vpc[v].base /\ vpc'[v].admitted = vpc[v].admitted
               /\ v \in act.all => vpc'[v].required
    BY <2>1, RowFacts, RequiredFields
  <2>4. vpc' \in [VPCs -> VpcRecord]
    <3>1. vpc' = [v \in VPCs |-> vpc'[v]]
      BY <2>1
    <3> QED
      BY <2>3, <3>1
  <2>5. act.at = "checks" /\ act.todo = {} /\ rollout.new
    BY DEF ActivationCommits, RolloutInv, GoodActivation
  <2>6. ASSUME NEW v \in VPCs PROVE GoodVpc(v)' /\ GoodOpening(v)'
    <3>1. GoodVpc(v) /\ GoodOpening(v)
      BY RowFacts
    <3>2. Live(v) => v \in act.all /\ vpc[v].base = "ready"
      BY <2>5 DEF RolloutInv, GoodActivation
    <3>3. GoodVpc(v)'
      BY <2>3, <3>1, <3>2 DEF GoodVpc, Live
    <3>4. GoodOpening(v)'
      BY <1>1, <2>2, <2>3, <2>5, <3>1 DEF GoodOpening
    <3> QED
      BY <3>3, <3>4
  <2>7. GoodActivation'
    BY <1>1, <2>2, <2>5, IdleRecord DEF GoodActivation
  <2>8. VpcHalf'
    BY <1>1, <2>2, <2>4, <2>6, <2>7, IdleRecord
       DEF RolloutInv, Types, VpcHalf, VpcTypes, ActRecord
  <2> QED
    BY <1>1, <2>8, Halves, PlansRest
<1> QED
  BY <1>2, <1>3

\* The switch changes while nobody has read it, and is not opened again.
LEMMA SwitchKeeps ==
  ASSUME RolloutInv, NEW enabled \in BOOLEAN, SetNewVPCBaseConnectivity(enabled)
  PROVE  RolloutInv'
<1>1. /\ UNCHANGED <<vpc, opening, act, run, cand, disp>> /\ act.at = "idle"
      /\ rollout' = [rollout EXCEPT !.new = enabled] /\ (enabled \/ ~rollout.legacy)
      /\ \A v \in VPCs : opening[v] \notin {"base", "plain"}
  BY DEF SetNewVPCBaseConnectivity, RolloutFree, MayDisable
<1>2. /\ rollout' \in [new : BOOLEAN, legacy : BOOLEAN] /\ (rollout'.new <=> enabled)
      /\ rollout'.legacy <=> rollout.legacy
  BY <1>1 DEF RolloutInv, Types
<1>3. ASSUME NEW v \in VPCs PROVE GoodVpc(v)' /\ GoodOpening(v)'
  <2>1. GoodVpc(v) /\ GoodOpening(v)
    BY RowFacts
  <2> QED
    BY <1>1, <1>2, <2>1 DEF GoodVpc, GoodOpening, Live
<1>4. GoodActivation'
  BY <1>1, <1>2 DEF RolloutInv, GoodActivation
<1>5. VpcHalf'
  BY <1>1, <1>2, <1>3, <1>4 DEF RolloutInv, Types, VpcHalf, VpcTypes
<1> QED
  BY <1>1, <1>5, Halves, PlansRest

-----------------------------------------------------------------------------
(***************************************************************************)
(* Plans.  The row of a run changes as its dispatchers expect, or while    *)
(* the lock of the run is free or held by the dispatcher that changes it.  *)
(***************************************************************************)
CandStates == {"none", "excluded", "conflict", "pending", "accepted"}

Kept(r, n) ==
  /\ n.lock = run[r].lock /\ (run[r].reviewed => n.reviewed)
  /\ (n.paused => run[r].paused) /\ (run[r].due => n.due)

GoodRecent(n) == n.recent <= 1 /\ (n.due => n.recent = 0)

LEMMA RunFacts ==
  ASSUME RolloutInv, NEW r \in Runs
  PROVE  run[r] \in RunRecord /\ GoodRecent(run[r])
  BY DEF RolloutInv, Types, GoodRun, GoodRecent

LEMMA RunChanges ==
  ASSUME RolloutInv, BackfillConstants, NEW r \in Runs, NEW n \in RunRecord, GoodRecent(n),
         Kept(r, n) \/ run[r].lock = "free", run' = [run EXCEPT ![r] = n],
         UNCHANGED disp, cand' \in [Runs -> [VPCs -> CandStates]]
  PROVE  PlanHalf'
<1>1. run' \in [Runs -> RunRecord] /\ run'[r] = n /\ \A x \in Runs \ {r} : run'[x] = run[x]
  BY DEF RolloutInv, Types
<1>2. ASSUME NEW x \in Runs PROVE GoodRun(x)'
  BY <1>1 DEF RolloutInv, GoodRun, GoodRecent
<1>3. ASSUME NEW e \in Dispatchers PROVE GoodDispatcher(e)'
  <2>1. GoodDispatcher(e) /\ e # "free"
    BY DEF RolloutInv, BackfillConstants
  <2>2. CASE disp[e].run = r
    BY <1>1, <2>1, <2>2 DEF GoodDispatcher, Kept
  <2>3. CASE disp[e].run # r
    BY <1>1, <2>1, <2>3 DEF GoodDispatcher
  <2> QED
    BY <2>2, <2>3
<1> QED
  BY <1>1, <1>2, <1>3 DEF RolloutInv, Types, PlanHalf, PlanTypes, CandStates

LEMMA DispatcherChanges ==
  ASSUME RolloutInv, BackfillConstants, NEW r \in Runs, NEW n \in RunRecord, GoodRecent(n),
         NEW d \in Dispatchers, NEW e \in Dispatcher,
         Kept(r, n) \/ run[r].lock \in {"free", d},
         run' = [run EXCEPT ![r] = n], disp' = [disp EXCEPT ![d] = e],
         cand' \in [Runs -> [VPCs -> CandStates]], e.on => e.run = r,
         e.on /\ e.vpc # 0 => n.lock = d /\ n.reviewed /\ ~n.paused /\ n.due
  PROVE  PlanHalf'
<1>1. run' \in [Runs -> RunRecord] /\ run'[r] = n /\ \A x \in Runs \ {r} : run'[x] = run[x]
  BY DEF RolloutInv, Types
<1>2. disp' \in [Dispatchers -> Dispatcher] /\ disp'[d] = e
      /\ \A x \in Dispatchers \ {d} : disp'[x] = disp[x]
  BY DEF RolloutInv, Types
<1>3. ASSUME NEW x \in Runs PROVE GoodRun(x)'
  BY <1>1 DEF RolloutInv, GoodRun, GoodRecent
<1>4. ASSUME NEW x \in Dispatchers PROVE GoodDispatcher(x)'
  <2>1. CASE x = d
    BY <1>1, <1>2, <2>1 DEF GoodDispatcher
  <2>2. CASE x # d
    <3>1. GoodDispatcher(x) /\ x # "free" /\ disp'[x] = disp[x]
      BY <1>2, <2>2 DEF RolloutInv, BackfillConstants
    <3>2. CASE disp[x].run = r
      BY <1>1, <2>2, <3>1, <3>2 DEF GoodDispatcher, Kept
    <3>3. CASE disp[x].run # r
      BY <1>1, <3>1, <3>3 DEF GoodDispatcher
    <3> QED
      BY <3>2, <3>3
  <2> QED
    BY <2>1, <2>2
<1> QED
  BY <1>1, <1>2, <1>3, <1>4 DEF PlanHalf, PlanTypes, CandStates

LEMMA PlanKeeps ==
  ASSUME RolloutInv, BackfillConstants, NEW r \in Runs,
         PlanBaseBackfill(r) \/ IntervalPasses(r) \/ \E paused \in BOOLEAN : SetPaused(r, paused)
  PROVE  RolloutInv'
<1>1. UNCHANGED <<vpc, opening, rollout, act, disp>>
  BY DEF PlanBaseBackfill, IntervalPasses, SetPaused
<1>2. cand' \in [Runs -> [VPCs -> CandStates]]
  <2>1. cand \in [Runs -> [VPCs -> CandStates]]
    BY DEF RolloutInv, Types, CandStates
  <2>2. \A v \in VPCs : Candidate(v) \in CandStates
    BY DEF Candidate, CandStates
  <2>3. CASE PlanBaseBackfill(r)
    BY <2>1, <2>2, <2>3 DEF PlanBaseBackfill
  <2>4. CASE UNCHANGED cand
    BY <2>1, <2>4
  <2> QED
    BY <2>3, <2>4 DEF IntervalPasses, SetPaused
<1>3. PICK k \in RunRecord : k = run[r] /\ GoodRecent(k)
  BY RunFacts
<1> DEFINE Fits(n) == /\ GoodRecent(n) /\ (Kept(r, n) \/ run[r].lock = "free")
                      /\ run' = [run EXCEPT ![r] = n]
<1>4. \E n \in RunRecord : Fits(n)
  <2>1. CASE PlanBaseBackfill(r)
    <3>1. PICK n \in RunRecord : n = [k EXCEPT !.planned = TRUE]
      BY DEF RunRecord
    <3>2. run' = [run EXCEPT ![r] = n]
      BY <1>3, <2>1, <3>1 DEF PlanBaseBackfill
    <3>3. /\ n.recent = k.recent /\ n.due = k.due /\ n.lock = k.lock
          /\ n.reviewed = k.reviewed /\ n.paused = k.paused
      BY <3>1 DEF RunRecord
    <3> QED
      BY <1>3, <3>2, <3>3 DEF GoodRecent, Kept
  <2>2. CASE IntervalPasses(r)
    <3>1. PICK n \in RunRecord : n = [k EXCEPT !.due = TRUE, !.recent = 0]
      BY DEF RunRecord
    <3>2. run' = [run EXCEPT ![r] = n]
      BY <1>3, <2>2, <3>1 DEF IntervalPasses
    <3>3. /\ n.recent = 0 /\ n.due /\ n.lock = k.lock
          /\ n.reviewed = k.reviewed /\ n.paused = k.paused
      BY <3>1 DEF RunRecord
    <3>4. GoodRecent(n)
      BY <3>3 DEF GoodRecent
    <3> QED
      BY <1>3, <3>2, <3>3, <3>4 DEF Kept
  <2>3. ASSUME NEW paused \in BOOLEAN, SetPaused(r, paused) PROVE \E n \in RunRecord : Fits(n)
    <3>1. PICK b \in BOOLEAN : b = (k.reviewed \/ ~paused)
      BY DEF RunRecord
    <3>2. PICK n \in RunRecord : n = [k EXCEPT !.paused = paused, !.reviewed = b]
      BY DEF RunRecord
    <3>3. run' = [run EXCEPT ![r] = n] /\ run[r].lock = "free"
      BY <1>3, <2>3, <3>1, <3>2 DEF SetPaused
    <3>4. n.recent = k.recent /\ n.due = k.due
      BY <3>2 DEF RunRecord
    <3> QED
      BY <1>3, <3>3, <3>4 DEF GoodRecent
  <2> QED
    BY <2>1, <2>2, <2>3
<1>5. PlanHalf'
  BY <1>1, <1>2, <1>4, RunChanges
<1>6. VpcHalf'
  BY <1>1, Halves, VpcsRest
<1> QED
  BY <1>5, <1>6, Halves

-----------------------------------------------------------------------------
(* Dispatchers. *)

LEMMA DispFacts ==
  ASSUME RolloutInv, NEW d \in Dispatchers
  PROVE  /\ disp[d] \in Dispatcher /\ GoodDispatcher(d)
         /\ cand \in [Runs -> [VPCs -> CandStates]]
  BY DEF RolloutInv, Types, CandStates

LEMMA OffFields == Off \in Dispatcher /\ ~Off.on
  BY DEF Off, Dispatcher

LEMMA DispatchKeeps ==
  ASSUME RolloutInv, BackfillConstants, NEW d \in Dispatchers, NEW r \in Runs, Dispatch(d, r)
  PROVE  RolloutInv'
<1>1. UNCHANGED <<vpc, opening, rollout, act, run, cand>>
  BY DEF Dispatch
<1>2. PICK e \in Dispatcher : e = [Off EXCEPT !.on = TRUE, !.run = r]
  BY DEF Off, Dispatcher
<1>3. e.run = r /\ e.vpc = 0
  BY <1>2 DEF Off
<1>4. disp' = [disp EXCEPT ![d] = e]
  BY <1>2 DEF Dispatch
<1>5. PICK n \in RunRecord : n = run[r] /\ GoodRecent(n)
  BY RunFacts
<1>6. run' = [run EXCEPT ![r] = n] /\ Kept(r, n)
  BY <1>1, <1>5 DEF RolloutInv, Types, Kept
<1>7. PlanHalf'
  BY <1>1, <1>3, <1>4, <1>5, <1>6, DispFacts, DispatcherChanges
<1> QED
  BY <1>1, <1>7, Halves, VpcsRest

LEMMA AskKeeps ==
  ASSUME RolloutInv, BackfillConstants, NEW d \in Dispatchers, Ask(d)
  PROVE  RolloutInv'
<1>1. UNCHANGED <<vpc, opening, rollout, act, cand>>
  BY DEF Ask
<1>2. VpcHalf'
  BY <1>1, Halves, VpcsRest
<1>3. PICK r \in Runs : r = disp[d].run
  BY DispFacts DEF Ask, GoodDispatcher
<1>4. PICK k \in RunRecord : k = run[r] /\ GoodRecent(k)
  BY RunFacts
<1>5. disp[d].on /\ disp[d].vpc = 0 /\ run[r].lock = "free"
  BY <1>3 DEF Ask
<1>6. CASE Report(r) = "admits"
  <2>1. k.reviewed /\ ~k.paused /\ k.due
    BY <1>4, <1>6 DEF Report
  <2>2. PICK n \in RunRecord : n = [k EXCEPT !.lock = d]
    BY DEF RunRecord
  <2>3. n.lock = d /\ n.reviewed /\ ~n.paused /\ n.due /\ n.recent = k.recent
    BY <2>1, <2>2 DEF RunRecord
  <2>4. GoodRecent(n)
    BY <1>4, <2>1, <2>3 DEF GoodRecent
  <2>5. PICK m \in {0} \cup {Min(S) : S \in SUBSET VPCs} : m = Min(Pending(r))
    BY DEF Pending
  <2>6. PICK o \in Dispatcher : o = disp[d]
    BY DispFacts
  <2>7. PICK e \in Dispatcher : e = [o EXCEPT !.vpc = m]
    BY DEF Dispatcher
  <2>8. e.run = r
    BY <1>3, <2>6, <2>7 DEF Dispatcher
  <2>9. run' = [run EXCEPT ![r] = n] /\ disp' = [disp EXCEPT ![d] = e]
    BY <1>3, <1>4, <1>6, <2>2, <2>5, <2>6, <2>7 DEF Ask
  <2>10. PlanHalf'
    BY <1>1, <1>5, <2>3, <2>4, <2>8, <2>9, DispFacts, DispatcherChanges
  <2> QED
    BY <1>2, <2>10, Halves
<1>7. CASE Report(r) # "admits"
  <2>1. UNCHANGED run /\ (UNCHANGED disp \/ disp' = [disp EXCEPT ![d] = Off])
    BY <1>3, <1>7 DEF Ask
  <2>2. CASE UNCHANGED disp
    BY <1>1, <1>2, <2>1, <2>2, Halves, PlansRest
  <2>3. CASE disp' = [disp EXCEPT ![d] = Off]
    <3>1. run' = [run EXCEPT ![r] = k] /\ Kept(r, k)
      BY <1>4, <2>1 DEF RolloutInv, Types, Kept
    <3>2. PlanHalf'
      BY <1>1, <1>4, <2>3, <3>1, OffFields, DispFacts, DispatcherChanges
    <3> QED
      BY <1>2, <3>2, Halves
  <2> QED
    BY <2>1, <2>2, <2>3
<1> QED
  BY <1>6, <1>7

LEMMA InterruptKeeps ==
  ASSUME RolloutInv, BackfillConstants, NEW d \in Dispatchers, Interrupt(d)
  PROVE  RolloutInv'
<1>1. UNCHANGED <<vpc, opening, rollout, act, cand>> /\ disp[d].on
      /\ disp' = [disp EXCEPT ![d] = Off]
  BY DEF Interrupt
<1>2. PICK r \in Runs : r = disp[d].run
  BY <1>1, DispFacts DEF GoodDispatcher
<1>3. PICK k \in RunRecord : k = run[r] /\ GoodRecent(k)
  BY RunFacts
<1>4. PICK n \in RunRecord : /\ GoodRecent(n) /\ run' = [run EXCEPT ![r] = n]
                             /\ Kept(r, n) \/ run[r].lock \in {"free", d}
  <2>1. CASE disp[d].vpc # 0
    <3>1. run[r].lock = d
      BY <1>1, <1>2, <2>1, DispFacts DEF GoodDispatcher
    <3>2. PICK n \in RunRecord : n = [k EXCEPT !.lock = "free"]
      BY DEF RunRecord
    <3>3. n.due = k.due /\ n.recent = k.recent
      BY <3>2 DEF RunRecord
    <3>4. run' = [run EXCEPT ![r] = n]
      BY <1>2, <1>3, <2>1, <3>2 DEF Interrupt
    <3> QED
      BY <1>3, <3>1, <3>3, <3>4 DEF GoodRecent
  <2>2. CASE disp[d].vpc = 0
    <3>1. UNCHANGED run
      BY <2>2 DEF Interrupt
    <3>2. run' = [run EXCEPT ![r] = k] /\ Kept(r, k)
      BY <1>3, <3>1 DEF RolloutInv, Types, Kept
    <3> QED
      BY <1>3, <3>2
  <2> QED
    BY <2>1, <2>2
<1>5. PlanHalf'
  BY <1>1, <1>4, OffFields, DispFacts, DispatcherChanges
<1> QED
  BY <1>1, <1>5, Halves, VpcsRest

LEMMA AdvancedFields ==
  ASSUME NEW k \in RunRecord, NEW b \in BOOLEAN, k.recent = 0
  PROVE  Advanced(k, b) \in RunRecord /\ GoodRecent(Advanced(k, b))
<1>1. PICK c \in BOOLEAN : c = (k.paused \/ b)
  BY DEF RunRecord
<1>2. PICK m \in Nat : m = k.recent + 1 /\ m <= 1
  BY DEF RunRecord
<1>3. Advanced(k, b) = [k EXCEPT !.paused = c, !.due = FALSE, !.lock = "free", !.recent = m]
  BY <1>1, <1>2 DEF Advanced
<1>4. /\ Advanced(k, b) \in RunRecord /\ ~Advanced(k, b).due /\ Advanced(k, b).recent = m
  BY <1>3 DEF RunRecord
<1> QED
  BY <1>2, <1>4 DEF GoodRecent

\* The VPC half of an admission: an available VPC without base rows gets them.
LEMMA AdmissionOfVpc ==
  ASSUME RolloutInv, NEW v, UNCHANGED <<opening, rollout, act>>,
         vpc' = IF Result(v) = "accepted" THEN [vpc EXCEPT ![v] = WithBase(@, FALSE)] ELSE vpc
  PROVE  VpcHalf'
<1>1. CASE Result(v) # "accepted"
  BY <1>1, Halves, VpcsRest
<1>2. CASE Result(v) = "accepted" /\ v \notin VPCs
  <2>1. PICK w : vpc' = [vpc EXCEPT ![v] = w]
    BY <1>2
  <2>2. vpc \in [VPCs -> VpcRecord]
    BY DEF RolloutInv, Types
  <2>3. UNCHANGED vpc
    BY <1>2, <2>1, <2>2
  <2> QED
    BY <2>3, Halves, VpcsRest
<1>3. CASE Result(v) = "accepted" /\ v \in VPCs
  <2>1. PICK k \in VpcRecord : k = vpc[v] /\ GoodVpc(v)
    BY <1>3, RowFacts
  <2>2. k.state = "available" /\ k.base = "none"
    BY <1>3, <2>1 DEF Result
  <2>3. k.admitted = 0
    BY <2>1, <2>2 DEF GoodVpc
  <2>4. PICK n \in VpcRecord : n = WithBase(k, FALSE)
    BY WithBaseFields
  <2>5. /\ n.admitted = k.admitted + 1 /\ n.base = "pending" /\ n.state = k.state
        /\ k.required => n.required
    BY <2>4, WithBaseFields
  <2>6. n.admitted <= 1
    BY <2>3, <2>5
  <2>7. vpc' = [vpc EXCEPT ![v] = n]
    BY <1>3, <2>1, <2>4
  <2>8. Live(v) /\ VpcHalf
    BY <2>1, <2>2, Halves DEF Live
  <2> QED
    BY <1>3, <2>1, <2>2, <2>5, <2>6, <2>7, <2>8, RowChanges
<1> QED
  BY <1>1, <1>2, <1>3

LEMMA AdmitKeeps ==
  ASSUME RolloutInv, BackfillConstants, NEW d \in Dispatchers, Admit(d)
  PROVE  RolloutInv'
<1>1. UNCHANGED <<opening, rollout, act>> /\ disp[d].on /\ disp[d].vpc # 0
  BY DEF Admit
<1>2. PICK r \in Runs : r = disp[d].run /\ run[r].lock = d /\ run[r].due
  BY <1>1, DispFacts DEF GoodDispatcher
<1>3. PICK v : v = disp[d].vpc
  OBVIOUS
<1>4. PICK res \in CandStates : res = Result(v)
  BY DEF Result, CandStates
<1>5. VpcHalf'
  <2>1. vpc' = IF Result(v) = "accepted" THEN [vpc EXCEPT ![v] = WithBase(@, FALSE)] ELSE vpc
    BY <1>3 DEF Admit
  <2> QED
    BY <1>1, <2>1, AdmissionOfVpc
<1>6. cand' \in [Runs -> [VPCs -> CandStates]]
  <2>1. cand' = [cand EXCEPT ![r][v] = res]
    BY <1>2, <1>3, <1>4 DEF Admit
  <2> QED
    BY <2>1, DispFacts
<1>7. PICK b \in BOOLEAN : b = (res = "pending")
  OBVIOUS
<1>8. PICK k \in RunRecord : k = run[r] /\ k.recent = 0
  BY <1>2, RunFacts DEF GoodRecent
<1>9. PICK n \in RunRecord : n = Advanced(k, b) /\ GoodRecent(n)
  BY <1>8, AdvancedFields
<1>10. run' = [run EXCEPT ![r] = n]
  BY <1>2, <1>3, <1>4, <1>7, <1>8, <1>9 DEF Admit
<1>11. PICK e \in Dispatcher : /\ disp' = [disp EXCEPT ![d] = e]
                               /\ e.on => e.run = r /\ e.vpc = 0
  <2>1. PICK o \in Dispatcher : o = disp[d]
    BY DispFacts
  <2>2. PICK c \in Nat : c = o.count + 1
    BY DEF Dispatcher
  <2>3. PICK e \in Dispatcher : e = [o EXCEPT !.vpc = 0, !.count = c]
    BY DEF Dispatcher
  <2>4. e.run = r /\ e.vpc = 0
    BY <1>2, <2>1, <2>3 DEF Dispatcher
  <2>5. disp' = [disp EXCEPT ![d] = Off] \/ disp' = [disp EXCEPT ![d] = e]
    BY <2>1, <2>2, <2>3 DEF Admit
  <2> QED
    BY <2>4, <2>5, OffFields
<1>12. PlanHalf'
  BY <1>2, <1>6, <1>9, <1>10, <1>11, DispatcherChanges
<1> QED
  BY <1>5, <1>12, Halves

-----------------------------------------------------------------------------
(* The theorems. *)

LEMMA InitKeeps ==
  ASSUME Init
  PROVE  RolloutInv
<1>1. Types
  <2>1. \A v \in VPCs : vpc[v] \in VpcRecord
    BY NewRows DEF Init
  <2>2. vpc \in [VPCs -> VpcRecord]
    BY NewRows DEF Init
  <2>3. NoRun \in RunRecord
    BY DEF NoRun, RunRecord
  <2>4. run \in [Runs -> RunRecord] /\ disp \in [Dispatchers -> Dispatcher]
    BY <2>3, OffFields DEF Init
  <2> QED
    BY <2>2, <2>4, IdleRecord DEF Init, Types, ActRecord
<1>2. ASSUME NEW v \in VPCs PROVE GoodVpc(v) /\ GoodOpening(v)
  <2>1. vpc[v] \in {NoVpc, Legacy} /\ opening[v] = "no" /\ ~rollout.legacy
    BY DEF Init
  <2>2. vpc[v].admitted = 0 /\ vpc[v].base = "none"
    BY <2>1, NewRows
  <2> QED
    BY <2>1, <2>2 DEF GoodVpc, GoodOpening
<1>3. GoodActivation
  BY IdleRecord DEF Init, GoodActivation
<1>4. ASSUME NEW r \in Runs PROVE GoodRun(r)
  BY DEF Init, NoRun, GoodRun
<1>5. ASSUME NEW d \in Dispatchers PROVE GoodDispatcher(d)
  BY OffFields DEF Init, GoodDispatcher
<1> QED
  BY <1>1, <1>2, <1>3, <1>4, <1>5 DEF RolloutInv

LEMMA NextKeeps ==
  ASSUME BackfillConstants, RolloutInv, [Next]_vars
  PROVE  RolloutInv'
<1>1. ASSUME NEW v \in VPCs, VpcStep(v) PROVE RolloutInv'
  BY <1>1, OpeningKeeps, AcceptCommitsKeeps, RowKeeps DEF VpcStep
<1>2. CASE PoolChanges
  BY <1>2, Halves, VpcsRest, PlansRest DEF PoolChanges
<1>3. ASSUME NEW r \in Runs,
             PlanBaseBackfill(r) \/ IntervalPasses(r) \/ \E paused \in BOOLEAN : SetPaused(r, paused)
      PROVE  RolloutInv'
  BY <1>3, PlanKeeps
<1>4. ASSUME NEW d \in Dispatchers,
             (\E r \in Runs : Dispatch(d, r)) \/ Ask(d) \/ Admit(d) \/ Interrupt(d)
      PROVE  RolloutInv'
  BY <1>4, DispatchKeeps, AskKeeps, AdmitKeeps, InterruptKeeps
<1>5. ASSUME NEW enabled \in BOOLEAN, SetNewVPCBaseConnectivity(enabled) PROVE RolloutInv'
  BY <1>5, SwitchKeeps
<1>6. CASE ActivationBegins \/ Activation
  BY <1>6, ActivationKeeps, ActivationCommitsKeeps DEF Activation
<1>7. CASE UNCHANGED vars
  BY <1>7, Halves, VpcsRest, PlansRest DEF vars, stored
<1> QED
  BY <1>1, <1>2, <1>3, <1>4, <1>5, <1>6, <1>7 DEF Next

\* The invariant that keeps the roll-out safe is kept by every step of
\* creations, switches, activation, plans and dispatchers.
THEOREM RolloutInvariant ==
  ASSUME BackfillConstants
  PROVE  Spec => []RolloutInv
<1>1. Init => RolloutInv
  BY InitKeeps
<1>2. RolloutInv /\ [Next]_vars => RolloutInv'
  BY NextKeeps
<1> QED
  BY <1>1, <1>2, PTL DEF Spec

\* For any VPCs, plans and dispatchers: once ActivateLegacyBaseAggregation has
\* committed every live VPC is required to have, and has, base rows; no mix of
\* AcceptVPC and AdmitNextBaseBackfill admits them twice; and concurrent
\* dispatchers of a plan process one candidate per interval.
THEOREM RolloutIsSafe ==
  ASSUME BackfillConstants
  PROVE  Spec => []BackfillSafety
<1>1. RolloutInv => BackfillSafety
  BY DEF RolloutInv, GoodVpc, GoodRun, BackfillSafety, LegacyCoversAll, AdmittedOnce, SharedRate
<1> QED
  BY <1>1, RolloutInvariant, PTL

\* Facts of the VPCs when the activation commits.
LEMMA CommitOnFreshFacts ==
  ASSUME RolloutInv, [Next]_vars, ~rollout.legacy, rollout'.legacy
  PROVE  \A v \in VPCs : Live(v) => vpc[v].base = "ready" /\ vpc[v].fresh
<1>1. CASE ActivationCommits
  <2>1. StaleEvidence = {}
    BY <1>1 DEF ActivationCommits
  <2>2. act.at = "checks" /\ act.todo = {}
    BY <1>1 DEF ActivationCommits
  <2> QED
    BY <2>1, <2>2 DEF RolloutInv, GoodActivation, StaleEvidence
<1>2. CASE \E enabled \in BOOLEAN : SetNewVPCBaseConnectivity(enabled)
  <2>1. PICK enabled \in BOOLEAN : rollout' = [rollout EXCEPT !.new = enabled]
    BY <1>2 DEF SetNewVPCBaseConnectivity
  <2>2. rollout'.legacy <=> rollout.legacy
    BY <2>1 DEF RolloutInv, Types
  <2> QED
    BY <2>2
<1>3. CASE UNCHANGED rollout
  BY <1>3
<1> QED
  BY <1>1, <1>2, <1>3
     DEF Next, VpcStep, AcceptBegins, AcceptReads, AcceptCommits, Established, Expires,
         Observed, DeleteVPC, Removed, PoolChanges, PlanBaseBackfill, IntervalPasses,
         SetPaused, Dispatch, Ask, Admit, Interrupt, ActivationBegins, Activation,
         ActivationLocks, ActivationChecks, vars, stored

\* Base rows come from the commit of a creation or from an admission.
LEMMA RowsForTheLiving ==
  ASSUME RolloutInv, [Next]_vars, NEW v \in VPCs, vpc[v].base = "none", vpc'[v].base # "none"
  PROVE  vpc[v].state \notin {"deleting", "deleted"}
<1>1. PICK k \in VpcRecord : k = vpc[v]
  BY RowFacts
<1>2. vpc \in [VPCs -> VpcRecord]
  BY DEF RolloutInv, Types
<1>3. ASSUME NEW x \in VPCs, VpcStep(x), vpc' # vpc PROVE vpc[v].state \notin {"deleting", "deleted"}
  <2>1. CASE AcceptCommits(x)
    <3>1. x = v
      BY <1>2, <2>1 DEF AcceptCommits
    <3> QED
      BY <2>1, <3>1, RowFacts DEF AcceptCommits, GoodOpening
  <2>2. CASE Established(x)
    <3>1. x = v
      BY <1>2, <2>2 DEF Established
    <3> QED
      BY <2>2, <3>1 DEF Established, Live
  <2>3. CASE ~AcceptCommits(x) /\ ~Established(x)
    <3>1. PICK n \in VpcRecord : vpc' = [vpc EXCEPT ![x] = n] /\ n.base = vpc[x].base
      <4>1. PICK o \in VpcRecord : o = vpc[x]
        BY RowFacts
      <4>2. /\ [o EXCEPT !.fresh = FALSE] \in VpcRecord /\ [o EXCEPT !.fresh = FALSE].base = o.base
            /\ [o EXCEPT !.fresh = TRUE] \in VpcRecord /\ [o EXCEPT !.fresh = TRUE].base = o.base
        BY DEF VpcRecord
      <4>3. /\ [o EXCEPT !.state = "deleting", !.active = TRUE] \in VpcRecord
            /\ [o EXCEPT !.state = "deleting", !.active = TRUE].base = o.base
            /\ [o EXCEPT !.state = "deleted", !.active = FALSE] \in VpcRecord
            /\ [o EXCEPT !.state = "deleted", !.active = FALSE].base = o.base
        BY DEF VpcRecord
      <4> QED
        BY <1>3, <2>3, <4>1, <4>2, <4>3
           DEF VpcStep, AcceptBegins, AcceptReads, Expires, Observed, DeleteVPC, Removed
    <3> QED
      BY <1>2, <3>1
  <2> QED
    BY <2>1, <2>2, <2>3
<1>4. ASSUME NEW d \in Dispatchers, Admit(d) PROVE vpc[v].state \notin {"deleting", "deleted"}
  <2>1. PICK x : x = disp[d].vpc
    OBVIOUS
  <2>2. vpc' = IF Result(x) = "accepted" THEN [vpc EXCEPT ![x] = WithBase(@, FALSE)] ELSE vpc
    BY <1>4, <2>1 DEF Admit
  <2>3. x = v /\ Result(x) = "accepted"
    BY <1>2, <2>2
  <2> QED
    BY <2>3 DEF Result
<1>5. CASE ActivationCommits
  <2>1. vpc'[v] = vpc[v] \/ vpc'[v] = [vpc[v] EXCEPT !.required = TRUE]
    BY <1>5 DEF ActivationCommits
  <2> QED
    BY <1>1, <2>1, RequiredFields
<1>6. CASE UNCHANGED vpc
  BY <1>6
<1> QED
  BY <1>3, <1>4, <1>5, <1>6
     DEF Next, PoolChanges, PlanBaseBackfill, IntervalPasses,
         SetPaused, Dispatch, Ask, Interrupt, ActivationBegins, Activation,
         ActivationLocks, ActivationChecks, SetNewVPCBaseConnectivity,
         vars, stored

\* A candidate is accepted by an admission, under the lock of its run.
LEMMA AcceptedUnderLock ==
  ASSUME RolloutInv, [Next]_vars, NEW r \in Runs, NEW v \in VPCs,
         cand[r][v] = "pending", cand'[r][v] = "accepted"
  PROVE  ~run[r].paused /\ run[r].reviewed
<1>1. cand \in [Runs -> [VPCs -> CandStates]]
  BY DEF RolloutInv, Types, CandStates
<1>2. ASSUME NEW d \in Dispatchers, Admit(d) PROVE ~run[r].paused /\ run[r].reviewed
  <2>1. disp[d].on /\ disp[d].vpc # 0
    BY <1>2 DEF Admit
  <2>2. PICK q \in Runs : q = disp[d].run /\ run[q].reviewed /\ ~run[q].paused
    BY <2>1, DispFacts DEF GoodDispatcher
  <2>3. PICK x, w : cand' = [cand EXCEPT ![q][x] = w]
    BY <1>2, <2>2 DEF Admit
  <2>4. q = r
    BY <1>1, <2>3
  <2> QED
    BY <2>2, <2>4
<1>3. ASSUME NEW q \in Runs, PlanBaseBackfill(q) PROVE FALSE
  <2>1. cand' = [cand EXCEPT ![q] = [x \in VPCs |-> Candidate(x)]]
    BY <1>3 DEF PlanBaseBackfill
  <2>2. Candidate(v) # "accepted"
    BY DEF Candidate
  <2> QED
    BY <1>1, <2>1, <2>2
<1>4. CASE UNCHANGED cand
  BY <1>4
<1> QED
  BY <1>2, <1>3, <1>4
     DEF Next, VpcStep, AcceptBegins, AcceptReads, AcceptCommits, Established, Expires,
         Observed, DeleteVPC, Removed, PoolChanges, IntervalPasses,
         SetPaused, Dispatch, Ask, Interrupt, ActivationBegins, Activation,
         ActivationLocks, ActivationChecks, ActivationCommits, SetNewVPCBaseConnectivity,
         vars, stored

\* For any VPCs, plans and dispatchers: a commit of SetBaseBackfillPaused stops
\* the admissions of every dispatcher, DeleteVPC closes them for its VPC though
\* it has been chosen, and ActivateLegacyBaseAggregation commits on facts that
\* are fresh at that moment for every live VPC.
THEOREM RolloutStepsAreSafe ==
  ASSUME BackfillConstants
  PROVE  Spec => BackfillSteps
<1>1. RolloutInv /\ [Next]_vars =>
        [\A r \in Runs, v \in VPCs :
           (cand[r][v] = "pending" /\ cand'[r][v] = "accepted")
             => ~run[r].paused /\ run[r].reviewed]_stored
  BY AcceptedUnderLock
<1>2. RolloutInv /\ [Next]_vars =>
        [\A v \in VPCs : (vpc[v].base = "none" /\ vpc'[v].base # "none")
                           => vpc[v].state \notin {"deleting", "deleted"}]_stored
  BY RowsForTheLiving
<1>3. RolloutInv /\ [Next]_vars =>
        [(~rollout.legacy /\ rollout'.legacy)
           => \A v \in VPCs : Live(v) => vpc[v].base = "ready" /\ vpc[v].fresh]_stored
  BY CommitOnFreshFacts
<1> QED
  BY <1>1, <1>2, <1>3, RolloutInvariant, PTL
     DEF Spec, BackfillSteps, NothingWhilePaused, RemovalClosesAdmission, ActivatedOnFreshFacts
=============================================================================
