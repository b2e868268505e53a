-------------------------- MODULE BaseConnectivity --------------------------
(***************************************************************************)
(* The base connectivity of one VPC: a system-managed EIP and a SNAT       *)
(* binding accepted together with the VPC (or later, by the backfill), the *)
(* gates that order their creation, the aggregate the VPC's completion     *)
(* decides, and the clean-up in the order SNAT, EIP, VPC.                  *)
(*                                                                         *)
(* The default intranet pool is ready whenever base connectivity is        *)
(* accepted; Platform has the pools.  Subnets and load balancers of the    *)
(* VPC are in other modules.                                               *)
(***************************************************************************)
EXTENDS EgressLane

CONSTANTS
  Vpc, Eip, Snat,
  Rollouts  \* the values new_vpcs_enabled may have when the VPC is accepted

BaseConstants ==
  /\ Rollouts \subseteq BOOLEAN
  /\ Resources = {Vpc, Eip, Snat}
  /\ Vpc # Eip /\ Vpc # Snat /\ Eip # Snat

VARIABLES
  base,   \* the network_vpc_base_connectivity row
  claim,  \* the network_eip_claims row of the EIP
  up,     \* objects whose conditions are all good
  bound   \* the provider's EIP is bound to the SNAT

baseVars == <<base, claim, up, bound>>
vars     == <<row, lane, net, obj, made, faults, base, claim, up, bound>>

\* fresh: provider_observed_at is recent; required: the VPC is only available
\* together with its base connectivity.
NoBase == [state |-> "missing", terminating |-> FALSE, ready |-> FALSE,
           fresh |-> FALSE, required |-> FALSE]

HasBase == base.state # "missing"

Init ==
  /\ CoreInit
  /\ base  = NoBase
  /\ claim = "none"
  /\ up    = {}
  /\ bound = FALSE

-----------------------------------------------------------------------------
(***************************************************************************)
(* Admission.                                                              *)
(***************************************************************************)
\* acceptBaseConnectivity: children, claim and base row in one transaction.
WithBase(rows) == [rows EXCEPT ![Eip] = AcceptedEgress, ![Snat] = AcceptedEgress]

AcceptBase(required) ==
  /\ base'  = [NoBase EXCEPT !.state = "pending", !.required = required]
  /\ claim' = "reserved"

\* AcceptVPC with the roll-out enabled, or before it was.
AcceptVPC ==
  /\ row[Vpc].state = "none"
  /\ \/ /\ TRUE \in Rollouts
        /\ row' = WithBase([row EXCEPT ![Vpc] = AcceptedEgress])
        /\ AcceptBase(TRUE)
     \/ /\ FALSE \in Rollouts
        /\ row' = [row EXCEPT ![Vpc] = AcceptedEgress]
        /\ UNCHANGED <<base, claim>>
  /\ UNCHANGED <<lane, kcVars, faults, up, bound>>

\* acceptBaseBackfillCandidate: an established VPC with a completed operation
\* and nothing pending gets its base connectivity by a new operation.
EnsureBase ==
  /\ ~HasBase
  /\ row[Vpc].state \in {"available", "degraded"}
  /\ row[Vpc].op = "succeeded"
  /\ row[Vpc].uid # 0 /\ row[Vpc].pending = ""
  /\ row'  = WithBase([row EXCEPT ![Vpc] =
               [@ EXCEPT !.op = "queued", !.kind = "ensure", !.lease = FALSE,
                         !.told = TRUE]])
  /\ lane' = Bump(NotifyLanes(lane, {Vpc}), Vpc, Fences)
  /\ AcceptBase(FALSE)
  /\ UNCHANGED <<kcVars, faults, up, bound>>

\* RequireVPCBase in ActivateLegacyBaseAggregation: only with everything
\* ready, so a legacy VPC counts its base connectivity from now on.
RequireBase ==
  /\ HasBase /\ ~base.required
  /\ base.state = "ready" /\ ~base.terminating /\ base.fresh
  /\ \A r \in {Eip, Snat} : row[r].state = "available" /\ row[r].fresh
  /\ row[Snat].applied = "on" /\ claim = "bound"
  /\ \A r \in Resources : row[r].uid # 0 /\ row[r].pending = ""
  /\ base' = [base EXCEPT !.required = TRUE]
  /\ UNCHANGED <<coreVars, claim, up, bound>>

\* An active creation is refused without a base row and preempted with one
\* (RetireActiveOperation, TerminateBase, AdmitDeletion, ScheduleDeletion).
DeleteVPC ==
  /\ row[Vpc].state \notin {"none", "deleting", "deleted"}
  /\ Active(row[Vpc]) => HasBase
  /\ row'  = [row EXCEPT ![Vpc] = AdmitRemoval(@)]
  /\ lane' = Bump(lane, Vpc, Fences)
  /\ base' = IF HasBase
               THEN [base EXCEPT !.terminating = TRUE, !.state = "deleting"]
               ELSE base
  /\ UNCHANGED <<kcVars, faults, claim, up, bound>>

-----------------------------------------------------------------------------
(***************************************************************************)
(* Claim with baseWorkGate and prepareBaseCleanup.                         *)
(***************************************************************************)
ChildGate_IgnoresTerminating(r) ==
  ~(base.ready /\ base.fresh)

ChildGate(r) ==
  /\ row[r].state \notin {"deleting", "deleted"}
  /\ \/ base.terminating \/ ~base.ready \/ ~base.fresh
     \/ /\ r = Snat
        /\ \/ row[Eip].state # "available" \/ ~row[Eip].fresh
           \/ row[Eip].uid = 0 \/ row[Eip].pending # ""

\* The child whose removal the VPC's claim admits now: the SNAT first, the
\* EIP only once the SNAT is deleted.
CleanupNext ==
  IF row[Snat].state # "deleted"
    THEN {Snat} \ {r \in {Snat} : row[r].state = "deleting"}
    ELSE {Eip} \ {r \in {Eip} : row[r].state \in {"deleting", "deleted"}}

CleanupDone_SnatOnly == row[Snat].state = "deleted"

CleanupDone ==
  row[Snat].state = "deleted" /\ row[Eip].state = "deleted"

ClaimVpc(w) ==
  LET cleaning == HasBase /\ row[Vpc].state \in {"deleting", "deleted"}
      admitted == IF cleaning THEN CleanupNext ELSE {}
      rows     == [r \in Resources |-> IF r \in admitted THEN AdmitRemoval(row[r])
                                                         ELSE row[r]]
      lanes    == [v \in Workers |->
                     IF lane[v].work.res \in admitted
                       THEN [lane[v] EXCEPT !.held = {}] ELSE lane[v]]
  IN /\ Claimable(w, Vpc)
     /\ row'  = [rows EXCEPT ![Vpc] = AcquireLease(@)]
     /\ lane' = Taken(lanes, w, Vpc, cleaning /\ ~CleanupDone, FALSE)
     /\ UNCHANGED <<kcVars, faults, baseVars>>

ClaimChild(w, r) ==
  /\ Claimable(w, r)
  /\ row'  = [row EXCEPT ![r] = AcquireLease(@)]
  /\ lane' = Taken(lane, w, r, ChildGate(r), Unsent(row[r]))
  /\ UNCHANGED <<kcVars, faults, baseVars>>

-----------------------------------------------------------------------------
(***************************************************************************)
(* Observation.                                                            *)
(***************************************************************************)
\* resolveEgress: the identities a reference needs are not recorded yet.
Unresolved(r) ==
  \/ r = Eip /\ claim \in {"reserved", "bound"} /\ row[Vpc].uid = 0
  \/ r = Snat /\ (row[Eip].uid = 0 \/ row[Vpc].uid = 0)

\* inspectEgressSet: an EIP is in use while bound or claimed; a SNAT that is
\* gone still counts until its EIP is free again.
Dependencies(r) ==
  \/ r = Eip /\ (bound \/ claim \in {"reserved", "bound"})
  \/ r = Snat /\ ~Exists(Snat) /\ (bound \/ obj[Eip] # "live")

Applied == IF obj[Snat] = "live" /\ bound THEN "on" ELSE "unknown"

IsReady(r) ==
  obj[r] = "live" /\ IF r = Snat THEN Applied = "on" ELSE r \in up

Seen(r) ==
  [exists |-> Exists(r), uid |-> IF Exists(r) THEN made[r] ELSE 0,
   ready |-> IsReady(r), deps |-> Dependencies(r), needs |-> FALSE,
   applied |-> IF r = Snat THEN Applied ELSE "unknown"]

ObserveDirect(w) ==
  LET r == Res(w)
  IN /\ lane[w].at = "claimed"
     /\ IF Unresolved(r)
          THEN ObserveFails(w, "conflict")
          ELSE Decide(w, Seen(r))
     /\ UNCHANGED <<faults, baseVars>>

\* The audit's view, with nothing under way; an absence in it is no evidence.
ObserveCached(w) ==
  LET k == lane[w].work
  IN /\ lane[w].at = "claimed"
     /\ ~k.active /\ k.pending = "" /\ k.uid # 0 /\ k.state # "deleted"
     /\ ~Exists(k.res)
     /\ Decide(w, [exists |-> TRUE, uid |-> k.uid, ready |-> TRUE,
                   deps |-> FALSE, needs |-> FALSE,
                   applied |-> IF k.res = Snat THEN "on" ELSE "unknown"])
     /\ UNCHANGED <<faults, baseVars>>

ObserveTrouble(w) ==
  /\ \E kind \in {"temporary", "conflict"} : ObserveFails(w, kind)
  /\ Fault
  /\ UNCHANGED baseVars

-----------------------------------------------------------------------------
(***************************************************************************)
(* Mutations.                                                              *)
(***************************************************************************)
\* A child's creation is refused once the VPC's removal was admitted.
Begin(w) ==
  /\ BeginMutation(w, Res(w) # Vpc /\ lane[w].call = "create" /\ base.terminating)
  /\ UNCHANGED baseVars

\* egressPrerequisites.
Prerequisites(r) ==
  r = Snat => IsReady(Eip) /\ ~bound /\ IsReady(Vpc)

CheckCreate(w) ==
  LET r == Res(w)
      k == lane[w].work
      p == lane[w].prog
  IN /\ lane[w].at = "check" /\ lane[w].call = "create"
     /\ IF Unresolved(r) \/ row[r].uid # 0
          THEN Answered(w, CreateFailed(k, p, "conflict"), "unknown")
        ELSE IF Exists(r)
          THEN Answered(w, CreateSucceeded(k, p, made[r], IsReady(r)),
                        IF r = Snat THEN Applied ELSE "unknown")
        ELSE IF ~Prerequisites(r)
          THEN Answered(w, CreateFailed(k, p, "temporary"), "unknown")
        ELSE Send(w, 0, 0)
     /\ UNCHANGED baseVars

\* Delete of kc.go and deleteEgress: hasDependencies only counts Subnets for a
\* VPC, so nothing but the order of the admissions protects the children.
CheckDelete(w) ==
  LET r == Res(w)
      p == lane[w].prog
      answer == IF Unresolved(r) \/ (Exists(r) /\ made[r] # p.uid)
                  THEN "conflict"
                ELSE IF Dependencies(r) THEN "inuse"
                ELSE IF ~Exists(r) THEN "ok"
                ELSE "send"
  IN /\ lane[w].at = "check" /\ lane[w].call = "delete"
     /\ IF answer = "send"
          THEN Send(w, p.uid, 0)
          ELSE Answered(w, DeleteAnswered(lane[w].work, p, answer), "unknown")
     /\ UNCHANGED baseVars

-----------------------------------------------------------------------------
(***************************************************************************)
(* Finish with finishBaseConnectivity.                                     *)
(***************************************************************************)
Ready_IgnoresSwitch(p, fresh) ==
  /\ p.observed /\ p.state = "available" /\ p.uid # 0 /\ fresh
  /\ \A r \in {Eip, Snat} : row[r].state = "available"

\* Everything the product calls ready, from the rows as they are now.
Ready(p, fresh) ==
  /\ p.observed /\ p.state = "available" /\ p.uid # 0 /\ fresh
  /\ \A r \in {Eip, Snat} :
       /\ row[r].state = "available" /\ row[r].fresh
       /\ row[r].uid # 0 /\ row[r].pending = ""
  /\ row[Snat].applied = "on"

\* What a VPC without its base connectivity is told to be instead.
NotReady(k, p) ==
  [p EXCEPT
     !.op    = IF /\ k.active /\ p.state # "failed"
                  /\ k.kind \in {"create", "ensure"} /\ @ # "blocked"
                 THEN "retrying" ELSE @,
     !.state = IF base.required /\ @ = "available"
                 THEN IF k.state \in {"available", "degraded"} THEN "degraded"
                                                               ELSE "provisioning"
                 ELSE @]

FinishVpc(w) ==
  LET k  == lane[w].work
      p  == lane[w].prog
      providerReady == p.observed /\ p.state = "available" /\ p.uid # 0
      fresh == p.observed \/ base.fresh
      ready == Ready(p, fresh)
      told  == IF base.ready # providerReady THEN {Eip, Snat} ELSE {}
  IN /\ lane[w].at = "finish" /\ Res(w) = Vpc /\ Accepts(w)
     /\ IF ~HasBase \/ base.terminating
          THEN /\ row'  = Finished(row, w, p)
               /\ lane' = Released(lane, w)
               /\ base' = IF HasBase
                            THEN [base EXCEPT
                                    !.state = IF p.state = "deleted" THEN "deleted"
                                                                     ELSE "deleting",
                                    !.ready = FALSE, !.fresh = FALSE]
                            ELSE base
          ELSE /\ base' = [base EXCEPT
                             !.state = IF ready THEN "ready"
                                       ELSE IF @ \in {"ready", "degraded"}
                                              THEN "degraded" ELSE "pending",
                             !.ready = providerReady,
                             !.fresh = fresh]
               /\ row'  = Finished(NotifyRows(row, told), w,
                                   IF ready THEN p ELSE NotReady(k, p))
               /\ lane' = Released(NotifyLanes(lane, told), w)
     /\ UNCHANGED <<kcVars, faults, claim, up, bound>>

\* The parent is told when the child's state or identity changed.  A change of
\* the reason alone tells it too, which only adds wake-ups and is left out.
ParentTold(k, p) == k.state # p.state \/ k.uid # p.uid

\* ReleaseSnatClaim and ConfirmSnatClaim.
ClaimAfter(r, p, facts) ==
  IF r # Snat THEN claim
  ELSE IF p.state = "deleted" THEN "released"
  ELSE IF p.observed /\ facts # "unknown" /\ claim = "reserved" THEN "bound"
  ELSE claim

FinishChild(w) ==
  LET r == Res(w)
      k == lane[w].work
      p == lane[w].prog
      told == IF ParentTold(k, p) THEN {Vpc} ELSE {}
  IN /\ lane[w].at = "finish" /\ r # Vpc /\ Accepts(w)
     /\ row'   = NotifyRows(Finished(row, w, p), told)
     /\ lane'  = NotifyLanes(Released(lane, w), told)
     /\ claim' = ClaimAfter(r, p, lane[w].facts)
     /\ UNCHANGED <<kcVars, faults, base, up, bound>>

-----------------------------------------------------------------------------
(***************************************************************************)
(* The provider's controller and time.                                     *)
(***************************************************************************)
ComesUp(r) ==
  /\ obj[r] = "live" /\ r \notin up /\ r # Snat
  /\ up' = up \cup {r}
  /\ UNCHANGED <<coreVars, base, claim, bound>>

GoesDown(r) ==
  /\ r \in up
  /\ up' = up \ {r}
  /\ Fault
  /\ UNCHANGED <<dbVars, kcVars, base, claim, bound>>

Bind ==
  /\ obj[Snat] = "live" /\ obj[Eip] = "live" /\ ~bound
  /\ bound' = TRUE
  /\ UNCHANGED <<coreVars, base, claim, up>>

Unbind ==
  /\ bound /\ ~Exists(Snat)
  /\ bound' = FALSE
  /\ UNCHANGED <<coreVars, base, claim, up>>

BaseAges ==
  /\ base.fresh
  /\ base' = [base EXCEPT !.fresh = FALSE]
  /\ Fault
  /\ UNCHANGED <<dbVars, kcVars, claim, up, bound>>

Gone(r) ==
  /\ Finalize(r)
  /\ up' = up \ {r}
  /\ UNCHANGED <<base, claim, bound>>

Create(q) ==
  /\ ApplyCreate(q, IsReady(q.res), "unknown")
  /\ UNCHANGED baseVars

Delete(q) == ApplyDelete(q) /\ UNCHANGED baseVars

-----------------------------------------------------------------------------
LaneStep(w) ==
  \/ ClaimVpc(w)
  \/ \E r \in {Eip, Snat} : ClaimChild(w, r)
  \/ ObserveDirect(w) \/ ObserveCached(w) \/ ObserveTrouble(w)
  \/ Begin(w) \/ CheckCreate(w) \/ CheckDelete(w)
  \/ FinishVpc(w) \/ FinishChild(w)
  \/ /\ LeaseLost(w) \/ CheckFails(w) \/ CallTimesOut(w) \/ Crash(w)
     /\ UNCHANGED baseVars

ProviderStep ==
  \/ \E q \in net : \/ Create(q) \/ Delete(q)
                    \/ (Refuse(q) \/ Lose(q)) /\ UNCHANGED baseVars
  \/ \E r \in Resources : Gone(r) \/ ComesUp(r) \/ GoesDown(r)
  \/ Bind \/ Unbind

TimeStep ==
  \/ \E r \in Resources : /\ LeaseExpires(r) \/ ObservationAges(r)
                          /\ UNCHANGED baseVars
  \/ BaseAges

Next ==
  \/ AcceptVPC \/ EnsureBase \/ RequireBase \/ DeleteVPC
  \/ \E w \in Workers : LaneStep(w)
  \/ ProviderStep
  \/ TimeStep

Spec == Init /\ [][Next]_vars

(***************************************************************************)
(* Fairness as in ResourceLifecycle: a claimed step runs to its end, the   *)
(* provider serves what reaches it and its controller binds and unbinds, a *)
(* due resource is claimed again and again, a deserted lease runs out.     *)
(***************************************************************************)
LaneRuns(w) ==
  \/ ObserveDirect(w) \/ Begin(w) \/ CheckCreate(w) \/ CheckDelete(w)
  \/ FinishVpc(w) \/ FinishChild(w) \/ (LeaseLost(w) /\ UNCHANGED baseVars)

Claims(w, r) == IF r = Vpc THEN ClaimVpc(w) ELSE ClaimChild(w, r)

Fairness ==
  /\ \A w \in Workers : WF_vars(LaneRuns(w))
  /\ WF_vars(\E q \in net : Create(q) \/ Delete(q))
  /\ WF_vars(Bind) /\ WF_vars(Unbind)
  /\ \A r \in Resources :
       /\ SF_vars(\E w \in Workers : Claims(w, r))
       /\ WF_vars(Gone(r)) /\ WF_vars(ComesUp(r))
       /\ WF_vars(LeaseExpires(r) /\ UNCHANGED baseVars)

LiveSpec == Spec /\ Fairness

-----------------------------------------------------------------------------
(***************************************************************************)
(* Properties.                                                             *)
(***************************************************************************)
Present(r) == Exists(r) \/ PostMayLand(r)

\* Every variable has the shape the code gives it.
TypeOK ==
  /\ CoreTypeOK
  /\ base \in [state : {"missing", "pending", "ready", "degraded", "deleting",
                        "deleted"},
               terminating : BOOLEAN, ready : BOOLEAN, fresh : BOOLEAN,
               required : BOOLEAN]
  /\ claim \in {"none", "reserved", "bound", "released"}
  /\ up \subseteq Resources /\ bound \in BOOLEAN

\* The provider is asked to remove the EIP only when the SNAT is gone for
\* good, and the VPC only when both are: no lane of a child that is still
\* running, and no late POST, brings one back under a parent that is being
\* removed (prepareBaseCleanup, CancelUnsent, BeginMutation).
Asked(r) ==
  \/ obj[r] = "terminating"
  \/ \E q \in net : q.kind = "delete" /\ q.res = r /\ q.uid = made[r] /\ Exists(r)

CleanupOrder ==
  /\ Asked(Eip) => ~Present(Snat)
  /\ Asked(Vpc) => ~Present(Snat) /\ ~Present(Eip)

\* A deleted resource, a cancelled creation included, has nothing at the
\* provider and no POST that could still put something there.
DeletedIsGone ==
  \A r \in Resources : row[r].state = "deleted" => ~Present(r)

\* The EIP stays claimed as long as a SNAT may use it, so neither another
\* binding nor its own removal can take it (ReleaseSnatClaim).
ClaimCoversBinding ==
  Present(Snat) \/ bound => claim \in {"reserved", "bound"}

\* A base connectivity shown as ready while a child no longer is, has its VPC
\* scheduled for another look: the notification is not lost to a claim of the
\* VPC that is under way (NotifyBaseParent, ReleaseLease).
ParentHears ==
  base.state = "ready" =>
     row[Vpc].told \/ \A r \in {Eip, Snat} : row[r].state = "available"

\* What a lane, a late request or a lost claim must never do to the parts of a
\* base connectivity: the four invariants above together.
BaseSafety ==
  CleanupOrder /\ DeletedIsGone /\ ClaimCoversBinding /\ ParentHears

\* A VPC that requires base connectivity only becomes available together with
\* it: the step that shows it available finds both children available, the
\* switch on and nothing pending (finishBaseConnectivity).
AvailableTogether ==
  [][/\ base.required
     /\ row[Vpc].state # "available" /\ row'[Vpc].state = "available"
     => /\ base'.state = "ready"
        /\ row[Snat].applied = "on" /\ claim = "bound"
        /\ \A r \in {Eip, Snat} :
             row[r].state = "available" /\ row[r].uid # 0 /\ row[r].pending = ""]_vars

\* A removal that never completes has one explanation: a creation whose
\* outcome stays unknown.  Preempted operations, gates and lost leases do not
\* stop it.
RemovalCompletes ==
  <>[](row[Vpc].state = "deleting")
    => <>[](\E r \in Resources : row[r].pending = "create" /\ ~Exists(r))

\* A base connectivity whose creation meets no failure ends up ready unless
\* the VPC is removed: the gates do not wait for each other for ever.
BecomesReady ==
  [](HasBase /\ faults = 0 => <>(base.state \in {"ready", "deleting", "deleted"} \/ faults > 0))

\* Both promises of progress.
BaseProgress == RemovalCompletes /\ BecomesReady
=============================================================================
