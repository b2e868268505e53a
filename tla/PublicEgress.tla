---------------------------- MODULE PublicEgress ----------------------------
(***************************************************************************)
(* Tenant EIPs and the public SNAT binding of a VPC: admission with the    *)
(* claim on the EIP, the enabled switch, removal, and the requests that    *)
(* carry them out while answers are lost and old requests arrive late.     *)
(*                                                                         *)
(* The VPCs, their base connectivity and the address pool are one flag,    *)
(* exit: they are all ready and fresh (BaseConnectivity and Platform).  A  *)
(* load balancer is the other kind of target an EIP can be claimed for; of *)
(* it only the claim and the binding are here (LoadBalancer has the rest). *)
(***************************************************************************)
EXTENDS EgressLane, FiniteSets

CONSTANTS
  Eips, Snats,  \* resource identifiers
  Vpcs,         \* the tenant's VPCs
  WithLB,       \* a load balancer competes for the EIPs
  MaxToggles    \* bound on accepted changes of the switch

Nobody == "nobody"
LB     == "load balancer"

ASSUME EgressAssumption ==
  /\ Resources = Eips \cup Snats /\ Eips \cap Snats = {}
  /\ {Nobody, LB} \cap Resources = {}
  /\ WithLB \in BOOLEAN /\ MaxToggles \in Nat

VARIABLES
  target,   \* the VPC and the EIP each binding was accepted for
  claim,    \* who holds the unreleased network_eip_claims row of an EIP
  exit,     \* VPC, base connectivity and pool are ready
  up,       \* EIPs with an address and good conditions
  bound,    \* status.boundResource of an EIP
  spec,     \* spec.disable of a SNAT object, negated
  status,   \* the switch its controller has applied
  rv,       \* resourceVersion of a SNAT object
  toggles

egressVars == <<target, claim, exit, up, bound, spec, status, rv, toggles>>
vars       == <<coreVars, egressVars>>

Init ==
  /\ CoreInit
  /\ target  = [s \in Snats |-> [vpc |-> Nobody, eip |-> Nobody]]
  /\ claim   = [e \in Eips |-> Nobody]
  /\ exit    = TRUE
  /\ up      = {}
  /\ bound   = [e \in Eips |-> Nobody]
  /\ spec    = [s \in Snats |-> TRUE]
  /\ status  = [s \in Snats |-> "unknown"]
  /\ rv      = [s \in Snats |-> 0]
  /\ toggles = 0

EipOf(s) == target[s].eip

\* freshResource.
Fresh(r) == row[r].state = "available" /\ row[r].fresh

Completed(r) == row[r].op \in CompletedStates

-----------------------------------------------------------------------------
(***************************************************************************)
(* Admission.  Every one of these transactions holds the row locks of the  *)
(* VPC, the EIP and the binding, in this order.                            *)
(***************************************************************************)
AcceptEIP(e) ==
  /\ row[e].state = "none" /\ exit
  /\ row' = [row EXCEPT ![e] = AcceptedEgress]
  /\ UNCHANGED <<lane, kcVars, faults, egressVars>>

\* BlockingSnatForVPC.
VpcTaken(v) ==
  \E s \in Snats : target[s].vpc = v /\ row[s].state \notin {"none", "deleted"}

\* BlockingSnatForEIP: any target's unreleased claim.
EipTaken(e) == claim[e] # Nobody

AcceptSnat(s, v, e) ==
  /\ row[s].state = "none"
  /\ ~VpcTaken(v) /\ ~EipTaken(e)
  /\ exit /\ Fresh(e) /\ Completed(e) /\ row[e].uid # 0
  /\ row'    = [row EXCEPT ![s] = AcceptedEgress]
  /\ target' = [target EXCEPT ![s] = [vpc |-> v, eip |-> e]]
  /\ claim'  = [claim EXCEPT ![e] = s]
  /\ UNCHANGED <<lane, kcVars, faults, exit, up, bound, spec, status, rv, toggles>>

\* AcceptSnat for set_snat_enabled: disabling stays possible with a degraded
\* exit.  The expected version is the one just read.
SetVPCSnatEnabled(s, enabled) ==
  /\ row[s].state \notin {"none", "deleting", "deleted"}
  /\ Completed(s) /\ toggles < MaxToggles
  /\ enabled => exit /\ Fresh(EipOf(s)) /\ Completed(EipOf(s))
  /\ row'     = [row EXCEPT ![s] = SetIntent(@, enabled)]
  /\ lane'    = Bump(lane, s, Fences)
  /\ toggles' = toggles + 1
  /\ UNCHANGED <<kcVars, faults, target, claim, exit, up, bound, spec, status, rv>>

Remove(r) ==
  /\ row[r].state \notin {"none", "deleting", "deleted"} /\ Completed(r)
  /\ row'  = [row EXCEPT ![r] = AdmitRemoval(@)]
  /\ lane' = Bump(lane, r, Fences)
  /\ UNCHANGED <<kcVars, faults, egressVars>>

DeleteEIP(e) == ~EipTaken(e) /\ Remove(e)

DeleteSnat(s) == Remove(s)

-----------------------------------------------------------------------------
(***************************************************************************)
(* The other target of an EIP.                                             *)
(***************************************************************************)
\* ClaimEIPForLB.
LBClaims(e) ==
  /\ WithLB /\ ~EipTaken(e) /\ Fresh(e) /\ Completed(e) /\ row[e].uid # 0
  /\ claim' = [claim EXCEPT ![e] = LB]
  /\ UNCHANGED <<coreVars, target, exit, up, bound, spec, status, rv, toggles>>

LBBinds(e) ==
  /\ claim[e] = LB /\ bound[e] = Nobody /\ obj[e] = "live"
  /\ bound' = [bound EXCEPT ![e] = LB]
  /\ UNCHANGED <<coreVars, target, claim, exit, up, spec, status, rv, toggles>>

\* Its Service is gone, and then ReleaseLBClaim.
LBUnbinds(e) ==
  /\ bound[e] = LB
  /\ bound' = [bound EXCEPT ![e] = Nobody]
  /\ UNCHANGED <<coreVars, target, claim, exit, up, spec, status, rv, toggles>>

LBReleases(e) ==
  /\ claim[e] = LB /\ bound[e] = Nobody
  /\ claim' = [claim EXCEPT ![e] = Nobody]
  /\ UNCHANGED <<coreVars, target, exit, up, bound, spec, status, rv, toggles>>

-----------------------------------------------------------------------------
(***************************************************************************)
(* What is observed (inspectEgressSet).                                    *)
(***************************************************************************)
\* eipBindingConflict: an object other than the expected one refers to e.
Conflict(e, expected) ==
  \/ \E s \in Snats \ {expected} : Exists(s) /\ EipOf(s) = e
  \/ bound[e] = LB /\ expected # LB

\* bindingApplied: the controller confirmed the desired position.
AppliedAs(s, enabled) ==
  /\ obj[s] = "live" /\ spec[s] = enabled /\ status[s] = Switch(enabled)
  /\ bound[EipOf(s)] = s

EipReady(e) ==
  /\ obj[e] = "live" /\ e \in up /\ exit /\ ~Conflict(e, claim[e])
  /\ \/ bound[e] = Nobody
     \/ claim[e] \in Snats /\ AppliedAs(claim[e], row[claim[e]].desired)
     \/ claim[e] = LB /\ bound[e] = LB

SnatApplied(s) ==
  IF ~Conflict(EipOf(s), s) /\ AppliedAs(s, row[s].desired)
    THEN Switch(row[s].desired) ELSE "unknown"

SnatReady(s) ==
  /\ SnatApplied(s) # "unknown"
  /\ row[s].desired => exit /\ EipOf(s) \in up

EipDeps(e) == bound[e] # Nobody \/ Conflict(e, claim[e]) \/ claim[e] # Nobody

SnatDeps(s) ==
  LET e == EipOf(s)
  IN \/ Conflict(e, s)
     \/ ~Exists(s) /\ (bound[e] # Nobody \/ obj[e] # "live")

Seen(r) ==
  [exists |-> Exists(r), uid |-> IF Exists(r) THEN made[r] ELSE 0,
   ready   |-> IF r \in Eips THEN EipReady(r) ELSE SnatReady(r),
   deps    |-> IF r \in Eips THEN EipDeps(r) ELSE SnatDeps(r),
   needs   |-> r \in Snats /\ Exists(r) /\ spec[r] # row[r].desired,
   applied |-> IF r \in Snats THEN SnatApplied(r) ELSE "unknown"]

\* resolveEgress: the intent changed since the claim.
Unresolved(w) ==
  Res(w) \in Snats /\ lane[w].work.desired # row[Res(w)].desired

-----------------------------------------------------------------------------
(***************************************************************************)
(* The lane's step.                                                        *)
(***************************************************************************)
Claim(w, r) ==
  /\ Claimable(w, r)
  /\ row'  = [row EXCEPT ![r] = AcquireLease(@)]
  /\ lane' = Taken(lane, w, r, FALSE, FALSE)
  /\ UNCHANGED <<kcVars, faults, egressVars>>

Observe(w) ==
  /\ lane[w].at = "claimed"
  /\ IF Unresolved(w) THEN ObserveFails(w, "conflict")
                      ELSE Decide(w, Seen(Res(w)))
  /\ UNCHANGED <<faults, egressVars>>

ObserveTrouble(w) ==
  /\ ObserveFails(w, "temporary")
  /\ Fault
  /\ UNCHANGED egressVars

Begin(w) == BeginMutation(w, FALSE) /\ UNCHANGED egressVars

\* egressPrerequisites.
Prerequisites(r) ==
  /\ exit
  /\ r \in Snats =>
       LET e == EipOf(r)
       IN obj[e] = "live" /\ e \in up /\ bound[e] = Nobody /\ ~Conflict(e, r)

CheckCreate(w) ==
  LET r == Res(w)
      k == lane[w].work
      p == lane[w].prog
  IN /\ lane[w].at = "check" /\ lane[w].call = "create"
     /\ IF Unresolved(w) \/ row[r].uid # 0
          THEN Answered(w, CreateFailed(k, p, "conflict"), "unknown")
        ELSE IF Exists(r)
          THEN Answered(w, CreateSucceeded(k, p, made[r], Seen(r).ready), Seen(r).applied)
        ELSE IF ~Prerequisites(r)
          THEN Answered(w, CreateFailed(k, p, "temporary"), "unknown")
        ELSE Send(w, 0, 0)
     /\ UNCHANGED egressVars

\* UpdateEgress: enabling needs what creating needs, with the EIP already bound.
MayEnable(s) ==
  LET e == EipOf(s)
  IN /\ e \in up /\ exit /\ AppliedAs(s, FALSE) /\ ~Conflict(e, s)

CheckUpdate_AlwaysNeedsExit(w) ==
  LET s == Res(w)
      k == lane[w].work
      p == lane[w].prog
  IN /\ lane[w].at = "check" /\ lane[w].call = "update"
     /\ IF Unresolved(w) \/ (Exists(s) /\ made[s] # p.uid)
          THEN Answered(w, UpdateFailed(k, p, "conflict"), "unknown")
        ELSE IF ~Exists(s) \/ ~exit
          THEN Answered(w, UpdateFailed(k, p, "temporary"), "unknown")
        ELSE Send(w, p.uid, rv[s])
     /\ UNCHANGED egressVars

CheckUpdate(w) ==
  LET s == Res(w)
      k == lane[w].work
      p == lane[w].prog
  IN /\ lane[w].at = "check" /\ lane[w].call = "update"
     /\ IF Unresolved(w) \/ (Exists(s) /\ made[s] # p.uid)
          THEN Answered(w, UpdateFailed(k, p, "conflict"), "unknown")
        ELSE IF ~Exists(s) \/ (k.desired /\ ~spec[s] /\ ~MayEnable(s))
          THEN Answered(w, UpdateFailed(k, p, "temporary"), "unknown")
        ELSE IF spec[s] = k.desired
          THEN Answered(w, UpdateSucceeded(k, p, SnatReady(s), FALSE), SnatApplied(s))
        ELSE Send(w, p.uid, rv[s])
     /\ UNCHANGED egressVars

CheckDelete(w) ==
  LET r == Res(w)
      p == lane[w].prog
      answer == IF Unresolved(w) \/ (Exists(r) /\ made[r] # p.uid) THEN "conflict"
                ELSE IF Seen(r).deps THEN "inuse"
                ELSE IF ~Exists(r) THEN "ok"
                ELSE "send"
  IN /\ lane[w].at = "check" /\ lane[w].call = "delete"
     /\ IF answer = "send"
          THEN Send(w, p.uid, IF r \in Snats THEN rv[r] ELSE 0)
          ELSE Answered(w, DeleteAnswered(lane[w].work, p, answer), "unknown")
     /\ UNCHANGED egressVars

\* ReleaseSnatClaim in finishBaseConnectivity.
ClaimsAfter_ReleasesEarly(r, p) ==
  [e \in Eips |-> IF claim[e] = r /\ r \in Snats /\ p.state \in {"deleting", "deleted"}
                    THEN Nobody ELSE claim[e]]

ClaimsAfter(r, p) ==
  [e \in Eips |-> IF claim[e] = r /\ r \in Snats /\ p.state = "deleted"
                    THEN Nobody ELSE claim[e]]

Finish(w) ==
  /\ lane[w].at = "finish" /\ Accepts(w)
  /\ row'   = Finished(row, w, lane[w].prog)
  /\ lane'  = Released(lane, w)
  /\ claim' = ClaimsAfter(Res(w), lane[w].prog)
  /\ UNCHANGED <<kcVars, faults, target, exit, up, bound, spec, status, rv, toggles>>

-----------------------------------------------------------------------------
(***************************************************************************)
(* The provider.                                                           *)
(***************************************************************************)
Create(q) ==
  LET r   == q.res
      new == r \in Snats /\ ~Exists(r)
  IN /\ ApplyCreate(q, Exists(r) /\ Seen(r).ready, "unknown")
     /\ spec'   = IF new THEN [spec EXCEPT ![r] = q.enable] ELSE spec
     /\ status' = IF new THEN [status EXCEPT ![r] = "unknown"] ELSE status
     /\ rv'     = IF new THEN [rv EXCEPT ![r] = @ + 1] ELSE rv
     /\ UNCHANGED <<target, claim, exit, up, bound, toggles>>

\* A JSON patch that tests uid and resourceVersion: 422 when one differs.
PatchApplies_IgnoresRevision(q) == Exists(q.res) /\ made[q.res] = q.uid

PatchApplies(q) ==
  Exists(q.res) /\ made[q.res] = q.uid /\ rv[q.res] = q.rv

Update(q) ==
  LET s == q.res
      k == lane[q.from].work
      p == lane[q.from].prog
  IN /\ q.kind = "update"
     /\ IF PatchApplies(q)
          THEN /\ spec' = [spec EXCEPT ![s] = q.enable]
               /\ rv'   = [rv EXCEPT ![s] = @ + 1]
               /\ Answer(q, UpdateSucceeded(k, p, FALSE, FALSE), "unknown")
          ELSE /\ UNCHANGED <<spec, rv>>
               /\ Answer(q, UpdateFailed(k, p, IF Exists(s) THEN "reject" ELSE "uncertain"),
                         "unknown")
     /\ UNCHANGED <<obj, made, faults, target, claim, exit, up, bound, status, toggles>>

\* DELETE tests uid and resourceVersion as well.
Delete(q) ==
  LET stale == q.res \in Snats /\ rv[q.res] # q.rv
  IN /\ IF q.kind = "delete" /\ stale
          THEN /\ Answer(q, DeleteAnswered(lane[q.from].work, lane[q.from].prog,
                              IF Exists(q.res) THEN "conflict" ELSE "ok"), "unknown")
               /\ UNCHANGED <<obj, made, faults>>
          ELSE ApplyDelete(q)
     /\ UNCHANGED egressVars

Gone(r) ==
  /\ Finalize(r)
  /\ up' = up \ {r}
  /\ UNCHANGED <<target, claim, exit, bound, spec, status, rv, toggles>>

Allocate(e) ==
  /\ obj[e] = "live" /\ e \notin up
  /\ up' = up \cup {e}
  /\ UNCHANGED <<coreVars, target, claim, exit, bound, spec, status, rv, toggles>>

Bind(s) ==
  LET e == EipOf(s)
  IN /\ obj[s] = "live" /\ obj[e] = "live" /\ e \in up /\ bound[e] = Nobody
     /\ bound' = [bound EXCEPT ![e] = s]
     /\ UNCHANGED <<coreVars, target, claim, exit, up, spec, status, rv, toggles>>

\* The controller confirms the position of the switch in the status.
Apply(s) ==
  /\ obj[s] = "live" /\ bound[EipOf(s)] = s /\ status[s] # Switch(spec[s])
  /\ status' = [status EXCEPT ![s] = Switch(spec[s])]
  /\ rv'     = [rv EXCEPT ![s] = @ + 1]
  /\ UNCHANGED <<coreVars, target, claim, exit, up, bound, spec, toggles>>

Unbind(s) ==
  LET e == EipOf(s)
  IN /\ ~Exists(s) /\ e # Nobody /\ bound[e] = s
     /\ bound' = [bound EXCEPT ![e] = Nobody]
     /\ UNCHANGED <<coreVars, target, claim, exit, up, spec, status, rv, toggles>>

ExitFails ==
  /\ exit /\ exit' = FALSE
  /\ Fault
  /\ UNCHANGED <<dbVars, kcVars, target, claim, up, bound, spec, status, rv, toggles>>

ExitRecovers ==
  /\ ~exit /\ exit' = TRUE
  /\ UNCHANGED <<coreVars, target, claim, up, bound, spec, status, rv, toggles>>

-----------------------------------------------------------------------------
Admission ==
  \/ \E e \in Eips : AcceptEIP(e) \/ DeleteEIP(e)
  \/ \E s \in Snats, v \in Vpcs, e \in Eips : AcceptSnat(s, v, e)
  \/ \E s \in Snats : \/ DeleteSnat(s)
                      \/ \E b \in BOOLEAN : SetVPCSnatEnabled(s, b)
  \/ \E e \in Eips : LBClaims(e) \/ LBBinds(e) \/ LBUnbinds(e) \/ LBReleases(e)

LaneStep(w) ==
  \/ \E r \in Resources : Claim(w, r)
  \/ Observe(w) \/ ObserveTrouble(w)
  \/ Begin(w) \/ CheckCreate(w) \/ CheckUpdate(w) \/ CheckDelete(w) \/ Finish(w)
  \/ /\ LeaseLost(w) \/ CheckFails(w) \/ CallTimesOut(w) \/ Crash(w)
     /\ UNCHANGED egressVars

ProviderStep ==
  \/ \E q \in net : \/ Create(q) \/ Update(q) \/ Delete(q)
                    \/ (Refuse(q) \/ Lose(q)) /\ UNCHANGED egressVars
  \/ \E r \in Resources : Gone(r)
  \/ \E e \in Eips : Allocate(e)
  \/ \E s \in Snats : Bind(s) \/ Apply(s) \/ Unbind(s)
  \/ ExitFails \/ ExitRecovers

TimeStep ==
  \E r \in Resources : /\ LeaseExpires(r) \/ ObservationAges(r)
                       /\ UNCHANGED egressVars

Next == Admission \/ (\E w \in Workers : LaneStep(w)) \/ ProviderStep \/ TimeStep

Spec == Init /\ [][Next]_vars

LaneRuns(w) ==
  \/ Observe(w) \/ Begin(w) \/ CheckCreate(w) \/ CheckUpdate(w) \/ CheckDelete(w)
  \/ Finish(w) \/ (LeaseLost(w) /\ UNCHANGED egressVars)

\* As in BaseConnectivity; nobody has to send requests, and the exit need not
\* recover.
Fairness ==
  /\ \A w \in Workers : WF_vars(LaneRuns(w))
  /\ WF_vars(\E q \in net : Create(q) \/ Update(q) \/ Delete(q))
  /\ \A r \in Resources :
       /\ SF_vars(\E w \in Workers : Claim(w, r))
       /\ WF_vars(Gone(r))
       /\ WF_vars(LeaseExpires(r) /\ UNCHANGED egressVars)
  /\ \A e \in Eips : WF_vars(Allocate(e))
  /\ \A s \in Snats : WF_vars(Bind(s)) /\ WF_vars(Apply(s)) /\ WF_vars(Unbind(s))

LiveSpec == Spec /\ Fairness

-----------------------------------------------------------------------------
(***************************************************************************)
(* Properties.                                                             *)
(***************************************************************************)
Present(r) == Exists(r) \/ PostMayLand(r)

\* Every variable has the shape the code gives it.
TypeOK ==
  /\ CoreTypeOK
  /\ target \in [Snats -> [vpc : Vpcs \cup {Nobody}, eip : Eips \cup {Nobody}]]
  /\ claim \in [Eips -> Snats \cup {LB, Nobody}]
  /\ bound \in [Eips -> Snats \cup {LB, Nobody}]
  /\ exit \in BOOLEAN /\ up \subseteq Eips
  /\ spec \in [Snats -> BOOLEAN] /\ status \in [Snats -> Facts]
  /\ rv \in [Snats -> Nat] /\ toggles \in 0..MaxToggles

\* An EIP serves one target: whoever may use it at the provider, through an
\* object, a request on its way or a binding not yet undone, holds its claim,
\* and the EIP itself stays (AcceptSnat, ClaimEIPForLB, DeleteEIP,
\* ReleaseSnatClaim).
EipServesItsClaimant ==
  \A e \in Eips :
    /\ \A s \in Snats : EipOf(s) = e /\ Present(s) => claim[e] = s
    /\ bound[e] # Nobody => claim[e] = bound[e]
    /\ claim[e] # Nobody => obj[e] = "live"

\* applied_enabled is only shown while the provider has applied what is
\* desired: no completion that observed the previous position of the switch
\* is taken for the new one (SetSnatIntent, AdvanceSnat, lockedWork).
AppliedIsTrue ==
  \A s \in Snats :
    row[s].applied # "unknown" /\ row[s].state \notin {"deleting", "deleted"} =>
      /\ row[s].applied = Switch(row[s].desired)
      /\ spec[s] = row[s].desired /\ status[s] = row[s].applied

\* What a binding's row says about its EIP and its switch is true.
EgressSafety == EipServesItsClaimant /\ AppliedIsTrue

\* A patch that takes effect sets the position desired at that moment, however
\* late it arrives (UpdateEgress tests the revision it has read).
LatePatchIsHarmless ==
  [][\A s \in Snats : Exists(s) /\ spec'[s] # spec[s] => spec'[s] = row[s].desired]_vars

\* Disabling a binding that is at the provider completes whatever the state of
\* the exit, after any failures (AcceptSnat, UpdateEgress).
DisablingCompletes ==
  \A s \in Snats :
    (row[s].kind = "update" /\ ~row[s].desired /\ Active(row[s]) /\ Exists(s))
      ~> ~Active(row[s])

\* An admitted removal of a binding or an EIP completes (Worker.delete,
\* ReleaseSnatClaim).
RemovalCompletes ==
  \A r \in Resources : row[r].state = "deleting" ~> row[r].state = "deleted"

\* Both promises of progress.
EgressCompletes == DisablingCompletes /\ RemovalCompletes
=============================================================================
