----------------------------- MODULE EgressStep -----------------------------
(***************************************************************************)
(* What Worker.Step and the rows of a resource do beyond WorkerStep and    *)
(* ResourceRow once EIPs and SNAT bindings share the lanes: updates,       *)
(* gates, cancelled creations, retired and notified rows.  Pure operators. *)
(*                                                                         *)
(*   sent     network_provider_bindings.create_dispatched                  *)
(*   told     requested_generation > processed_generation                  *)
(*   retired  the reconciliation row will never be claimed again           *)
(*   kind     the kind of the last operation                               *)
(*   desired, applied   desired_enabled and applied_enabled of a SNAT      *)
(*                      binding; a resource of another kind keeps TRUE     *)
(***************************************************************************)
EXTENDS ResourceRow, TLC

Facts     == {"unknown", "on", "off"}
Kinds     == {"create", "ensure", "update", "delete"}
Mutations == {"create", "update", "delete"}

EgressRow ==
  [state : ResourceStates, op : OperationStates, uid : Nat,
   pending : PendingActions \cup {"update"}, lease : BOOLEAN, fresh : BOOLEAN,
   sent : BOOLEAN, told : BOOLEAN, retired : BOOLEAN, kind : Kinds,
   desired : BOOLEAN, applied : Facts]

\* NoRow with the further columns.
NoEgressRow ==
  [state |-> "none", op |-> "none", uid |-> 0, pending |-> "", lease |-> FALSE,
   fresh |-> FALSE, sent |-> FALSE, told |-> FALSE, retired |-> FALSE,
   kind |-> "create", desired |-> TRUE, applied |-> "unknown"]

AcceptedEgress == [NoEgressRow EXCEPT !.state = "provisioning", !.op = "queued"]

Switch(enabled) == IF enabled THEN "on" ELSE "off"

-----------------------------------------------------------------------------
(***************************************************************************)
(* Admission of a removal over whatever operation is active (the callers   *)
(* that refuse an active operation do so in their guards): the operation   *)
(* is retired, the deletion replaces it, and the lease is cleared.         *)
(***************************************************************************)
AdmitRemoval(row) ==
  [AdmitDeletion(row) EXCEPT !.kind = "delete", !.applied = "unknown"]

\* SetSnatIntent and ScheduleDeletion: a new target for the switch.
SetIntent(row, enabled) ==
  [row EXCEPT !.desired = enabled, !.applied = "unknown", !.kind = "update",
              !.state = "provisioning", !.op = "queued", !.lease = FALSE]

-----------------------------------------------------------------------------
(***************************************************************************)
(* Claim.                                                                  *)
(***************************************************************************)
WorkOf(r, row) ==
  [res |-> r, state |-> row.state, active |-> Active(row), uid |-> row.uid,
   pending |-> row.pending, fresh |-> row.fresh, kind |-> row.kind,
   desired |-> row.desired]

\* The durable record that no POST was ever allowed for this resource.
Unsent(row) ==
  /\ row.state \in {"deleting", "deleted"}
  /\ ~row.sent /\ row.uid = 0 /\ row.pending = ""

Cancelled(work) ==
  [StartProgress(work) EXCEPT !.state = "deleted", !.op = "succeeded",
                              !.clear = TRUE]

-----------------------------------------------------------------------------
(***************************************************************************)
(* The step's decision.  A binding whose switch differs from the desired   *)
(* one is only changed by the operation that asked for it.                 *)
(***************************************************************************)
Switching(work) == work.active /\ work.kind = "update"

EgressCall(work, seen) ==
  IF /\ ~Removing(work) /\ work.state # "failed"
     /\ seen.exists /\ seen.needs /\ Switching(work)
    THEN "update"
    ELSE NextCall(work, seen)

EgressProgress(work, seen) ==
  LET p == StepProgress(work, seen)
      ensured == ~Removing(work) /\ work.state # "failed" /\ seen.exists
  IN IF EgressCall(work, seen) = "update" THEN Observed(work, seen)
     ELSE IF ensured /\ seen.needs
       THEN [Observed(work, seen) EXCEPT !.state = "degraded"]
     ELSE IF ensured /\ work.pending = "update" THEN [p EXCEPT !.clear = TRUE]
     ELSE p

UpdateSucceeded(work, p, ready, needs) ==
  Settle(work, ready, [p EXCEPT !.clear = ~needs])

UpdateFailed(work, p, kind) ==
  [p EXCEPT !.observed = FALSE,
            !.clear    = kind # "uncertain",
            !.op       = IF kind = "conflict" THEN "blocked" ELSE @]

-----------------------------------------------------------------------------
(***************************************************************************)
(* BeginMutation and Finish.                                               *)
(***************************************************************************)
MayBeginEgress(row, action, uid) ==
  IF action = "update"
    THEN row.uid = uid /\ uid # 0 /\ row.pending \in {"", "update"}
    ELSE MayBegin(row, action, uid)

BeginEgress(row, action, uid) ==
  [BeginProviderMutation(row, action, uid) EXCEPT
     !.sent = @ \/ action = "create"]

\* heard: nothing was requested since the claim; facts: what was observed of
\* the switch.  AdvanceSnat forgets it when nothing was observed.
FinishEgress(row, active, p, facts, heard, cancel) ==
  [FinishRow(row, active, p) EXCEPT
     !.applied = IF p.observed THEN facts ELSE "unknown",
     !.told    = IF cancel THEN FALSE
                 ELSE IF p.observed THEN ~heard ELSE @,
     !.retired = cancel]
=============================================================================
