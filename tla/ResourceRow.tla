----------------------------- MODULE ResourceRow -----------------------------
(***************************************************************************)
(* The durable record of one network resource and what each transaction    *)
(* does to it.  A row joins the four tables that hold a resource:          *)
(*   state, fresh  network_vpcs / network_subnets (state, observed_at)     *)
(*   op            network_operations: the state of last_operation_id      *)
(*   uid, pending  network_provider_bindings (provider_uid, 0 for '',      *)
(*                 pending_action)                                         *)
(*   lease         network_reconciliations: lease_until lies ahead         *)
(* The version and the lease epoch are only ever compared for equality     *)
(* with a worker's copy, so they are modelled on the worker's side, as the *)
(* copies that still match (variable held of ResourceLifecycle).           *)
(* next_run_at only delays a claim and is left out.                        *)
(***************************************************************************)
EXTENDS WorkerStep

Row == [state : ResourceStates, op : OperationStates, uid : Nat,
        pending : PendingActions, lease : BOOLEAN, fresh : BOOLEAN]

Active(row) == row.op \in ActiveStates

\* A resource nobody has asked for.
NoRow == [state |-> "none", op |-> "none", uid |-> 0, pending |-> "",
          lease |-> FALSE, fresh |-> FALSE]

\* The rows AcceptVPC and AcceptSubnet insert.
Accepted == [NoRow EXCEPT !.state = "provisioning", !.op = "queued"]

\* AcquireLease and RunOperation.
AcquireLease(row) ==
  [row EXCEPT !.lease = TRUE,
              !.op    = IF Active(row) THEN "running" ELSE @]

\* The WHERE clause of BeginProviderMutation.
MayBegin(row, action, uid) ==
  /\ row.uid \in {0, uid}
  /\ \/ action = "create" /\ row.pending = ""
     \/ action = "delete" /\ (row.pending \in {"", "delete"} \/ uid # 0)

BeginProviderMutation(row, action, uid) ==
  [row EXCEPT !.pending = action,
              !.uid     = IF @ = 0 THEN uid ELSE @]

\* The WHERE clauses of CompleteAttempt and SaveBindingObservation.
MayFinish(row, active, p) ==
  /\ active => Active(row)
  /\ row.uid \in {0, p.uid}

FinishRow_SwapsStates(row, active, p) ==
  [row EXCEPT !.state   = p.op,
              !.fresh   = p.observed \/ @,
              !.op      = IF active THEN p.state ELSE @,
              !.uid     = IF @ = 0 THEN p.uid ELSE @,
              !.pending = IF p.clear THEN "" ELSE @,
              !.lease   = FALSE]

FinishRow_RewritesOperation(row, active, p) ==
  [row EXCEPT !.op      = p.op,
              !.state   = p.state,
              !.fresh   = p.observed \/ @,
              !.uid     = IF @ = 0 THEN p.uid ELSE @,
              !.pending = IF p.clear THEN "" ELSE @,
              !.lease   = FALSE]

\* AdvanceVPC / AdvanceSubnet, CompleteAttempt, SaveBindingObservation and
\* ReleaseLease.
FinishRow(row, active, p) ==
  [row EXCEPT !.state   = p.state,
              !.fresh   = p.observed \/ @,
              !.op      = IF active THEN p.op ELSE @,
              !.uid     = IF @ = 0 THEN p.uid ELSE @,
              !.pending = IF p.clear THEN "" ELSE @,
              !.lease   = FALSE]

\* The early return of DeleteVPC and DeleteSubnet.
AlreadyRemoved(row) == row.state \in {"deleting", "deleted"}

\* InsertOperation, AdmitDeletion and ScheduleDeletion.
AdmitDeletion(row) ==
  [row EXCEPT !.state = "deleting", !.op = "queued", !.lease = FALSE]
=============================================================================
