----------------------------- MODULE WorkerStep -----------------------------
(***************************************************************************)
(* The decisions of biz/network/worker.go: what one Worker.Step concludes  *)
(* from the work it claimed, from what the provider shows and from what    *)
(* the provider answers.  Everything here is a pure operator.  Reasons,    *)
(* delays and the attempt counter are left out: no decision reads them.    *)
(*                                                                         *)
(*   work      what Claim returned: the resource's state, whether its last *)
(*             operation is active, the recorded provider identity, the    *)
(*             pending action and whether the last observation is fresh    *)
(*   seen      a provider observation: exists, uid, ready, dependencies    *)
(*   progress  what Finish is asked to record                              *)
(*                                                                         *)
(* In this project a definition named Operator_Error is a deliberate       *)
(* mistake in Operator: substituting it must break a property, which shows *)
(* that the property can fail.                                             *)
(***************************************************************************)
EXTENDS Naturals

\* Resource states (biz.ResourceState); "none" is a resource not accepted yet.
ResourceStates == {"none", "provisioning", "available", "degraded", "failed",
                   "deleting", "deleted"}

\* Operation states (biz.OperationState).
ActiveStates    == {"queued", "running", "retrying", "blocked"}
CompletedStates == {"succeeded", "failed"}
OperationStates == {"none"} \cup ActiveStates \cup CompletedStates

PendingActions == {"", "create", "delete"}

Progress == [state : ResourceStates, op : OperationStates, uid : Nat,
             observed : BOOLEAN, clear : BOOLEAN]

-----------------------------------------------------------------------------
(***************************************************************************)
(* Step: the progress every outcome starts from, the failed observation    *)
(* and the successful one.                                                 *)
(***************************************************************************)
StartProgress(work) ==
  [state    |-> work.state,
   op       |-> IF work.active THEN "retrying" ELSE "none",
   uid      |-> work.uid,
   observed |-> FALSE,
   clear    |-> FALSE]

\* An object with no identity, or with another one than the recorded, is
\* reported like an ownership conflict.
ObserveFailed(work, kind) ==
  LET start == StartProgress(work)
      doubtful == kind = "conflict" \/ ~work.fresh
  IN [start EXCEPT
        !.op    = IF work.active /\ kind = "conflict" THEN "blocked" ELSE @,
        !.state = IF work.state = "available" /\ doubtful
                    THEN "degraded" ELSE @]

Observed(work, seen) ==
  [StartProgress(work) EXCEPT
     !.observed = TRUE,
     !.uid      = IF seen.exists THEN seen.uid ELSE work.uid,
     !.clear    = seen.exists /\ work.pending = "create"]

-----------------------------------------------------------------------------
(***************************************************************************)
(* ensure: the branches that end the step, the call, and its answers.      *)
(***************************************************************************)
Degrade(state) == IF state \in {"available", "degraded"} THEN "degraded"
                                                         ELSE state

Settle(work, ready, p) ==
  IF ready
    THEN [p EXCEPT !.state = "available",
                   !.op    = IF work.active THEN "succeeded" ELSE @]
    ELSE [p EXCEPT !.state = Degrade(work.state)]

\* ensure submits a POST: nothing is there, none may be under way, none was
\* ever confirmed, and an operation asks for it.
NeedsCreate(work, seen) ==
  /\ ~seen.exists
  /\ work.pending # "create"
  /\ work.uid = 0
  /\ work.active

EnsureProgress(work, seen) ==
  LET p == Observed(work, seen)
  IN IF seen.exists
       THEN Settle(work, seen.ready, p)
       ELSE [p EXCEPT !.op    = "blocked",
                      !.state = IF work.pending = "create"
                                  THEN @ ELSE Degrade(@)]

CreateSucceeded(work, p, uid, ready) ==
  Settle(work, ready, [p EXCEPT !.uid = uid, !.clear = TRUE])

CreateFailed_UncertainFails(work, p, kind) ==
  [p EXCEPT
     !.observed = FALSE,
     !.clear    = kind # "uncertain",
     !.state    = IF kind \in {"reject", "uncertain"} THEN "failed" ELSE @,
     !.op       = CASE kind \in {"reject", "uncertain"} -> "failed"
                    [] kind = "temporary"               -> @
                    [] OTHER                            -> "blocked"]

CreateFailed_ClearsUncertain(work, p, kind) ==
  [p EXCEPT
     !.observed = FALSE,
     !.clear    = TRUE,
     !.state    = IF kind = "reject" THEN "failed" ELSE @,
     !.op       = CASE kind = "reject"    -> "failed"
                    [] kind = "temporary" -> @
                    [] OTHER              -> "blocked"]

\* A malformed success is treated like an uncertain error.
CreateFailed(work, p, kind) ==
  [p EXCEPT
     !.observed = FALSE,
     !.clear    = kind # "uncertain",
     !.state    = IF kind = "reject" THEN "failed" ELSE @,
     !.op       = CASE kind = "reject"    -> "failed"
                    [] kind = "temporary" -> @
                    [] OTHER              -> "blocked"]

-----------------------------------------------------------------------------
(***************************************************************************)
(* delete: a DELETE is sent for what exists; only an observed absence with *)
(* no POST in doubt records the resource as deleted.                       *)
(***************************************************************************)
NeedsDelete(work, seen) == seen.exists /\ ~seen.deps

DeleteProgress_AnyPendingBlocks(work, seen) ==
  LET p == Observed(work, seen)
  IN IF seen.deps \/ work.pending # ""
       THEN [p EXCEPT !.op = "blocked"]
       ELSE [p EXCEPT !.state = "deleted", !.op = "succeeded", !.clear = TRUE]

DeleteProgress(work, seen) ==
  LET p == Observed(work, seen)
  IN IF seen.deps \/ work.pending = "create"
       THEN [p EXCEPT !.op = "blocked"]
       ELSE [p EXCEPT !.state = "deleted", !.op = "succeeded", !.clear = TRUE]

DeleteAnswered_ConfirmsDeletion(work, p, kind) ==
  IF kind = "ok"
    THEN [p EXCEPT !.clear = TRUE, !.state = "deleted", !.op = "succeeded"]
    ELSE [p EXCEPT !.clear = FALSE,
                   !.op    = IF kind = "temporary" THEN @ ELSE "blocked"]

DeleteAnswered(work, p, kind) ==
  [p EXCEPT !.clear = FALSE,
            !.op    = IF kind \in {"ok", "temporary"} THEN @ ELSE "blocked"]

-----------------------------------------------------------------------------
(***************************************************************************)
(* Step's switch on the resource state: the provider call it leads to, and *)
(* the progress when it leads to none.                                     *)
(***************************************************************************)
Removing(work) == work.state \in {"deleting", "deleted"}

NextCall(work, seen) ==
  CASE Removing(work)         -> IF NeedsDelete(work, seen) THEN "delete"
                                                            ELSE "none"
    [] work.state = "failed"  -> "none"
    [] OTHER                  -> IF NeedsCreate(work, seen) THEN "create"
                                                            ELSE "none"

StepProgress(work, seen) ==
  IF NextCall(work, seen) # "none" \/ work.state = "failed"
    THEN Observed(work, seen)
    ELSE IF Removing(work) THEN DeleteProgress(work, seen)
                           ELSE EnsureProgress(work, seen)
=============================================================================
