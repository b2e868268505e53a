-------------------------- MODULE ResourceLifecycle --------------------------
(***************************************************************************)
(* The life of VPCs and Subnets from admission to confirmed deletion: API  *)
(* calls and worker lanes that share PostgreSQL rows, and a Kubernetes     *)
(* provider that workers reach by requests that may be late, lost or       *)
(* answered after nobody waits any more.                                   *)
(*                                                                         *)
(* One worker is one lane of some process (server/worker.go); its step is  *)
(*                                                                         *)
(*   Claim - Observe - BeginMutation - preflight - request - Finish        *)
(*                                                                         *)
(* and every dash is a point where other lanes, API calls, lease expiry    *)
(* and crashes interleave.  A transaction is one action: PostgreSQL's row  *)
(* locks (parent first) make it atomic.                                    *)
(*                                                                         *)
(* These are VPCs without a base connectivity row (roll-out disabled).     *)
(***************************************************************************)
EXTENDS ResourceRow

CONSTANTS
  Vpcs,        \* VPC identifiers
  Subnets,     \* Subnet identifiers
  VpcOf,       \* the parent VPC of each Subnet
  Overlapping, \* pairs of Subnets whose CIDR blocks share an address
  Workers,     \* worker lanes of all processes
  MaxFaults    \* bound on failures of any kind in one behaviour

Resources == Vpcs \cup Subnets

ASSUME ResourcesAssumption ==
  /\ Vpcs # {}
  /\ Vpcs \cap Subnets = {}
  /\ VpcOf \in [Subnets -> Vpcs]
  /\ Overlapping \subseteq Subnets \X Subnets
  /\ \A s, t \in Subnets : <<s, t>> \in Overlapping => <<t, s>> \in Overlapping

ASSUME FaultsAssumption == MaxFaults \in Nat

VARIABLES
  row,    \* the durable record of every resource
  pc,     \* where each lane is in its step
  call,   \* the provider mutation a lane's step leads to
  work,   \* what the lane's Claim returned
  held,   \* which fences of that claim still match the row
  prog,   \* the progress the lane will ask Finish to record
  net,    \* mutation requests on their way to the provider
  obj,    \* the provider object of every resource
  made,   \* how many objects were ever created for it; the latest one's uid
  faults  \* failures so far

dbVars   == <<row, held>>
laneVars == <<pc, call, work, prog>>
kcVars   == <<net, obj, made>>
vars     == <<row, pc, call, work, held, prog, net, obj, made, faults>>

-----------------------------------------------------------------------------
Work == [res : Resources, state : ResourceStates, active : BOOLEAN, uid : Nat,
         pending : PendingActions, fresh : BOOLEAN]

Request == [from : Workers, kind : {"create", "delete"}, res : Resources,
            uid : Nat]

\* version: the resource row still has the claimed version.
\* epoch: the reconciliation row still has the claimed owner and lease epoch.
Fences == {"version", "epoch"}

NoWork == [res |-> CHOOSE r \in Resources : TRUE, state |-> "none",
           active |-> FALSE, uid |-> 0, pending |-> "", fresh |-> FALSE]

NoProgress == [state |-> "none", op |-> "none", uid |-> 0,
               observed |-> FALSE, clear |-> FALSE]

Init ==
  /\ row    = [r \in Resources |-> NoRow]
  /\ pc     = [w \in Workers |-> "idle"]
  /\ call   = [w \in Workers |-> "none"]
  /\ work   = [w \in Workers |-> NoWork]
  /\ held   = [w \in Workers |-> {}]
  /\ prog   = [w \in Workers |-> NoProgress]
  /\ net    = {}
  /\ obj    = [r \in Resources |-> "absent"]
  /\ made   = [r \in Resources |-> 0]
  /\ faults = 0

-----------------------------------------------------------------------------
(***************************************************************************)
(* Helpers.                                                                *)
(***************************************************************************)
Fault == faults < MaxFaults /\ faults' = faults + 1

Exists(r) == obj[r] # "absent"

Children(v) == {s \in Subnets : VpcOf[s] = v}

\* CountBlockingSubnets for a VPC; attachments of a Subnet are not in this
\* module.
BlockedBySubnets(r) ==
  \E s \in Children(r) : row[s].state \notin {"none", "deleted"}

\* hasDependencies: the database first, then the provider's own children.
HasDependencies(r) ==
  BlockedBySubnets(r) \/ \E s \in Children(r) : Exists(s)

\* Every copy of r's version, or of its lease epoch, that a lane holds stops
\* matching once the row's counter moves on.
Bump(r, fences) ==
  [w \in Workers |-> IF work[w].res = r THEN held[w] \ fences ELSE held[w]]

\* lockedWork: version, lease owner, lease epoch and a lease that still runs.
Fenced(w) == held[w] = Fences /\ row[work[w].res].lease

\* The lane returns from Step.
StepEnds(w) ==
  /\ pc'   = [pc   EXCEPT ![w] = "idle"]
  /\ call' = [call EXCEPT ![w] = "none"]
  /\ work' = [work EXCEPT ![w] = NoWork]
  /\ prog' = [prog EXCEPT ![w] = NoProgress]

\* The lane has the progress it will ask Finish to record.
Conclude(w, p) ==
  /\ pc'   = [pc   EXCEPT ![w] = "finish"]
  /\ prog' = [prog EXCEPT ![w] = p]
  /\ UNCHANGED <<call, work>>

\* CreateFailed or DeleteAnswered, whichever call the lane is in.
CallFailed(w, kind) ==
  IF call[w] = "create" THEN CreateFailed(work[w], prog[w], kind)
                        ELSE DeleteAnswered(work[w], prog[w], kind)

-----------------------------------------------------------------------------
(***************************************************************************)
(* Admission.  Replays of an idempotency key and calls that are refused    *)
(* change nothing.                                                         *)
(***************************************************************************)
AcceptVPC(v) ==
  /\ row[v].state = "none"
  /\ row' = [row EXCEPT ![v] = Accepted]
  /\ UNCHANGED <<held, laneVars, kcVars, faults>>

SubnetOverlaps_ReusesDeleting(s) ==
  \E t \in Children(VpcOf[s]) \ {s} :
     /\ <<s, t>> \in Overlapping
     /\ row[t].state \notin {"none", "deleting", "deleted"}

SubnetOverlaps(s) ==
  \E t \in Children(VpcOf[s]) \ {s} :
     <<s, t>> \in Overlapping /\ row[t].state \notin {"none", "deleted"}

ParentReady_IgnoresState(s) == row[VpcOf[s]].state # "none"

ParentReady(s) ==
  LET parent == row[VpcOf[s]]
  IN parent.state = "available" /\ parent.fresh

AcceptSubnet(s) ==
  /\ row[s].state = "none"
  /\ ParentReady(s)
  /\ ~SubnetOverlaps(s)
  /\ row' = [row EXCEPT ![s] = Accepted]
  /\ UNCHANGED <<held, laneVars, kcVars, faults>>

\* The new operation takes the row over: the version and the lease epoch move
\* on and the lease is cleared, so no claim made before can still finish.
Supersede(r) ==
  /\ row'  = [row EXCEPT ![r] = AdmitDeletion(@)]
  /\ held' = Bump(r, Fences)
  /\ UNCHANGED <<laneVars, kcVars, faults>>

DeleteVPC_KeepsFences(v) ==
  /\ row[v].state # "none"
  /\ ~AlreadyRemoved(row[v])
  /\ ~BlockedBySubnets(v)
  /\ ~Active(row[v])
  /\ row' = [row EXCEPT ![v] = [@ EXCEPT !.state = "deleting",
                                         !.op = "queued"]]
  /\ UNCHANGED <<held, laneVars, kcVars, faults>>

\* Refused while Subnets remain or the last operation is active (a VPC with
\* no base connectivity row).
DeleteVPC(v) ==
  /\ row[v].state # "none"
  /\ ~AlreadyRemoved(row[v])
  /\ ~BlockedBySubnets(v)
  /\ ~Active(row[v])
  /\ Supersede(v)

DeleteSubnet(s) ==
  /\ row[s].state # "none"
  /\ ~AlreadyRemoved(row[s])
  /\ ~Active(row[s])
  /\ Supersede(s)

-----------------------------------------------------------------------------
(***************************************************************************)
(* A lane's step.                                                          *)
(***************************************************************************)
Claim(w, r) ==
  /\ pc[w] = "idle"
  /\ row[r].state # "none"
  /\ ~row[r].lease
  /\ row'  = [row EXCEPT ![r] = AcquireLease(@)]
  /\ held' = [Bump(r, {"epoch"}) EXCEPT ![w] = Fences]
  /\ work' = [work EXCEPT ![w] =
       [res |-> r, state |-> row[r].state, active |-> Active(row[r]),
        uid |-> row[r].uid, pending |-> row[r].pending,
        fresh |-> row[r].fresh]]
  /\ pc'   = [pc EXCEPT ![w] = "claimed"]
  /\ UNCHANGED <<call, prog, kcVars, faults>>

\* The provider call returns an observation; Step switches on the state.
Decide(w, seen) ==
  LET next == NextCall(work[w], seen)
  IN /\ call' = [call EXCEPT ![w] = next]
     /\ prog' = [prog EXCEPT ![w] = StepProgress(work[w], seen)]
     /\ pc'   = [pc EXCEPT ![w] = IF next = "none" THEN "finish" ELSE "begin"]
     /\ UNCHANGED <<dbVars, work, kcVars>>

\* observeDirect.  An absent object is reported with the dependencies that
\* remain; of an existing one only its status is read, which may lag.
ObserveDirect(w) ==
  LET r == work[w].res
  IN /\ pc[w] = "claimed"
     /\ \/ /\ ~Exists(r)
           /\ Decide(w, [exists |-> FALSE, uid |-> 0, ready |-> FALSE,
                         deps |-> HasDependencies(r)])
           /\ UNCHANGED faults
        \/ /\ Exists(r)
           /\ \E ready \in IF obj[r] = "live" THEN BOOLEAN ELSE {FALSE} :
                Decide(w, [exists |-> TRUE, uid |-> made[r], ready |-> ready,
                           deps |-> FALSE])
           /\ UNCHANGED faults
        \/ /\ Exists(r)
           /\ Decide(w, [exists |-> TRUE, uid |-> made[r], ready |-> FALSE,
                         deps |-> TRUE])
           /\ Fault

\* The cached view, used only with nothing under way: it may still show an
\* object that is gone by now.  An absence is never taken from it.
ObserveCached(w) ==
  /\ pc[w] = "claimed"
  /\ ~work[w].active /\ work[w].pending = ""
  /\ work[w].state # "deleted" /\ work[w].uid # 0
  /\ \E ready \in BOOLEAN :
       Decide(w, [exists |-> TRUE, uid |-> work[w].uid, ready |-> ready,
                  deps |-> FALSE])
  /\ UNCHANGED faults

ObserveFails(w) ==
  /\ pc[w] = "claimed"
  /\ \E kind \in {"temporary", "conflict"} :
       Conclude(w, ObserveFailed(work[w], kind))
  /\ Fault
  /\ UNCHANGED <<dbVars, kcVars>>

\* ErrLeaseLost ends the step without a trace in the row.
BeginMutation(w) ==
  LET r   == work[w].res
      uid == IF call[w] = "create" THEN 0 ELSE prog[w].uid
  IN /\ pc[w] = "begin"
     /\ \/ /\ Fenced(w) /\ MayBegin(row[r], call[w], uid)
           /\ row' = [row EXCEPT ![r] =
                        BeginProviderMutation(@, call[w], uid)]
           /\ pc'  = [pc EXCEPT ![w] = "check"]
           /\ UNCHANGED <<call, work, prog, held>>
        \/ /\ ~(Fenced(w) /\ MayBegin(row[r], call[w], uid))
           /\ StepEnds(w)
           /\ held' = [held EXCEPT ![w] = {}]
           /\ UNCHANGED row
     /\ UNCHANGED <<kcVars, faults>>

Send(w, uid) ==
  /\ net' = net \cup {[from |-> w, kind |-> call[w], res |-> work[w].res,
                       uid |-> uid]}
  /\ pc'  = [pc EXCEPT ![w] = "sent"]
  /\ UNCHANGED <<call, work, prog, dbVars, obj, made, faults>>

\* ensure of kc.go up to the POST: a fresh GET and, for a Subnet, the parent
\* binding.  An existing object answers the call; a recorded identity or a
\* parent without one refuses it.
CheckCreate(w) ==
  LET r == work[w].res
      refused == row[r].uid # 0 \/ (r \in Subnets /\ row[VpcOf[r]].uid = 0)
  IN /\ pc[w] = "check" /\ call[w] = "create"
     /\ IF Exists(r) \/ refused
          THEN /\ \E ready \in IF obj[r] = "live" THEN BOOLEAN ELSE {FALSE} :
                    Conclude(w,
                      IF Exists(r)
                        THEN CreateSucceeded(work[w], prog[w], made[r], ready)
                        ELSE CreateFailed(work[w], prog[w], "conflict"))
               /\ UNCHANGED <<dbVars, kcVars, faults>>
          ELSE Send(w, 0)

\* Delete of kc.go up to the DELETE: a fresh GET, whose absence is success,
\* the identity and the dependencies.
DeletePreflight(w) ==
  LET r == work[w].res
  IN IF ~Exists(r) THEN "ok"
     ELSE IF made[r] # prog[w].uid THEN "conflict"
     ELSE IF HasDependencies(r) THEN "inuse"
     ELSE "send"

CheckDelete(w) ==
  /\ pc[w] = "check" /\ call[w] = "delete"
  /\ IF DeletePreflight(w) = "send"
       THEN Send(w, prog[w].uid)
       ELSE /\ Conclude(w, DeleteAnswered(work[w], prog[w],
                                          DeletePreflight(w)))
            /\ UNCHANGED <<dbVars, kcVars, faults>>

\* A failed read before the request: nothing was sent.
CheckFails(w) ==
  /\ pc[w] = "check"
  /\ \E kind \in {"temporary", "conflict"} : Conclude(w, CallFailed(w, kind))
  /\ Fault
  /\ UNCHANGED <<dbVars, kcVars>>

\* RequestTimeout: the request may still arrive.
CallTimesOut(w) ==
  /\ pc[w] = "sent"
  /\ Conclude(w, CallFailed(w, "uncertain"))
  /\ Fault
  /\ UNCHANGED <<dbVars, kcVars>>

\* Finish: all of it under the fence, or ErrLeaseLost and none of it.
Finish(w) ==
  LET r == work[w].res
      accepted == Fenced(w) /\ MayFinish(row[r], work[w].active, prog[w])
  IN /\ pc[w] = "finish"
     /\ \/ /\ accepted
           /\ row'  = [row EXCEPT ![r] =
                         FinishRow(@, work[w].active, prog[w])]
           /\ held' = [Bump(r, {"version"}) EXCEPT ![w] = {}]
        \/ /\ ~accepted
           /\ held' = [held EXCEPT ![w] = {}]
           /\ UNCHANGED row
     /\ StepEnds(w)
     /\ UNCHANGED <<kcVars, faults>>

\* The process dies, or the database refuses the lane's transaction.
Crash(w) ==
  /\ pc[w] # "idle"
  /\ StepEnds(w)
  /\ held' = [held EXCEPT ![w] = {}]
  /\ Fault
  /\ UNCHANGED <<row, kcVars>>

-----------------------------------------------------------------------------
(***************************************************************************)
(* The provider.                                                           *)
(***************************************************************************)
Waits(q) == /\ pc[q.from] = "sent"
            /\ call[q.from] = q.kind
            /\ work[q.from].res = q.res

\* The answer reaches the lane if it still waits for it.
Answer(q, p) ==
  /\ net' = net \ {q}
  /\ IF Waits(q) THEN Conclude(q.from, p) ELSE UNCHANGED laneVars
  /\ UNCHANGED dbVars

\* POST: creates the object, or finds it (AlreadyExists, then a GET).
ApplyCreate(q) ==
  /\ q.kind = "create"
  /\ IF Exists(q.res)
       THEN UNCHANGED <<obj, made>>
       ELSE /\ obj'  = [obj EXCEPT ![q.res] = "live"]
            /\ made' = [made EXCEPT ![q.res] = @ + 1]
  /\ \E ready \in BOOLEAN :
       /\ obj'[q.res] = "live" \/ ~ready
       /\ Answer(q, CreateSucceeded(work[q.from], prog[q.from],
                                    made'[q.res], ready))
  /\ UNCHANGED faults

\* DELETE with the UID as precondition; finalizers run afterwards.
ApplyDelete(q) ==
  /\ q.kind = "delete"
  /\ IF Exists(q.res) /\ made[q.res] = q.uid
       THEN obj' = [obj EXCEPT ![q.res] = "terminating"]
       ELSE UNCHANGED obj
  /\ Answer(q, DeleteAnswered(work[q.from], prog[q.from],
              IF Exists(q.res) /\ made[q.res] # q.uid THEN "conflict"
                                                      ELSE "ok"))
  /\ UNCHANGED <<made, faults>>

\* An error status: the request had no effect (mutationFailure).
Refuse(q) ==
  /\ \E kind \in {"temporary", "conflict", "reject"} :
       Answer(q, CallFailed(q.from, kind))
  /\ Fault
  /\ UNCHANGED <<obj, made>>

\* The connection breaks before the request arrives.
Lose(q) ==
  /\ Answer(q, CallFailed(q.from, "uncertain"))
  /\ Fault
  /\ UNCHANGED <<obj, made>>

Finalize(r) ==
  /\ obj[r] = "terminating"
  /\ obj' = [obj EXCEPT ![r] = "absent"]
  /\ UNCHANGED <<dbVars, laneVars, net, made, faults>>

\* Somebody removes the object behind the service's back.
Vanish(r) ==
  /\ obj[r] = "live"
  /\ obj' = [obj EXCEPT ![r] = "absent"]
  /\ Fault
  /\ UNCHANGED <<dbVars, laneVars, net, made>>

-----------------------------------------------------------------------------
(***************************************************************************)
(* Time.                                                                   *)
(***************************************************************************)
\* A lease that outlives its step (the lane crashed) runs out by itself; one
\* that runs out under a lane that is still working is a fault.
LeaseExpires(r) ==
  /\ row[r].lease
  /\ row' = [row EXCEPT ![r].lease = FALSE]
  /\ IF \E w \in Workers : work[w].res = r /\ "epoch" \in held[w]
       THEN Fault
       ELSE UNCHANGED faults
  /\ UNCHANGED <<held, laneVars, kcVars>>

ObservationAges(r) ==
  /\ row[r].fresh
  /\ row' = [row EXCEPT ![r].fresh = FALSE]
  /\ UNCHANGED <<held, laneVars, kcVars, faults>>

-----------------------------------------------------------------------------
LaneStep(w) ==
  \/ \E r \in Resources : Claim(w, r)
  \/ ObserveDirect(w) \/ ObserveCached(w) \/ ObserveFails(w)
  \/ BeginMutation(w)
  \/ CheckCreate(w) \/ CheckDelete(w) \/ CheckFails(w)
  \/ CallTimesOut(w)
  \/ Finish(w)
  \/ Crash(w)

ProviderStep ==
  \/ \E q \in net : ApplyCreate(q) \/ ApplyDelete(q) \/ Refuse(q) \/ Lose(q)
  \/ \E r \in Resources : Finalize(r) \/ Vanish(r)

Next ==
  \/ \E v \in Vpcs : AcceptVPC(v) \/ DeleteVPC(v)
  \/ \E s \in Subnets : AcceptSubnet(s) \/ DeleteSubnet(s)
  \/ \E w \in Workers : LaneStep(w)
  \/ ProviderStep
  \/ \E r \in Resources : LeaseExpires(r) \/ ObservationAges(r)

Spec == Init /\ [][Next]_vars

(***************************************************************************)
(* Fairness.  A lane that claimed work runs its step to the end unless a   *)
(* fault ends it, and the provider serves what reaches it.  Claims follow  *)
(* next_run_at, so a due resource is passed over only finitely often:      *)
(* strong fairness, because the lanes are busy in between.  Faults, API    *)
(* calls and the ageing of observations are not fair.                      *)
(***************************************************************************)
LaneRuns(w) ==
  ObserveDirect(w) \/ BeginMutation(w) \/ CheckCreate(w) \/ CheckDelete(w)
    \/ Finish(w)

ProviderServes == \E q \in net : ApplyCreate(q) \/ ApplyDelete(q)

Fairness ==
  /\ \A w \in Workers : WF_vars(LaneRuns(w))
  /\ WF_vars(ProviderServes)
  /\ \A r \in Resources : /\ SF_vars(\E w \in Workers : Claim(w, r))
                          /\ WF_vars(Finalize(r))
                          /\ WF_vars(LeaseExpires(r))

LiveSpec == Spec /\ Fairness

-----------------------------------------------------------------------------
(***************************************************************************)
(* Properties.                                                             *)
(***************************************************************************)
LaneStates == {"idle", "claimed", "begin", "check", "sent", "finish"}

\* Every variable has the shape the code gives it.
TypeOK ==
  /\ row  \in [Resources -> Row]
  /\ pc   \in [Workers -> LaneStates]
  /\ call \in [Workers -> {"none", "create", "delete"}]
  /\ work \in [Workers -> Work]
  /\ held \in [Workers -> SUBSET Fences]
  /\ prog \in [Workers -> Progress]
  /\ net  \subseteq Request
  /\ obj  \in [Resources -> {"absent", "live", "terminating"}]
  /\ made \in [Resources -> Nat]
  /\ faults \in 0..MaxFaults

\* A POST for r may still reach the provider: it is on its way, or a lane has
\* passed BeginMutation and has not given up yet.
PostMayLand(r) ==
  \/ \E q \in net : q.kind = "create" /\ q.res = r
  \/ \E w \in Workers : pc[w] = "check" /\ call[w] = "create"
                         /\ work[w].res = r

\* Whatever is lost, late, retried or crashes, the provider never gets a
\* second object for one resource ("never submit a second POST",
\* worker.go ensure).
CreatedOnce == \A r \in Resources : made[r] <= 1

\* A deleted resource has nothing left in the provider and no POST that could
\* still put something there (delete of worker.go: acceptance is not
\* confirmation, and absence with a POST in doubt is not either).
DeletedMeansGone ==
  \A r \in Resources :
     row[r].state = "deleted" => ~Exists(r) /\ ~PostMayLand(r)

\* A resource is only reported failed when its creation left nothing behind
\* and never will (ensure: ProviderReject is the one definitive outcome).
FailedLeavesNothing ==
  \A r \in Resources :
     row[r].state = "failed" => made[r] = 0 /\ ~PostMayLand(r)

\* While a Subnet has an object, or may still get one, the removal of its VPC
\* has not been admitted (AcceptSubnet and DeleteVPC under the parent lock,
\* combined with what "deleted" means for the Subnet).
ParentOutlivesChild ==
  \A s \in Subnets :
     Exists(s) \/ PostMayLand(s) => ~AlreadyRemoved(row[VpcOf[s]])

\* Two Subnets of a VPC that share addresses never have objects at the same
\* time, although SubnetOverlaps only looks at the rows.
DisjointOnProvider ==
  \A s, t \in Subnets :
     /\ s # t /\ VpcOf[s] = VpcOf[t] /\ <<s, t>> \in Overlapping
     => ~(Exists(s) /\ Exists(t))

\* The recorded identity is the identity of the object created for this
\* resource, and a resource is only shown as usable with one recorded
\* (SaveBindingObservation, ensure).
IdentityIsReal ==
  \A r \in Resources :
     /\ row[r].uid # 0 => row[r].uid = made[r]
     /\ row[r].state \in {"available", "degraded"} => row[r].uid # 0

\* No completion of an earlier claim turns a removal back: once admitted it
\* only moves to deleted, and deleted is final (lockedWork, ScheduleDeletion).
RemovalSticks ==
  [][\A r \in Resources :
       /\ row[r].state = "deleting" => row'[r].state \in {"deleting", "deleted"}
       /\ row[r].state = "deleted"  => row'[r].state = "deleted"]_vars

\* Continuous observation never rewrites a completed operation; only the
\* admission of a removal replaces it (CompleteAttempt, Finish).
CompletedIsHistory ==
  [][\A r \in Resources :
       row[r].op \in CompletedStates /\ row'[r].op # row[r].op
         => row[r].state # "deleting" /\ row'[r].state = "deleting"]_vars

\* An admitted removal is completed once failures cease, whatever happened to
\* its lanes and requests before (the step is retried from the durable row).
RemovalCompletes ==
  \A r \in Resources : row[r].state = "deleting" ~> row[r].state = "deleted"
=============================================================================
