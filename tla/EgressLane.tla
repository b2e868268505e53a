----------------------------- MODULE EgressLane -----------------------------
(***************************************************************************)
(* The lanes that reconcile VPCs, EIPs and SNAT bindings, and the provider *)
(* they talk to.  As in ResourceLifecycle a lane's step is                 *)
(*                                                                         *)
(*   Claim - Observe - BeginMutation - preflight - request - Finish        *)
(*                                                                         *)
(* with one transaction or one request per dash.  Claims and completions   *)
(* touch several rows here, so they are given as functions of the rows and *)
(* lanes; the modules that extend this one supply what is observed, the    *)
(* preconditions of each request and the rows a transaction also changes.  *)
(***************************************************************************)
EXTENDS EgressStep

CONSTANTS
  Resources,  \* resource identifiers
  Workers,    \* worker lanes of all processes
  MaxFaults   \* bound on failures of any kind in one behaviour

ASSUME LaneAssumption == Resources # {} /\ MaxFaults \in Nat

VARIABLES
  row,    \* the durable record of every resource
  lane,   \* each worker lane: its step, claim, progress and fences
  net,    \* mutation requests on their way to the provider
  obj,    \* the provider object of every resource
  made,   \* how many objects were ever created for it; the latest one's uid
  faults  \* failures so far

dbVars   == <<row, lane>>
kcVars   == <<net, obj, made>>
coreVars == <<row, lane, net, obj, made, faults>>

-----------------------------------------------------------------------------
Fences == {"version", "epoch"}

Idle ==
  [at |-> "idle", call |-> "none", cancel |-> FALSE, heard |-> FALSE,
   held |-> {}, facts |-> "unknown",
   work |-> WorkOf(CHOOSE r \in Resources : TRUE, NoEgressRow),
   prog |-> StartProgress(WorkOf(CHOOSE r \in Resources : TRUE, NoEgressRow))]

CoreInit ==
  /\ row    = [r \in Resources |-> NoEgressRow]
  /\ lane   = [w \in Workers |-> Idle]
  /\ net    = {}
  /\ obj    = [r \in Resources |-> "absent"]
  /\ made   = [r \in Resources |-> 0]
  /\ faults = 0

Fault == faults < MaxFaults /\ faults' = faults + 1

Exists(r) == obj[r] # "absent"
Res(w)    == lane[w].work.res

\* The row's version or epoch moves on: copies held by lanes stop matching.
Bump(lanes, r, fences) ==
  [w \in Workers |->
     IF lanes[w].work.res = r THEN [lanes[w] EXCEPT !.held = @ \ fences]
                              ELSE lanes[w]]

\* NotifyBaseParent, NotifyBaseChildren: one more requested generation.
NotifyRows(rows, rs) ==
  [r \in Resources |->
     IF r \in rs /\ rows[r].state # "none" /\ ~rows[r].retired
       THEN [rows[r] EXCEPT !.told = TRUE] ELSE rows[r]]

NotifyLanes(lanes, rs) ==
  [w \in Workers |->
     IF lanes[w].work.res \in rs THEN [lanes[w] EXCEPT !.heard = FALSE]
                                 ELSE lanes[w]]

Fenced(w) == lane[w].held = Fences /\ row[Res(w)].lease

-----------------------------------------------------------------------------
(***************************************************************************)
(* Claim: the row to take, and the lane that takes it.  A cancelled        *)
(* creation and a closed gate go to Finish without a provider call.        *)
(***************************************************************************)
Claimable(w, r) ==
  /\ lane[w].at = "idle"
  /\ row[r].state # "none"
  /\ ~row[r].lease /\ ~row[r].retired

Taken(lanes, w, r, gated, cancel) ==
  LET work == WorkOf(r, row[r])
  IN [Bump(lanes, r, {"epoch"}) EXCEPT ![w] =
        [Idle EXCEPT !.at     = IF cancel \/ gated THEN "finish" ELSE "claimed",
                     !.cancel = cancel,
                     !.heard  = TRUE,
                     !.held   = Fences,
                     !.work   = work,
                     !.prog   = IF cancel THEN Cancelled(work)
                                          ELSE StartProgress(work)]]

-----------------------------------------------------------------------------
(***************************************************************************)
(* From the observation to the request.                                    *)
(***************************************************************************)
\* seen adds to a provider observation needs (the switch differs from the
\* desired one) and applied (what the provider confirms of the switch).
Decide(w, seen) ==
  LET call == EgressCall(lane[w].work, seen)
  IN /\ lane' = [lane EXCEPT ![w] =
                   [@ EXCEPT !.call  = call,
                             !.prog  = EgressProgress(lane[w].work, seen),
                             !.facts = seen.applied,
                             !.at    = IF call = "none" THEN "finish"
                                                        ELSE "begin"]]
     /\ UNCHANGED <<row, kcVars>>

Conclude(w, p, facts) ==
  lane' = [lane EXCEPT ![w] = [@ EXCEPT !.at = "finish", !.prog = p,
                                        !.facts = facts]]

\* The observation fails: unreadable, or references that do not resolve.
ObserveFails(w, kind) ==
  /\ lane[w].at = "claimed"
  /\ Conclude(w, ObserveFailed(lane[w].work, kind), "unknown")
  /\ UNCHANGED <<row, kcVars>>

\* closed: a further condition under which the transaction is refused.
BeginMutation(w, closed) ==
  LET r   == Res(w)
      uid == IF lane[w].call = "create" THEN 0 ELSE lane[w].prog.uid
      ok  == Fenced(w) /\ ~closed /\ MayBeginEgress(row[r], lane[w].call, uid)
  IN /\ lane[w].at = "begin"
     /\ \/ /\ ok
           /\ row'  = [row EXCEPT ![r] = BeginEgress(@, lane[w].call, uid)]
           /\ lane' = [lane EXCEPT ![w].at = "check"]
        \/ /\ ~ok
           /\ lane' = [lane EXCEPT ![w] = Idle]
           /\ UNCHANGED row
     /\ UNCHANGED <<kcVars, faults>>

CallFailed(w, kind) ==
  LET work == lane[w].work
      p    == lane[w].prog
  IN CASE lane[w].call = "create" -> CreateFailed(work, p, kind)
       [] lane[w].call = "update" -> UpdateFailed(work, p, kind)
       [] OTHER                   -> DeleteAnswered(work, p, kind)

\* The preflight ends the call without a request.
Answered(w, p, facts) ==
  /\ Conclude(w, p, facts)
  /\ UNCHANGED <<row, kcVars, faults>>

\* rv: the revision of the object that the request requires.
Send(w, uid, rv) ==
  /\ net'  = net \cup {[from |-> w, kind |-> lane[w].call, res |-> Res(w),
                        uid |-> uid, rv |-> rv, enable |-> lane[w].work.desired]}
  /\ lane' = [lane EXCEPT ![w].at = "sent"]
  /\ UNCHANGED <<row, obj, made, faults>>

CheckFails(w) ==
  /\ lane[w].at = "check"
  /\ \E kind \in {"temporary", "conflict"} :
       Conclude(w, CallFailed(w, kind), "unknown")
  /\ Fault
  /\ UNCHANGED <<row, kcVars>>

\* RequestTimeout: the request may still arrive.
CallTimesOut(w) ==
  /\ lane[w].at = "sent"
  /\ Conclude(w, CallFailed(w, "uncertain"), "unknown")
  /\ Fault
  /\ UNCHANGED <<row, kcVars>>

\* The process dies, or the database refuses the lane's transaction.
Crash(w) ==
  /\ lane[w].at # "idle"
  /\ lane' = [lane EXCEPT ![w] = Idle]
  /\ Fault
  /\ UNCHANGED <<row, kcVars>>

-----------------------------------------------------------------------------
(***************************************************************************)
(* Finish, as functions; Accepts is the fence of the whole transaction.    *)
(***************************************************************************)
Accepts(w) ==
  Fenced(w) /\ MayFinish(row[Res(w)], lane[w].work.active, lane[w].prog)

Finished(rows, w, p) ==
  [rows EXCEPT ![Res(w)] =
     FinishEgress(@, lane[w].work.active, p, lane[w].facts, lane[w].heard,
                  lane[w].cancel)]

Released(lanes, w) == [Bump(lanes, Res(w), {"version"}) EXCEPT ![w] = Idle]

LeaseLost(w) ==
  /\ lane[w].at = "finish" /\ ~Accepts(w)
  /\ lane' = [lane EXCEPT ![w] = Idle]
  /\ UNCHANGED <<row, kcVars, faults>>

-----------------------------------------------------------------------------
(***************************************************************************)
(* The provider.  The modules above apply the requests whose effect they   *)
(* define; here are the answers and what every request can meet.           *)
(***************************************************************************)
Waits(q) ==
  LET l == lane[q.from]
  IN l.at = "sent" /\ l.call = q.kind /\ l.work.res = q.res

Answer(q, p, facts) ==
  /\ net' = net \ {q}
  /\ IF Waits(q) THEN Conclude(q.from, p, facts) ELSE UNCHANGED lane
  /\ UNCHANGED row

\* POST: creates the object, or finds it (AlreadyExists, then a GET).  The
\* observation that follows finds what ready and facts say.
ApplyCreate(q, ready, facts) ==
  /\ q.kind = "create"
  /\ IF Exists(q.res)
       THEN UNCHANGED <<obj, made>>
       ELSE /\ obj'  = [obj EXCEPT ![q.res] = "live"]
            /\ made' = [made EXCEPT ![q.res] = @ + 1]
  /\ Answer(q, CreateSucceeded(lane[q.from].work, lane[q.from].prog,
                               made'[q.res], ready), facts)
  /\ UNCHANGED faults

\* DELETE with the UID and the revision as preconditions.
ApplyDelete(q) ==
  LET hit == Exists(q.res) /\ made[q.res] = q.uid
  IN /\ q.kind = "delete"
     /\ IF hit THEN obj' = [obj EXCEPT ![q.res] = "terminating"]
               ELSE UNCHANGED obj
     /\ Answer(q, DeleteAnswered(lane[q.from].work, lane[q.from].prog,
                    IF Exists(q.res) /\ ~hit THEN "conflict" ELSE "ok"),
               "unknown")
     /\ UNCHANGED <<made, faults>>

\* An error status: the request had no effect (mutationFailure).
Refuse(q) ==
  /\ \E kind \in {"temporary", "conflict", "reject"} :
       Answer(q, CallFailed(q.from, kind), "unknown")
  /\ Fault
  /\ UNCHANGED <<obj, made>>

\* The connection breaks before the request arrives.
Lose(q) ==
  /\ Answer(q, CallFailed(q.from, "uncertain"), "unknown")
  /\ Fault
  /\ UNCHANGED <<obj, made>>

Finalize(r) ==
  /\ obj[r] = "terminating"
  /\ obj' = [obj EXCEPT ![r] = "absent"]
  /\ UNCHANGED <<dbVars, net, made, faults>>

-----------------------------------------------------------------------------
(***************************************************************************)
(* Time.                                                                   *)
(***************************************************************************)
LeaseExpires(r) ==
  /\ row[r].lease
  /\ row' = [row EXCEPT ![r].lease = FALSE]
  /\ IF \E w \in Workers : Res(w) = r /\ "epoch" \in lane[w].held
       THEN Fault
       ELSE UNCHANGED faults
  /\ UNCHANGED <<lane, kcVars>>

ObservationAges(r) ==
  /\ row[r].fresh
  /\ row' = [row EXCEPT ![r].fresh = FALSE]
  /\ Fault
  /\ UNCHANGED <<lane, kcVars>>

-----------------------------------------------------------------------------
Request == [from : Workers, kind : Mutations, res : Resources, uid : Nat,
            rv : Nat, enable : BOOLEAN]

LaneStates == {"idle", "claimed", "begin", "check", "sent", "finish"}

CoreTypeOK ==
  /\ row  \in [Resources -> EgressRow]
  /\ \A w \in Workers :
       /\ lane[w].at \in LaneStates
       /\ lane[w].call \in Mutations \cup {"none"}
       /\ lane[w].held \subseteq Fences
       /\ lane[w].facts \in Facts
       /\ lane[w].prog \in Progress
       /\ lane[w].work.res \in Resources
  /\ net  \subseteq Request
  /\ obj  \in [Resources -> {"absent", "live", "terminating"}]
  /\ made \in [Resources -> Nat]
  /\ faults \in 0..MaxFaults

\* A POST for r may still reach the provider.
PostMayLand(r) ==
  \/ \E q \in net : q.kind = "create" /\ q.res = r
  \/ \E w \in Workers : lane[w].at = "check" /\ lane[w].call = "create"
                         /\ Res(w) = r
=============================================================================
