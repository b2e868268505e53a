---------------------------- MODULE LoadBalancer ----------------------------
(***************************************************************************)
(* A tenant load balancer: admission, new configurations and removal, the  *)
(* lanes that bring a Gateway, an HTTPRoute, a BackendTrafficPolicy and    *)
(* one Backend per member to the provider, and the controllers that        *)
(* generate a Service and bind the entry address (its EIP and its VIP).    *)
(*                                                                         *)
(* A lane's work is not copied: a lane whose fences (version and epoch)    *)
(* still hold finds in the rows what it claimed, and one whose fences are  *)
(* broken can neither begin a request nor record anything.  What it has    *)
(* begun it carries in its call.                                           *)
(***************************************************************************)
EXTENDS LBStep, FiniteSets

CONSTANTS
  SubnetOf,     \* the subnet of each member
  Entry,        \* the subnet of the load balancer's own address
  Workers,      \* worker lanes of all processes
  MaxVersions,  \* bound on accepted configurations
  MaxFaults,    \* bound on failures of requests, lanes and leases
  MaxTurns,     \* bound on changes around the load balancer
  MaxTrouble,   \* bound on both together
  Meddling      \* somebody else edits or removes its objects

ASSUME LBAssumption ==
  /\ IsFiniteSet(Members) /\ {"gateway", "route", "policy"} \cap Members = {}
  /\ SubnetOf \in [Members -> STRING]
  /\ {MaxVersions, MaxFaults, MaxTurns, MaxTrouble} \subseteq Nat /\ Meddling \in BOOLEAN

VARIABLES
  lb,       \* network_load_balancers, its operation and its lease
  conf,     \* the members of the desired version
  comp,     \* network_lb_components, and the binding of the gateway
  refs,     \* unreleased network_lb_subnet_refs
  claim,    \* the EIP claim and the VIP intent are held
  lane,     \* the worker lanes
  net,      \* requests on their way to the provider
  obj,      \* the provider objects of the components
  settled,  \* the controllers have caught up with the objects
  gen,      \* the generated Service and Deployment exist
  bound,    \* the entry address is bound to the Service
  elig,     \* members that are still the accepted workload
  deps,     \* VPC, subnets, base connectivity and capability are ready
  foreign,  \* a Service of somebody else has the generated name
  faults, turns

rows   == <<lb, conf, comp, refs, claim>>
kcVars == <<obj, settled, gen, bound>>
world  == <<elig, deps, foreign, turns>>
vars   == <<rows, lane, net, kcVars, world, faults>>

NoComponent == [row |-> FALSE, uid |-> 0, pending |-> "", deleted |-> FALSE]
NoObject    == [phase |-> "absent", uid |-> 0, rv |-> 0,
                spec |-> [ver |-> 0, refs |-> {}]]
NoCall      == [c |-> "route", action |-> "none", spec |-> NoObject.spec]

Work == [state |-> lb.state, active |-> lb.active, desired |-> lb.desired,
         applied |-> lb.applied, conf |-> conf, comp |-> comp]

Idle == [at |-> "idle", held |-> FALSE, call |-> NoCall,
         prog |-> [observed |-> FALSE,
                   comp  |-> [c \in Components |->
                                [uid |-> 0, clear |-> FALSE, gone |-> FALSE]],
                   state |-> "none", done |-> FALSE]]

Init ==
  /\ lb = [state |-> "none", active |-> FALSE, desired |-> 0, applied |-> 0,
           lease |-> FALSE]
  /\ conf = {} /\ comp = [c \in Components |-> NoComponent]
  /\ refs = {} /\ claim = FALSE
  /\ lane = [w \in Workers |-> Idle] /\ net = {}
  /\ obj = [c \in Components |-> NoObject]
  /\ settled = TRUE /\ gen = FALSE /\ bound = FALSE
  /\ elig = Members /\ deps = TRUE /\ foreign = FALSE
  /\ faults = 0 /\ turns = 0

Fault == /\ faults < MaxFaults /\ faults + turns < MaxTrouble
         /\ faults' = faults + 1

Turn == /\ turns < MaxTurns /\ faults + turns < MaxTrouble
        /\ lb.state # "none" /\ turns' = turns + 1

\* A committed change of the row or a new claim breaks the fences of every
\* lane.  One without a request can only find that out (ErrLeaseLost) and is
\* back at once; one with a request carries it through, and what it has
\* observed no longer matters.
Broken(lanes) ==
  [w \in Workers |-> IF lanes[w].at \in {"check", "sent"}
                       THEN [lanes[w] EXCEPT !.held = FALSE, !.prog = Idle.prog]
                       ELSE Idle]

Fenced(w) == lane[w].held /\ lb.lease

-----------------------------------------------------------------------------
(***************************************************************************)
(* Admission.  Each transaction holds the locks of the VPC, the subnets,   *)
(* the EIP and the load balancer.                                          *)
(***************************************************************************)
Inserted(components) ==
  [c \in Components |->
     IF c \in components THEN [NoComponent EXCEPT !.row = TRUE] ELSE comp[c]]

SubnetsOf(members) == {SubnetOf[m] : m \in members}

\* The checks of AcceptLoadBalancer on what the members stand on: VPC, base
\* connectivity, capability, subnets and EIP, and each backend's identity.
Admissible(members) == deps /\ members # {} /\ members \subseteq elig

\* AcceptLoadBalancer for create_load_balancer.
CreateLB(members) ==
  /\ lb.state = "none" /\ Admissible(members)
  /\ lb' = [lb EXCEPT !.state = "provisioning", !.active = TRUE, !.desired = 1]
  /\ conf' = members
  /\ comp' = Inserted({"gateway", "route", "policy"} \cup members)
  /\ refs' = {Entry} \cup SubnetsOf(members) /\ claim' = TRUE
  /\ UNCHANGED <<lane, net, kcVars, world, faults>>

\* Members are kept from the current configuration or new; a retired one
\* never comes back.
Retains(members) == \A m \in members : m \in conf \/ ~comp[m].row

\* AcceptLoadBalancer for update_load_balancer.
UpdateLB(members) ==
  /\ lb.state \notin {"none", "deleting", "deleted"} /\ ~lb.active
  /\ lb.desired < MaxVersions /\ Admissible(members) /\ Retains(members)
  /\ lb' = [lb EXCEPT !.active = TRUE, !.desired = @ + 1, !.lease = FALSE]
  /\ conf' = members
  /\ comp' = Inserted(members \ conf)
  /\ refs' = refs \cup {Entry} \cup SubnetsOf(members)
  /\ lane' = Broken(lane)
  /\ UNCHANGED <<claim, net, kcVars, world, faults>>

\* DeleteLoadBalancer: the active operation is terminated.
DeleteLB ==
  /\ lb.state \notin {"none", "deleting", "deleted"}
  /\ lb' = [lb EXCEPT !.state = "deleting", !.active = TRUE, !.lease = FALSE]
  /\ lane' = Broken(lane)
  /\ UNCHANGED <<conf, comp, refs, claim, net, kcVars, world, faults>>

-----------------------------------------------------------------------------
(***************************************************************************)
(* A lane's step.                                                          *)
(***************************************************************************)
Claim(w) ==
  /\ lane[w].at = "idle" /\ lb.state # "none" /\ ~lb.lease
  /\ lb' = [lb EXCEPT !.lease = TRUE]
  /\ lane' = [Broken(lane) EXCEPT ![w] =
                [Idle EXCEPT !.at = "claimed", !.held = TRUE]]
  /\ UNCHANGED <<conf, comp, refs, claim, net, kcVars, world, faults>>

\* Conditions that the controllers publish once they have caught up.
Good(c) ==
  /\ settled
  /\ c = "route"  => /\ obj["gateway"].phase = "live"
                     /\ \A m \in obj["route"].spec.refs : obj[m].phase = "live"
  /\ c = "policy" => obj["route"].phase = "live"

\* lbGenerated: nothing generated is left, and the address is free.  How the
\* code learns the latter of a private address (the Subnet's free range, of a
\* later revision than the one that showed it in use; nothing to ask of a
\* gateway that was never sent) is abstracted to `bound`, the fact itself.
Released == obj["gateway"].phase = "absent" /\ ~gen /\ ~bound

\* lbGenerated: Service, Deployment and its two pods are up, the address bound.
Served == gen /\ bound

Seen ==
  [obj |-> obj, elig |-> elig, deps |-> deps /\ ~foreign, foreign |-> foreign,
   released |-> Released /\ ~foreign, served |-> Served /\ ~foreign,
   good |-> {c \in Components : Good(c)}]

\* ObserveLoadBalancer on one audited view, and the decision.
Observe(w) ==
  /\ lane[w].at = "claimed" /\ Fenced(w)
  /\ \E work \in {Work}, seen \in {Seen} : \E reached \in {Reached(work, seen)} :
       LET requests == Requests(reached)
           r        == CHOOSE x \in requests : TRUE
       IN lane' = [lane EXCEPT ![w] =
            [@ EXCEPT !.at   = IF requests # {} THEN "begin" ELSE "finish",
                      !.prog = LBProgress(work, seen, reached),
                      !.call = IF requests = {} THEN NoCall
                               ELSE [c |-> r[1], action |-> r[2],
                                     spec |-> DesiredSpec(work, seen, r[1])]]]
  /\ UNCHANGED <<rows, net, kcVars, world, faults>>

ObserveFails(w) ==
  /\ lane[w].at = "claimed" /\ Fenced(w) /\ Fault
  /\ lane' = [lane EXCEPT ![w] = [@ EXCEPT !.at = "finish",
                                           !.prog = LBUnobserved(Work)]]
  /\ UNCHANGED <<rows, net, kcVars, world>>

\* BeginLBComponentMutation, and BeginProviderMutation for the gateway.
MayBegin_UpdatesOnce(c, action, uid) ==
  /\ ~comp[c].deleted
  /\ comp[c].uid \in {0, uid}
  /\ \/ action = "create" /\ comp[c].pending = "" /\ comp[c].uid = 0
     \/ action = "update" /\ comp[c].uid # 0 /\ comp[c].pending = ""
     \/ action = "delete" /\ uid # 0

MayBegin(c, action, uid) ==
  /\ ~comp[c].deleted
  /\ comp[c].uid \in {0, uid}
  /\ \/ action = "create" /\ comp[c].pending = "" /\ comp[c].uid = 0
     \/ action = "update" /\ comp[c].uid # 0 /\ comp[c].pending \in {"", "update"}
     \/ action = "delete" /\ uid # 0

BeginLoadBalancerMutation(w) ==
  LET call == lane[w].call
      uid  == lane[w].prog.comp[call.c].uid
      ok   == /\ Fenced(w) /\ MayBegin(call.c, call.action, uid)
              /\ Deleting(Work) => call.action = "delete"
  IN /\ lane[w].at = "begin"
     /\ \/ /\ ok
           /\ comp' = [comp EXCEPT ![call.c] =
                [@ EXCEPT !.pending = call.action,
                          !.uid = IF comp[call.c].uid = 0 THEN uid ELSE comp[call.c].uid]]
           /\ lane' = [lane EXCEPT ![w].at = "check"]
        \/ /\ ~ok
           /\ lane' = [lane EXCEPT ![w] = Idle]
           /\ UNCHANGED comp
     /\ UNCHANGED <<lb, conf, refs, claim, net, kcVars, world, faults>>

Concludes(w, answer, uid) ==
  LET call == lane[w].call
  IN lane' = [lane EXCEPT ![w] =
       [@ EXCEPT !.at   = "finish",
                 !.prog = LBAnswered(lane[w].prog, call.c, call.action, answer, uid)]]

\* MutateLoadBalancer up to its request: a GET of the object, whose revision
\* the request then requires.
Check(w) ==
  LET call   == lane[w].call
      object == obj[call.c]
      known  == comp[call.c].uid
      there  == object.phase # "absent"
  IN /\ lane[w].at = "check"
     /\ CASE call.action = "create" /\ there -> Concludes(w, "ok", object.uid) /\ UNCHANGED net
          [] call.action = "delete" /\ ~there -> Concludes(w, "ok", 0) /\ UNCHANGED net
          [] call.action = "update" /\ ~there -> Concludes(w, "temporary", 0) /\ UNCHANGED net
          [] call.action # "create" /\ there /\ known \notin {0, object.uid} ->
               Concludes(w, "conflict", 0) /\ UNCHANGED net
          [] OTHER ->
               /\ net'  = net \cup {[from |-> w, call |-> call, rv |-> object.rv]}
               /\ lane' = [lane EXCEPT ![w].at = "sent"]
     /\ UNCHANGED <<rows, kcVars, world, faults>>

CheckFails(w) ==
  /\ lane[w].at = "check" /\ Fault
  /\ Concludes(w, "temporary", 0)
  /\ UNCHANGED <<rows, net, kcVars, world>>

\* RequestTimeout: the request may still arrive.
TimesOut(w) ==
  /\ lane[w].at = "sent" /\ Fault
  /\ Concludes(w, "uncertain", 0)
  /\ UNCHANGED <<rows, net, kcVars, world>>

Crash(w) ==
  /\ lane[w].at # "idle" /\ Fault
  /\ lane' = [lane EXCEPT ![w] = Idle]
  /\ UNCHANGED <<rows, net, kcVars, world>>

-----------------------------------------------------------------------------
(***************************************************************************)
(* Finish, with finishLB in its transaction.                               *)
(***************************************************************************)
\* SaveLBComponentObservation and SaveBindingObservation.
Saved(row, note, gateway) ==
  [row EXCEPT !.uid     = IF @ = 0 THEN note.uid ELSE @,
              !.pending = IF note.clear THEN "" ELSE @,
              !.deleted = @ \/ (note.gone /\ ~gateway)]

CompAfter(p) ==
  [c \in Components |->
     IF p.observed /\ comp[c].row THEN Saved(comp[c], p.comp[c], c = "gateway")
                                  ELSE comp[c]]

\* ReleaseLBSubnetRefs.
RefsAfter(p, after) ==
  IF ~p.observed THEN refs
  ELSE IF p.state = "deleted" THEN {}
  ELSE refs \cap ({Entry} \cup SubnetsOf(conf)
                    \cup SubnetsOf({m \in Members : after[m].row /\ ~after[m].deleted}))

\* ReleaseLBClaim and ReleaseLBVIP.
ClaimAfter(p) == claim /\ p.state # "deleted"

Finish(w) ==
  LET p == lane[w].prog
  IN /\ lane[w].at = "finish" /\ Fenced(w)
     /\ lb' = [lb EXCEPT !.state   = p.state,
                         !.active  = @ /\ ~p.done,
                         !.applied = IF p.state = "available" THEN lb.desired ELSE @,
                         !.lease   = FALSE]
     /\ comp' = CompAfter(p)
     /\ refs' = RefsAfter(p, comp')
     /\ claim' = ClaimAfter(p)
     /\ lane' = [Broken(lane) EXCEPT ![w] = Idle]
     /\ UNCHANGED <<conf, net, kcVars, world, faults>>

\* ErrLeaseLost ends the step.
LeaseLost(w) ==
  /\ lane[w].at \in {"claimed", "finish"} /\ ~Fenced(w)
  /\ lane' = [lane EXCEPT ![w] = Idle]
  /\ UNCHANGED <<rows, net, kcVars, world, faults>>

LeaseExpires ==
  /\ lb.lease
  /\ lb' = [lb EXCEPT !.lease = FALSE]
  /\ IF \E w \in Workers : lane[w].held THEN Fault ELSE UNCHANGED faults
  /\ UNCHANGED <<conf, comp, refs, claim, lane, net, kcVars, world>>

-----------------------------------------------------------------------------
(***************************************************************************)
(* The provider.                                                           *)
(***************************************************************************)
Waits(q) == lane[q.from].at = "sent" /\ lane[q.from].call = q.call

Answer(q, answer, uid) ==
  /\ net' = net \ {q}
  /\ IF Waits(q) THEN Concludes(q.from, answer, uid) ELSE UNCHANGED lane

Post(q) ==
  LET c == q.call.c
  IN /\ q.call.action = "create"
     /\ obj' = IF obj[c].phase # "absent" THEN obj
               ELSE [obj EXCEPT ![c] = [phase |-> "live", uid |-> @.uid + 1,
                                        rv |-> @.rv + 1, spec |-> q.call.spec]]
     /\ settled' = FALSE
     /\ Answer(q, "ok", obj'[c].uid)
     /\ UNCHANGED <<rows, gen, bound, world, faults>>

PatchApplies(q) == obj[q.call.c].phase # "absent" /\ obj[q.call.c].rv = q.rv

Patch(q) ==
  LET c == q.call.c
  IN /\ q.call.action = "update"
     /\ obj' = IF PatchApplies(q)
                 THEN [obj EXCEPT ![c] = [@ EXCEPT !.rv = obj[c].rv + 1, !.spec = q.call.spec]]
                 ELSE obj
     /\ settled' = FALSE
     /\ Answer(q, IF PatchApplies(q) THEN "ok" ELSE "reject", obj[c].uid)
     /\ UNCHANGED <<rows, gen, bound, world, faults>>

DeleteObject(q) ==
  LET c   == q.call.c
      hit == obj[c].phase # "absent" /\ obj[c].rv = q.rv
  IN /\ q.call.action = "delete"
     /\ obj' = IF hit /\ obj[c].phase = "live"
                 THEN [obj EXCEPT ![c] = [@ EXCEPT !.phase = "terminating", !.rv = obj[c].rv + 1]]
                 ELSE obj
     /\ Answer(q, IF hit \/ obj[c].phase = "absent" THEN "ok" ELSE "conflict", 0)
     /\ UNCHANGED <<rows, settled, gen, bound, world, faults>>

\* An error status, or a connection that breaks before the request arrives.
Refuse(q) ==
  /\ Fault
  /\ \E answer \in {"temporary", "uncertain"} : Answer(q, answer, 0)
  /\ UNCHANGED <<rows, kcVars, world>>

Finalize(c) ==
  /\ obj[c].phase = "terminating"
  /\ obj' = [obj EXCEPT ![c].phase = "absent", ![c].spec = NoObject.spec]
  /\ UNCHANGED <<rows, lane, net, settled, gen, bound, world, faults>>

Settle ==
  /\ ~settled /\ settled' = TRUE
  /\ UNCHANGED <<rows, lane, net, obj, gen, bound, world, faults>>

Generate ==
  /\ obj["gateway"].phase = "live" /\ ~gen /\ ~foreign
  /\ gen' = TRUE
  /\ UNCHANGED <<rows, lane, net, obj, settled, bound, world, faults>>

BindAddress ==
  /\ gen /\ ~bound /\ bound' = TRUE
  /\ UNCHANGED <<rows, lane, net, obj, settled, gen, world, faults>>

\* The generated objects end after their gateway, and the address after them.
Collect ==
  /\ gen /\ obj["gateway"].phase # "live" /\ gen' = FALSE
  /\ UNCHANGED <<rows, lane, net, obj, settled, bound, world, faults>>

FreeAddress ==
  /\ bound /\ ~gen /\ bound' = FALSE
  /\ UNCHANGED <<rows, lane, net, obj, settled, gen, world, faults>>

-----------------------------------------------------------------------------
(***************************************************************************)
(* The world around it.                                                    *)
(***************************************************************************)
\* lbMemberIdentity changes its answer: the workload is gone or replaced, its
\* observation is stale, or it is fresh again.
MemberChanges(m) ==
  /\ Turn
  /\ elig' = IF m \in elig THEN elig \ {m} ELSE elig \cup {m}
  /\ UNCHANGED <<rows, lane, net, kcVars, deps, foreign, faults>>

DependenciesFail ==
  /\ deps /\ Turn /\ deps' = FALSE
  /\ UNCHANGED <<rows, lane, net, kcVars, elig, foreign, faults>>

DependenciesRecover ==
  /\ ~deps /\ deps' = TRUE
  /\ UNCHANGED <<rows, lane, net, kcVars, elig, foreign, turns, faults>>

ForeignAppears ==
  /\ ~foreign /\ ~gen /\ Turn /\ foreign' = TRUE
  /\ UNCHANGED <<rows, lane, net, kcVars, elig, deps, faults>>

ForeignLeaves ==
  /\ foreign /\ foreign' = FALSE
  /\ UNCHANGED <<rows, lane, net, kcVars, elig, deps, turns, faults>>

\* Somebody edits or removes an object of the load balancer.
Meddle(c) ==
  /\ Meddling /\ obj[c].phase = "live" /\ Turn
  /\ \E o \in {[obj[c] EXCEPT !.rv = @ + 1, !.spec = NoObject.spec],
               [obj[c] EXCEPT !.rv = @ + 1, !.phase = "terminating"]} :
       obj' = [obj EXCEPT ![c] = o]
  /\ UNCHANGED <<rows, lane, net, settled, gen, bound, elig, deps, foreign, faults>>

-----------------------------------------------------------------------------
LaneStep(w) ==
  \/ Claim(w) \/ Observe(w) \/ BeginLoadBalancerMutation(w) \/ Check(w)
  \/ Finish(w) \/ LeaseLost(w)

LaneFails(w) == ObserveFails(w) \/ CheckFails(w) \/ TimesOut(w) \/ Crash(w)

Provider(q) == Post(q) \/ Patch(q) \/ DeleteObject(q)

Controllers ==
  \/ \E c \in Components : Finalize(c)
  \/ Settle \/ Generate \/ BindAddress \/ Collect \/ FreeAddress

World ==
  \/ \E m \in Members : MemberChanges(m)
  \/ DependenciesFail \/ DependenciesRecover \/ ForeignAppears \/ ForeignLeaves
  \/ \E c \in Components : Meddle(c)

Next ==
  \/ \E members \in SUBSET Members : CreateLB(members) \/ UpdateLB(members)
  \/ DeleteLB
  \/ \E w \in Workers : LaneStep(w) \/ LaneFails(w)
  \/ \E q \in net : Provider(q) \/ Refuse(q)
  \/ LeaseExpires \/ Controllers \/ World

Spec == Init /\ [][Next]_vars

\* Lanes are scheduled again and again, requests are answered, controllers
\* work, leases end, and what the load balancer depends on comes back.
Fairness ==
  /\ \A w \in Workers : WF_vars(LaneStep(w))
  /\ WF_vars(\E q \in net : Provider(q)) /\ WF_vars(LeaseExpires)
  /\ WF_vars(Controllers)
  /\ WF_vars(DependenciesRecover)

FairSpec == Spec /\ Fairness

-----------------------------------------------------------------------------
(***************************************************************************)
(* Properties.                                                             *)
(***************************************************************************)
\* The type invariant of every variable.
TypeOK ==
  /\ lb.state \in {"none", "provisioning", "available", "degraded", "deleting", "deleted"}
  /\ {lb.active, lb.lease} \subseteq BOOLEAN
  /\ lb.desired \in 0..MaxVersions /\ lb.applied \in 0..lb.desired
  /\ conf \subseteq Members
  /\ comp \in [Components -> [row : BOOLEAN, uid : Nat,
                              pending : {""} \cup Actions, deleted : BOOLEAN]]
  /\ refs \subseteq {Entry} \cup SubnetsOf(Members)
  /\ \A w \in Workers :
       /\ lane[w].at \in {"idle", "claimed", "begin", "check", "sent", "finish"}
       /\ lane[w].held \in BOOLEAN
  /\ \A c \in Components : obj[c].phase \in {"absent", "live", "terminating"}
  /\ {claim, settled, gen, bound, deps, foreign} \subseteq BOOLEAN
  /\ elig \subseteq Members /\ faults \in 0..MaxFaults /\ turns \in 0..MaxTurns

\* A POST for the component may still reach the provider.
PostMayLand(c) ==
  \/ \E q \in net : q.call.c = c /\ q.call.action = "create"
  \/ \E w \in Workers : /\ lane[w].at = "check" /\ lane[w].call.c = c
                        /\ lane[w].call.action = "create"

Present(c) == obj[c].phase # "absent" \/ PostMayLand(c)

\* The gateway is only asked to go when no route or policy is left or can
\* still arrive, and the backend of a configured member only when gateway,
\* generated objects and address are gone too (the order in stepLoadBalancer),
\* however late the requests of earlier steps arrive.
CleanupOrder ==
  \A q \in net :
    q.call.action = "delete" =>
      /\ q.call.c = "gateway" => ~Present("route") /\ ~Present("policy")
      /\ q.call.c \in conf =>
           ~Present("route") /\ ~Present("gateway") /\ ~gen /\ ~bound

\* A load balancer is reported deleted only when nothing of it is left at the
\* provider and no request of any lane can bring anything back.
DeletedIsGone ==
  lb.state = "deleted" =>
    (\A c \in Components : ~Present(c)) /\ ~gen /\ ~bound

\* The EIP claim and the VIP intent are held as long as a gateway exists or
\* can arrive, or a Service or the address is bound (finishLB).
ClaimCoversAddress == (Present("gateway") \/ gen \/ bound) => claim

\* A subnet stays referenced (and cannot be removed) while the backend of one
\* of its members exists or can arrive, through every change of configuration
\* (ReleaseLBSubnetRefs against late POSTs).
SubnetStaysWhileUsed ==
  \A m \in Members : Present(m) => SubnetOf[m] \in refs

\* No component is ever created twice, whatever answers are lost and whatever
\* is removed from outside (pending_action and provider_uid).
CreatedOnce == \A c \in Components : obj[c].uid <= 1

\* What the order of the removal, the references and the claim protect: the
\* five invariants above together.
LBSafety ==
  CleanupOrder /\ DeletedIsGone /\ ClaimCoversAddress /\ SubnetStaysWhileUsed /\ CreatedOnce

RouteUses(m) == obj["route"].phase = "live" /\ m \in obj["route"].spec.refs

\* The comment in stepLoadBalancer: an update is a CAS at the observed
\* revision, so an old configuration cannot replace a newer one.
ConfigurationNeverRegresses ==
  [][(obj["route"].phase = "live" /\ obj'["route"].phase = "live"
        /\ obj["route"].spec.ver > 0 /\ obj'["route"].spec.ver > 0)
       => obj'["route"].spec.ver >= obj["route"].spec.ver]_vars

\* The comment in stepLoadBalancer: a member that lost its identity is taken
\* out of the route, once the creation of the route has been settled in its
\* row: also while a foreign Service blocks everything else, and during a
\* removal.
KnownMemberWithdrawn ==
  \A m \in Members :
    (m \notin elig /\ RouteUses(m) /\ comp["route"].uid # 0
       /\ comp["route"].pending # "create")
      ~> (m \in elig \/ ~RouteUses(m))

\* A creation whose request never arrived stays unknown and needs an operator.
LostCreate ==
  \E c \in Components : comp[c].pending = "create" /\ obj[c].phase = "absent"

\* An accepted configuration is applied, with its new backends created and
\* its retired ones removed, unless a creation was lost, a member lost its
\* identity, a foreign Service appeared or a removal was accepted meanwhile.
ConfigurationCompletes ==
  (lb.active /\ ~Deleting(Work))
    ~> (~lb.active \/ Deleting(Work) \/ LostCreate
        \/ ~(conf \subseteq elig) \/ foreign)

\* An accepted removal completes, unless a creation was lost or a foreign
\* Service holds the generated name: lanes die,
\* answers are lost, and a configuration may be half applied when it begins.
RemovalCompletes ==
  (lb.state = "deleting") ~> (lb.state = "deleted" \/ LostCreate \/ foreign)

\* The promises of progress together.
LBCompletes == ConfigurationCompletes /\ RemovalCompletes /\ KnownMemberWithdrawn
=============================================================================
