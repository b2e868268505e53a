-------------------------- MODULE ResourceInvariant --------------------------
(***************************************************************************)
(* Why ResourceLifecycle is safe: an invariant that implies its safety     *)
(* properties.  RemovalInv, its first part, is inductive by itself (proved *)
(* in LifecycleProofs), LifecycleInv is by itself, and so is               *)
(* ContractInv, from which the contract follows.                           *)
(*                                                                         *)
(* The argument.  A lane whose fences all match is the only one for its    *)
(* resource, and the row is still the row it claimed (FencedView).  The    *)
(* pending marker is written before a POST leaves and is only removed by a *)
(* lane that knows how the POST ended, so a POST that may land always      *)
(* finds the marker set (MarkerCoversPost), and an object always finds the *)
(* marker or its identity recorded (ObjectIsKnown).  An operation stays    *)
(* active while the marker is set (MarkerKeepsActive), so no removal is    *)
(* admitted before the POST is accounted for.                              *)
(***************************************************************************)
EXTENDS ResourceLifecycle

Checking(w, r) == pc[w] = "check" /\ call[w] = "create" /\ work[w].res = r

Posted(q, r) == q \in net /\ q.kind = "create" /\ q.res = r

\* Only a lane inside a step holds fences, and only one of the lanes working
\* on a resource holds its current lease epoch (AcquireLease).
OneOwner ==
  /\ \A w \in Workers : pc[w] = "idle" => held[w] = {}
  /\ \A w, x \in Workers :
       /\ "epoch" \in held[w] /\ "epoch" \in held[x]
       /\ work[w].res = work[x].res
       => w = x

\* A lane that holds both fences works on the state it claimed (lockedWork).
FencedState ==
  \A w \in Workers :
     held[w] = Fences => /\ row[work[w].res].state = work[w].state
                         /\ work[w].state # "none"

\* p leaves an admitted removal admitted, and a completed one completed.
Keeps(k, p) ==
  /\ k.state # "none" => p.state # "none"
  /\ k.state = "deleting" => p.state \in {"deleting", "deleted"}
  /\ k.state = "deleted" => p.state = "deleted"

\* Whatever a lane has seen and been answered, its draft turns no removal
\* back: a removal never leads to a POST (Step's switch, ensure, delete).
DraftKeepsRemoval ==
  \A w \in Workers :
     /\ pc[w] \in {"begin", "check", "sent", "finish"} => Keeps(work[w], prog[w])
     /\ pc[w] \in {"begin", "check", "sent"} /\ call[w] = "create" =>
          ~Removing(work[w])

\* Why no late Finish turns a removal back.
RemovalInv == TypeOK /\ FencedState /\ DraftKeepsRemoval

\* A lane that holds both fences sees the row it claimed; after BeginMutation
\* the marker is its own.
FencedView ==
  \A w \in Workers :
     LET r == work[w].res
     IN held[w] = Fences =>
          /\ Active(row[r]) = work[w].active
          /\ pc[w] \in {"claimed", "begin"} =>
               /\ row[r].uid = work[w].uid
               /\ row[r].pending = work[w].pending
          /\ pc[w] \in {"check", "sent"} => row[r].pending = call[w]

\* At most one POST for a resource is under way, and while there is one the
\* marker is set, no identity is recorded and no object was made
\* (BeginProviderMutation before Create).
MarkerCoversPost ==
  \A r \in Resources :
     /\ PostMayLand(r) => /\ row[r].pending = "create"
                          /\ row[r].uid = 0
                          /\ made[r] = 0
     /\ \A q1, q2 \in net : Posted(q1, r) /\ Posted(q2, r) => q1 = q2
     /\ \A w1, w2 \in Workers : Checking(w1, r) /\ Checking(w2, r) => w1 = w2
     /\ \A q \in net, w \in Workers : ~(Posted(q, r) /\ Checking(w, r))

\* An object is recorded by its identity or announced by the marker.
ObjectIsKnown ==
  \A r \in Resources :
     /\ made[r] <= 1
     /\ Exists(r) => made[r] = 1
     /\ row[r].uid \in {0, made[r]}
     /\ made[r] = 1 /\ row[r].uid = 0 => row[r].pending = "create"

\* While the marker is set the creation is still active; operations are only
\* active in the states they work on.
MarkerKeepsActive ==
  \A r \in Resources :
     /\ row[r].pending = "create" =>
          Active(row[r]) /\ row[r].state = "provisioning"
     /\ Active(row[r]) => row[r].state \in {"provisioning", "deleting"}
     /\ row[r].state \in {"provisioning", "deleting"} => Active(row[r])

\* The request a lane waits for is on its way: its answer is the only one.
WaitsForRequest ==
  \A w \in Workers :
     pc[w] = "sent" =>
       /\ call[w] \in {"create", "delete"}
       /\ \E q \in net : /\ q.from = w /\ q.kind = call[w]
                         /\ q.res = work[w].res

\* What a lane that works on k has drafted, before its call c of the provider
\* is answered: an operation asks for the call, nothing is settled yet, and a
\* DELETE is for the object that was made (Step's switch).
Draft(r, k, c, p) ==
  /\ k.active /\ p.op \in ActiveStates /\ p.state = k.state
  /\ \/ c = "create" /\ k.state = "provisioning" /\ p.uid = 0
     \/ c = "delete" /\ k.state = "deleting" /\ p.uid = 1 /\ made[r] = 1

\* What p, the conclusion of a lane that works on k, says of the resource is
\* true, and the row that records it keeps what MarkerKeepsActive asks.
Sound(r, k, p) ==
  /\ p.uid \in {0, made[r]}
  /\ p.clear => /\ ~PostMayLand(r)
                /\ made[r] = 1 /\ row[r].uid = 0 => p.uid = 1
  /\ ~p.clear /\ row[r].pending = "create" => p.state = "provisioning"
  /\ p.state \in {"deleting", "deleted"} => Removing(k)
  /\ p.state = "deleted" => ~Exists(r) /\ row[r].pending # "create"
  /\ p.state = "failed" => made[r] = 0 /\ p.uid = 0 /\ ~PostMayLand(r)
  /\ p.state \in {"available", "degraded"} => p.uid # 0 \/ row[r].uid # 0
  /\ p.state \in {"provisioning", "deleting"} <=> k.active /\ p.op \in ActiveStates

\* Drafts and conclusions of a lane whose fences match hold when they are used.
ConclusionHolds ==
  \A w \in Workers :
     held[w] = Fences =>
       /\ pc[w] \in {"begin", "check", "sent"} =>
            Draft(work[w].res, work[w], call[w], prog[w])
       /\ pc[w] = "finish" => Sound(work[w].res, work[w], prog[w])

\* The states of a row say what the provider holds.
StatesAreTrue ==
  \A r \in Resources :
     /\ row[r].state = "none" => row[r] = NoRow /\ made[r] = 0
     /\ row[r].state \in {"none", "deleted", "failed"} =>
          ~Exists(r) /\ ~PostMayLand(r)
     /\ row[r].state = "failed" => made[r] = 0
     /\ row[r].state \in {"available", "degraded"} => row[r].uid # 0

\* A Subnet that is not yet deleted keeps its VPC from being removed.
ChildrenBlockRemoval ==
  \A s \in Subnets :
     row[s].state \notin {"none", "deleted"} => ~AlreadyRemoved(row[VpcOf[s]])

LifecycleInv ==
  /\ RemovalInv
  /\ OneOwner
  /\ FencedView
  /\ MarkerCoversPost
  /\ ObjectIsKnown
  /\ MarkerKeepsActive
  /\ WaitsForRequest
  /\ ConclusionHolds
  /\ StatesAreTrue
  /\ ChildrenBlockRemoval

(***************************************************************************)
(* What ties the resources to each other and to the requests under way,    *)
(* beyond LifecycleInv: the contract is kept because of it.                *)
(***************************************************************************)
InUse(r) == row[r].state \notin {"none", "deleted"}

\* A Subnet in use has a VPC that was and stays usable.
ChildrenNeedParent ==
  \A s \in Subnets :
     InUse(s) => row[VpcOf[s]].state \in {"available", "degraded"}

\* A removal that a lane once saw, and a DELETE it leads to, is still under
\* way or over: no DELETE is ever late for a resource somebody wants.
RemovalsAreWanted ==
  /\ \A w \in Workers :
       /\ Removing(work[w]) => AlreadyRemoved(row[work[w].res])
       /\ pc[w] \in {"begin", "check", "sent"} /\ call[w] = "delete" =>
            Removing(work[w])
  /\ \A q \in net : q.kind = "delete" => AlreadyRemoved(row[q.res])

\* Of two Subnets of a VPC that share addresses one is in use at most.
OverlapsExclude ==
  \A s, t \in Subnets :
     /\ s # t /\ VpcOf[s] = VpcOf[t] /\ <<s, t>> \in Overlapping
     => ~(InUse(s) /\ InUse(t))

ContractInv ==
  LifecycleInv /\ ChildrenNeedParent /\ RemovalsAreWanted /\ OverlapsExclude
=============================================================================
