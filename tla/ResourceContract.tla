-------------------------- MODULE ResourceContract --------------------------
(***************************************************************************)
(* What the service promises about a VPC or Subnet, in terms of two things *)
(* anybody can look at: the state the API shows and the object in the      *)
(* cluster.  There are no lanes, leases, requests, retries or failures     *)
(* here; ResourceLifecycle, which has them all, implements this.           *)
(***************************************************************************)
CONSTANTS Vpcs, Subnets, VpcOf

VARIABLES shown,   \* the state the API shows; "none" before it was asked for
          object   \* never, live, terminating or past: an object is made once

vars == <<shown, object>>

Resources == Vpcs \cup Subnets
Children(r) == {s \in Subnets : VpcOf[s] = r}

Init ==
    /\ shown = [r \in Resources |-> "none"]
    /\ object = [r \in Resources |-> "never"]

Show(r, state) == shown' = [shown EXCEPT ![r] = state] /\ UNCHANGED object
Become(r, what) == object' = [object EXCEPT ![r] = what] /\ UNCHANGED shown

Usable(r) == shown[r] \in {"available", "degraded"}
Over(r) == object[r] \in {"never", "past"}

\* The client asks for the resource; a Subnet only under a usable VPC.
Ask(r) ==
    /\ shown[r] = "none"
    /\ r \in Subnets => shown[VpcOf[r]] = "available"
    /\ Show(r, "provisioning")

\* The one object of the resource appears: while it is wanted, or late, when
\* its removal was asked for already, but never after the resource was
\* reported failed or deleted, and never after the removal of its VPC began.
Appear(r) ==
    /\ object[r] = "never"
    /\ shown[r] \in {"provisioning", "deleting"}
    /\ r \in Subnets => Usable(VpcOf[r])
    /\ Become(r, "live")

\* A resource is usable only after its object was made; it may come in doubt.
Confirm(r) ==
    /\ shown[r] = "provisioning" \/ Usable(r)
    /\ object[r] # "never"
    /\ \E state \in {"available", "degraded"} : Show(r, state)

\* The creation failed and left nothing.
GiveUp(r) == shown[r] = "provisioning" /\ object[r] = "never" /\ Show(r, "failed")

\* The client asks for the removal: all children are gone, in the API's eyes
\* and in the cluster.
Remove(r) ==
    /\ shown[r] \notin {"none", "deleting", "deleted"}
    /\ \A s \in Children(r) : shown[s] \in {"none", "deleted"} /\ Over(s)
    /\ Show(r, "deleting")

\* The object is removed for no other reason than that.
Terminate(r) == shown[r] = "deleting" /\ object[r] = "live" /\ Become(r, "terminating")
Vanish(r) == object[r] = "terminating" /\ Become(r, "past")

\* Deleted is shown when the object is gone for good.
Close(r) == shown[r] = "deleting" /\ Over(r) /\ Show(r, "deleted")

\* Somebody else removes the object: not the service's doing.
Lose(r) == object[r] = "live" /\ Become(r, "past")

Next == \E r \in Resources :
    \/ Ask(r) \/ Appear(r) \/ Confirm(r) \/ GiveUp(r)
    \/ Remove(r) \/ Terminate(r) \/ Vanish(r) \/ Close(r) \/ Lose(r)

Spec == Init /\ [][Next]_vars

\* Removals go on to their end.
Promise ==
    Spec /\ \A r \in Resources : WF_vars(Terminate(r)) /\ WF_vars(Vanish(r)) /\ WF_vars(Close(r))
=============================================================================
