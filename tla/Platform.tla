------------------------------ MODULE Platform ------------------------------
(***************************************************************************)
(* The platform's address pools and what they stand on: egress gateways,   *)
(* VLAN networks on an adopted device, the pools and the EIPs taken from   *)
(* them.  Admission, verification, allocation, default pool and removal,   *)
(* with the lanes of EgressLane that carry them out.                       *)
(*                                                                         *)
(* A pool identifier stands for one accepted configuration: gateway, VLAN  *)
(* and CIDR never change after admission.  An intranet pool has no gateway *)
(* of its own and needs the routes of the default VPC instead.  Adopting a *)
(* device is DeviceAdoption; here the device is one flag.  The claim on an *)
(* EIP and its SNAT binding are in PublicEgress and BaseConnectivity.      *)
(***************************************************************************)
EXTENDS EgressLane, FiniteSets

CONSTANTS
  Gateways, Vlans, Pools, Eips,  \* resource identifiers
  Intranet,   \* the pools and EIPs of the intranet scope
  GatewayOf,  \* the gateway of every public pool
  VlanOf,     \* the VLAN of every underlay pool; NoVlan for an overlay one
  NoVlan,
  Overlaps,   \* the pairs of pools whose CIDRs overlap
  Images      \* the provider releases that can be deployed

\* What an instance must satisfy.
PlatformConstants ==
  /\ Resources = Gateways \cup Vlans \cup Pools \cup Eips
  /\ Intranet \subseteq Pools \cup Eips
  /\ GatewayOf \in [Pools \ Intranet -> Gateways]
  /\ VlanOf \in [Pools -> Vlans \cup {NoVlan}]
  /\ \A p \in Pools \cap Intranet : VlanOf[p] = NoVlan

VARIABLES
  pool,      \* network_public_pools: allocation_enabled and the verification
  default,   \* the default pool of each scope
  source,    \* the pool each EIP was taken from
  images,    \* provider_images of a pool: the release last observed
  carried,   \* the release a lane has observed and not yet saved
  up,        \* objects with good conditions
  onVlan,    \* status.subnet of a VLAN object
  running,   \* the release the provider's pods run
  device,    \* the adopted device is ready on every node
  routes,    \* default VPC, route coverage and controller facts are in order
  vouched    \* history: the lanes whose EIP's pool has had current evidence at
             \* a moment since they claimed it, or since they began a mutation

platformVars ==
  <<pool, default, source, images, carried, up, onVlan, running, device, routes>>
vars == <<coreVars, platformVars, vouched>>

None  == "none"
Mixed == "mixed"
Scopes == {"public", "intranet"}

Scope(r) == IF r \in Intranet THEN "intranet" ELSE "public"

NoEvidence == [open |-> FALSE, valid |-> FALSE, tested |-> None]

Init ==
  /\ CoreInit
  /\ pool    = [p \in Pools |-> NoEvidence]
  /\ default = [s \in Scopes |-> None]
  /\ source  = [e \in Eips |-> None]
  /\ images  = [p \in Pools |-> None]
  /\ carried = [w \in Workers |-> None]
  /\ up      = {}
  /\ onVlan  = [v \in Vlans |-> None]
  /\ running \in Images
  /\ device  = TRUE
  /\ routes  = TRUE
  /\ vouched = {}

Live(r)      == row[r].state \notin {"none", "deleted"}
Fresh(r)     == row[r].state = "available" /\ row[r].fresh
Completed(r) == row[r].op \in CompletedStates

\* What a pool stands on; the device and the default VPC are flags.
Parents(p) ==
  (IF p \in Intranet THEN {} ELSE {GatewayOf[p]}) \cup ({VlanOf[p]} \ {NoVlan})

-----------------------------------------------------------------------------
(***************************************************************************)
(* Admission.  Every transaction of this section, AcceptEIP and the base   *)
(* connectivity of a VPC included, holds the advisory lock of the cluster. *)
(***************************************************************************)
\* A new resource, its operation and its reconciliation row.
Insert(r) == row' = [row EXCEPT ![r] = AcceptedEgress]

CreateGateway(g) ==
  /\ row[g].state = "none"
  /\ Insert(g)
  /\ UNCHANGED <<lane, kcVars, faults, platformVars>>

\* checkParent of the device.
CreateVlan(v) ==
  /\ row[v].state = "none" /\ device
  /\ Insert(v)
  /\ UNCHANGED <<lane, kcVars, faults, platformVars>>

\* PublicPoolOverlaps counts the pools being removed.
CidrTaken(p) == \E o \in Pools : {p, o} \in Overlaps /\ Live(o)

\* The unique index network_active_pool_vlan, until RetirePublicPoolSlot.
VlanTaken(p) == \E o \in Pools \ {p} : VlanOf[p] # NoVlan /\ VlanOf[o] = VlanOf[p] /\ Live(o)

\* ValidatePublicPool and ValidateIntranetPool read the provider before the
\* transaction; the parents are checked in it.
CreatePool(p) ==
  /\ row[p].state = "none"
  /\ p \in Intranet => routes /\ running # Mixed
  /\ \A r \in Parents(p) : Fresh(r)
  /\ ~CidrTaken(p) /\ ~VlanTaken(p)
  /\ Insert(p)
  /\ UNCHANGED <<lane, kcVars, faults, platformVars>>

\* The evidence is current and for this topology and this release, and
\* everything the pool stands on is available and freshly observed.
PoolReady(p, allocation) ==
  /\ allocation => pool[p].open
  /\ pool[p].valid /\ pool[p].tested = images[p] /\ images[p] # None
  /\ \A r \in {p} \cup Parents(p) : Fresh(r) /\ row[r].uid # 0
  /\ VlanOf[p] # NoVlan => device

\* What the three commands on a pool share: its version is the one the
\* operator has read, and nothing is under way.
MayChange(p) == Live(p) /\ row[p].state # "deleting" /\ Completed(p)

\* SetPlatformIntent and an operation that is complete at once.
Intend(r) == [r EXCEPT !.op = "succeeded"]

\* The lease is taken away from whoever holds it.
SchedulePlatform(r) == [r EXCEPT !.lease = FALSE]

Change(p) ==
  /\ row'  = [row EXCEPT ![p] = SchedulePlatform(Intend(@))]
  /\ lane' = Bump(lane, p, Fences)

\* verify_public_pool: the operator's evidence names the topology and the
\* release it was obtained on.
Verify(p, release) ==
  /\ MayChange(p) /\ Fresh(p)
  /\ release = images[p] /\ images[p] # None
  /\ Change(p)
  /\ pool' = [pool EXCEPT ![p].valid = TRUE, ![p].tested = release]
  /\ UNCHANGED <<kcVars, faults, default, source, images, carried, up, onVlan,
                 running, device, routes>>

SetAllocation(p, enabled) ==
  /\ MayChange(p) /\ pool[p].open # enabled
  /\ enabled => PoolReady(p, FALSE)
  /\ Change(p)
  /\ pool' = [pool EXCEPT ![p].open = enabled]
  /\ UNCHANGED <<kcVars, faults, default, source, images, carried, up, onVlan,
                 running, device, routes>>

SetDefault(p) ==
  /\ MayChange(p) /\ default[Scope(p)] # p
  /\ Change(p)
  /\ default' = [default EXCEPT ![Scope(p)] = p]
  /\ UNCHANGED <<kcVars, faults, pool, source, images, carried, up, onVlan,
                 running, device, routes>>

AcceptEIP(e) ==
  LET p == default[Scope(e)]
  IN /\ row[e].state = "none" /\ p # None
     /\ PoolReady(p, TRUE)
     /\ Insert(e)
     /\ source' = [source EXCEPT ![e] = p]
     /\ UNCHANGED <<lane, kcVars, faults, pool, default, images, carried, up,
                    onVlan, running, device, routes>>

PoolEips(p)     == {e \in Eips : source[e] = p /\ Live(e)}
GatewayPools(g) == {p \in Pools \ Intranet : GatewayOf[p] = g /\ Live(p)}
VlanPools(v)    == {p \in Pools : VlanOf[p] = v /\ Live(p)}

InUse_IgnoresDeleting(r) ==
  \/ r \in Pools /\ pool[r].open
  \/ \E e \in Eips : source[e] = r /\ Live(e) /\ row[e].state # "deleting"
  \/ \E p \in Pools : r \in Parents(p) /\ Live(p) /\ row[p].state # "deleting"

\* What keeps DeletePlatform from admitting a removal.
InUse(r) ==
  \/ r \in Pools /\ (pool[r].open \/ PoolEips(r) # {})
  \/ r \in Gateways /\ GatewayPools(r) # {}
  \/ r \in Vlans /\ VlanPools(r) # {}

\* DeletePlatform, and DeleteEIP once nobody claims the EIP.
Removal(r) ==
  /\ Live(r) /\ row[r].state # "deleting" /\ Completed(r) /\ ~InUse(r)
  /\ row'  = [row EXCEPT ![r] = AdmitRemoval(@)]
  /\ lane' = Bump(lane, r, Fences)
  /\ UNCHANGED <<kcVars, faults, platformVars>>

-----------------------------------------------------------------------------
(***************************************************************************)
(* What is observed (inspectEgressSet).                                    *)
(***************************************************************************)
\* providerImages: nothing while pods are missing, unready or mixed.
Observable == IF running = Mixed THEN None ELSE running

VlanReady(v) == obj[v] = "live" /\ v \in up /\ device

GatewayReady(g) == obj[g] = "live" /\ g \in up

PublicPoolReady(p) ==
  /\ obj[p] = "live" /\ p \in up /\ GatewayReady(GatewayOf[p])
  /\ VlanOf[p] # NoVlan => VlanReady(VlanOf[p]) /\ onVlan[VlanOf[p]] = p

AddressPoolReady(p) ==
  IF p \in Intranet THEN obj[p] = "live" /\ p \in up /\ routes
                    ELSE PublicPoolReady(p)

VerifiedExit_Recorded(p) == pool[p].valid /\ pool[p].tested = images[p]

\* verifiedEgressExit: the evidence is for the release that runs now.
VerifiedExit(p) ==
  pool[p].valid /\ running # Mixed /\ pool[p].tested = running

Ready(r) ==
  CASE r \in Gateways -> GatewayReady(r)
    [] r \in Vlans    -> VlanReady(r)
    [] r \in Pools    -> AddressPoolReady(r)
    [] OTHER          -> /\ obj[r] = "live" /\ r \in up
                         /\ AddressPoolReady(source[r]) /\ VerifiedExit(source[r])

\* The objects that refer to r.
Dependencies(r) ==
  \/ r \in Vlans /\ onVlan[r] # None
  \/ \E p \in Pools : r \in Parents(p) /\ Exists(p)
  \/ \E e \in Eips : source[e] = r /\ Exists(e)

Seen(r) ==
  [exists |-> Exists(r), uid |-> IF Exists(r) THEN made[r] ELSE 0,
   ready |-> Ready(r), deps |-> Dependencies(r),
   needs |-> FALSE, applied |-> "unknown"]

-----------------------------------------------------------------------------
(***************************************************************************)
(* The lane's step.                                                        *)
(***************************************************************************)
\* claimPlatform, and Claim for the EIPs.
Claim(w, r) ==
  /\ Claimable(w, r)
  /\ row'  = [row EXCEPT ![r] = AcquireLease(@)]
  /\ lane' = Taken(lane, w, r, FALSE, FALSE)
  /\ UNCHANGED <<kcVars, faults, platformVars>>

Observe(w) ==
  /\ lane[w].at = "claimed"
  /\ Decide(w, Seen(Res(w)))
  /\ carried' = [carried EXCEPT ![w] = Observable]
  /\ UNCHANGED <<faults, pool, default, source, images, up, onVlan, running,
                 device, routes>>

ObserveTrouble(w) ==
  /\ ObserveFails(w, "temporary")
  /\ Fault
  /\ UNCHANGED platformVars

Begin(w) == BeginMutation(w, FALSE) /\ UNCHANGED platformVars

\* egressPrerequisites.
Prerequisites(r) ==
  CASE r \in Gateways -> TRUE
    [] r \in Vlans    -> device
    [] r \in Pools    ->
         /\ r \in Intranet => routes
         /\ r \notin Intranet => GatewayReady(GatewayOf[r])
         /\ VlanOf[r] # NoVlan => VlanReady(VlanOf[r]) /\ onVlan[VlanOf[r]] = None
    [] OTHER          -> AddressPoolReady(source[r]) /\ VerifiedExit(source[r])

\* The reads are done, and the request is about to be sent.
Vet(w) ==
  /\ lane' = [lane EXCEPT ![w].at = "vetted"]
  /\ UNCHANGED <<row, kcVars, faults>>

CheckCreate(w) ==
  LET r == Res(w)
      k == lane[w].work
      p == lane[w].prog
  IN /\ lane[w].at = "check" /\ lane[w].call = "create"
     /\ IF row[r].uid # 0
          THEN Answered(w, CreateFailed(k, p, "conflict"), "unknown")
        ELSE IF Exists(r)
          THEN Answered(w, CreateSucceeded(k, p, made[r], Ready(r)), "unknown")
        ELSE IF ~Prerequisites(r)
          THEN Answered(w, CreateFailed(k, p, "temporary"), "unknown")
        ELSE Vet(w)
     /\ UNCHANGED platformVars

CheckDelete(w) ==
  LET r == Res(w)
      p == lane[w].prog
      answer == IF Exists(r) /\ made[r] # p.uid THEN "conflict"
                ELSE IF Dependencies(r) THEN "inuse"
                ELSE IF ~Exists(r) THEN "ok"
                ELSE "send"
  IN /\ lane[w].at = "check" /\ lane[w].call = "delete"
     /\ IF answer = "send"
          THEN Vet(w)
          ELSE Answered(w, DeleteAnswered(lane[w].work, p, answer), "unknown")
     /\ UNCHANGED platformVars

\* Whatever has changed since the reads, the request goes out.
Mutate(w) ==
  /\ lane[w].at = "vetted"
  /\ Send(w, IF lane[w].call = "create" THEN 0 ELSE lane[w].prog.uid, 0)
  /\ UNCHANGED platformVars

\* SavePlatformImages: only what a pool's step has observed.
ImagesAfter(w) ==
  LET r == Res(w)
  IN IF r \in Pools /\ lane[w].prog.observed
       THEN [images EXCEPT ![r] = carried[w]] ELSE images

\* finishPlatform; the slots retire with the state "deleted".
Finish(w) ==
  /\ lane[w].at = "finish" /\ Accepts(w)
  /\ row'     = Finished(row, w, lane[w].prog)
  /\ lane'    = Released(lane, w)
  /\ images'  = ImagesAfter(w)
  /\ carried' = [carried EXCEPT ![w] = None]
  /\ UNCHANGED <<kcVars, faults, pool, default, source, up, onVlan, running,
                 device, routes>>

-----------------------------------------------------------------------------
(***************************************************************************)
(* The provider, its operators and time.                                   *)
(***************************************************************************)
Create(q) ==
  /\ ApplyCreate(q, Exists(q.res) /\ Ready(q.res), "unknown")
  /\ carried' = IF Waits(q) THEN [carried EXCEPT ![q.from] = Observable] ELSE carried
  /\ UNCHANGED <<pool, default, source, images, up, onVlan, running, device, routes>>

Delete(q) == ApplyDelete(q) /\ UNCHANGED platformVars

Gone(r) ==
  /\ Finalize(r)
  /\ up' = up \ {r}
  /\ UNCHANGED <<pool, default, source, images, carried, onVlan, running, device, routes>>

BecomesReady(r) ==
  /\ obj[r] = "live" /\ r \notin up
  /\ up' = up \cup {r}
  /\ UNCHANGED <<coreVars, pool, default, source, images, carried, onVlan,
                 running, device, routes>>

\* The VLAN controller records the pool that uses the network, and its end.
Attach(p) ==
  LET v == VlanOf[p]
  IN /\ v # NoVlan /\ obj[p] = "live" /\ obj[v] = "live" /\ onVlan[v] = None
     /\ onVlan' = [onVlan EXCEPT ![v] = p]
     /\ UNCHANGED <<coreVars, pool, default, source, images, carried, up,
                    running, device, routes>>

Detach(v) ==
  /\ onVlan[v] # None /\ ~Exists(onVlan[v])
  /\ onVlan' = [onVlan EXCEPT ![v] = None]
  /\ UNCHANGED <<coreVars, pool, default, source, images, carried, up, running,
                 device, routes>>

\* A release is rolled out; while it is, the pods are mixed.
Roll ==
  /\ \/ running \in Images /\ Cardinality(Images) > 1 /\ running' = Mixed
     \/ running = Mixed /\ running' \in Images
  /\ UNCHANGED <<coreVars, pool, default, source, images, carried, up, onVlan,
                 device, routes>>

Disturb ==
  /\ \/ device' = ~device /\ UNCHANGED routes
     \/ routes' = ~routes /\ UNCHANGED device
  /\ Fault
  /\ UNCHANGED <<dbVars, kcVars, pool, default, source, images, carried, up,
                 onVlan, running>>

Expire(p) ==
  /\ pool[p].valid
  /\ pool' = [pool EXCEPT ![p].valid = FALSE]
  /\ UNCHANGED <<coreVars, default, source, images, carried, up, onVlan, running,
                 device, routes>>

-----------------------------------------------------------------------------
Admission ==
  \/ \E g \in Gateways : CreateGateway(g)
  \/ \E v \in Vlans : CreateVlan(v)
  \/ \E p \in Pools : \/ CreatePool(p) \/ SetDefault(p)
                      \/ \E i \in Images : Verify(p, i)
                      \/ \E b \in BOOLEAN : SetAllocation(p, b)
  \/ \E e \in Eips : AcceptEIP(e)
  \/ \E r \in Resources : Removal(r)

LaneStep(w) ==
  \/ \E r \in Resources : Claim(w, r)
  \/ Observe(w) \/ ObserveTrouble(w)
  \/ Begin(w) \/ CheckCreate(w) \/ CheckDelete(w) \/ Mutate(w) \/ Finish(w)
  \/ /\ LeaseLost(w) \/ CheckFails(w) \/ CallTimesOut(w) \/ Crash(w)
     /\ UNCHANGED platformVars

ProviderStep ==
  \/ \E q \in net : \/ Create(q) \/ Delete(q)
                    \/ (Refuse(q) \/ Lose(q)) /\ UNCHANGED platformVars
  \/ \E r \in Resources : Gone(r) \/ BecomesReady(r)
  \/ \E p \in Pools : Attach(p)
  \/ \E v \in Vlans : Detach(v)
  \/ Roll \/ Disturb

TimeStep ==
  \/ \E r \in Resources : /\ LeaseExpires(r) \/ ObservationAges(r)
                          /\ UNCHANGED platformVars
  \/ \E p \in Pools : Expire(p)

\* What was measured for the pool holds: it has not expired, and the release
\* it was measured on is the one that runs.
EvidenceHolds(p) == pool[p].valid /\ pool[p].tested = running

Vouched(w) ==
  lane[w].at # "idle" /\ Res(w) \in Eips /\ EvidenceHolds(source[Res(w)])

\* A span begins with a claim or a mutation and ends with the lane's step.
Continues(w) ==
  /\ lane[w].at # "idle" /\ lane'[w].at # "idle"
  /\ ~(lane[w].at = "begin" /\ lane'[w].at = "check")

Vouch ==
  vouched' = {w \in Workers : Vouched(w)' \/ (w \in vouched /\ Continues(w))}

Step == Admission \/ (\E w \in Workers : LaneStep(w)) \/ ProviderStep \/ TimeStep

Next == Step /\ Vouch

Spec == Init /\ [][Next]_vars

-----------------------------------------------------------------------------
(***************************************************************************)
(* Properties.                                                             *)
(***************************************************************************)
Present(r) ==
  \/ Exists(r) \/ PostMayLand(r)
  \/ \E w \in Workers : lane[w].at = "vetted" /\ lane[w].call = "create" /\ Res(w) = r

\* What a pool or an EIP stands on is at the provider, and nobody is removing
\* it, for as long as the pool or the EIP is there or may still appear
\* (DeletePlatform, CountPoolEIPs, CountGatewayPools, CountVlanPools).
ParentsOutliveChildren ==
  /\ \A p \in Pools : Present(p) =>
       \A r \in Parents(p) : obj[r] = "live" /\ row[r].state # "deleting"
  /\ \A e \in Eips : Present(e) =>
       obj[source[e]] = "live" /\ row[source[e]].state # "deleting"

\* Pools with overlapping addresses, or on one VLAN, are never at the provider
\* together, the one being removed included (PublicPoolOverlaps,
\* RetirePublicPoolSlot).
PoolsAreDisjoint ==
  \A p, o \in Pools :
    p # o /\ Present(p) /\ Present(o) =>
      {p, o} \notin Overlaps /\ (VlanOf[p] = NoVlan \/ VlanOf[p] # VlanOf[o])

\* A release that is rolled out, or evidence that expires, is noticed by the
\* next step: a POST for an EIP is only sent if the pool's evidence was good
\* for the running release at a moment after the mutation was begun, and an
\* EIP only becomes available if it was at a moment of that step, after the
\* mutation if there was one.  A change between those reads and the request
\* goes unnoticed (AcceptEIP trusts the release last recorded; EnsureEgress
\* and observeEgress read the pods again before Create and finishPlatform).
EvidenceBacksAddresses ==
  [][/\ \A q \in net' \ net : q.kind = "create" /\ q.res \in Eips => q.from \in vouched
     /\ \A e \in Eips :
          row[e].state # "available" /\ row'[e].state = "available" =>
            \E w \in vouched : Res(w) = e /\ lane[w].at = "finish"]_vars

\* Both of the above: what stands on something never outlives it, and what
\* must not meet at the provider does not.
PlatformSafety == ParentsOutliveChildren /\ PoolsAreDisjoint

=============================================================================
