----------------------------- MODULE MCPlatform -----------------------------
(***************************************************************************)
(* What the platform administers, for TLC, four components side by side:   *)
(*   platform    gateways, VLANs, pools and EIPs (Platform)                *)
(*   device      the adoption of devices on every node (DeviceAdoption)    *)
(*   facts       the published facts of one node (NodeFacts)               *)
(*   addressing  the addresses that are accepted (Addressing)              *)
(*                                                                         *)
(* They share no variable and none enables or disables a step of another,  *)
(* so a behaviour takes the steps of one of them, chosen at the start,     *)
(* while the others stay as they began.  In "asked" a behaviour of the     *)
(* first two also chooses which resources are asked for in it.             *)
(***************************************************************************)
EXTENDS NodeFacts, DeviceAdoption, Integers

CONSTANT MaxTrouble  \* bound on the failures of the platform

VARIABLES platRow, platLane, platNet, platObj, platMade, platFaults,
          pool, default, source, images, carried, up, onVlan, running, device, routes,
          vouched, request, stage, answer, infra, address,
          asked,  \* what is asked for in this behaviour
          part    \* whose steps it takes

onlyPlatform == <<platRow, platLane, platNet, platObj, platMade, platFaults, pool, default,
                  source, images, carried, up, onVlan, running, device, routes, vouched>>
onlyAddressing == <<request, stage, answer, infra, address>>

-----------------------------------------------------------------------------
\* g1 is the gateway of the public pools p1 to p4, of which p1 and p2 overlap
\* and p3 and p4 are on the VLAN v1; p5 is an intranet pool.
Platform ==
  INSTANCE Platform
    WITH Resources <- {"g1", "v1", "p1", "p2", "p3", "p4", "p5", "e1", "e2"},
         Gateways <- {"g1"}, Vlans <- {"v1"},
         Pools <- {"p1", "p2", "p3", "p4", "p5"}, Eips <- {"e1", "e2"},
         Intranet <- {"p5", "e2"},
         GatewayOf <- [p \in {"p1", "p2", "p3", "p4"} |-> "g1"],
         VlanOf <- [p \in {"p1", "p2", "p3", "p4", "p5"} |->
                      IF p \in {"p3", "p4"} THEN "v1" ELSE "no vlan"],
         NoVlan <- "no vlan", Overlaps <- {{"p1", "p2"}}, Images <- {"1.0", "1.1"},
         MaxFaults <- MaxTrouble,
         row <- platRow, lane <- platLane, net <- platNet, obj <- platObj,
         made <- platMade, faults <- platFaults

\* A pool with an EIP while releases are rolled out; two pools with the same
\* addresses; a pool on a VLAN, with failures, and two without; an intranet
\* pool with an EIP.
Demands ==
  {{"g1", "p1", "e1", "release"}, {"g1", "p1", "e1", "trouble"}, {"g1", "p1", "p2", "trouble"},
   {"g1", "v1", "p3", "trouble"}, {"g1", "v1", "p3", "p4"}, {"p5", "e2", "trouble"}}

\* Two adoptions on one node; one on a node that a second one joins.
Adoptions == {{"d1", "d2"}, {"d1", "n2"}}

-----------------------------------------------------------------------------
(* Addresses of four bits: every prefix, gateway and address.              *)
AddressBits == 4
Network(a, b) == [addr |-> a, bits |-> b]
AllNetworks == [addr : 0..15, bits : 0..4]
PrivateNetworks == {Network(8, 1), Network(0, 3)}

Span(lo, hi) == [lo |-> lo, hi |-> hi]
SomeExcluded == {{}, {Span(9, 11), Span(13, 13)}, {Span(6, 5)}, {Span(0, 9)}}

TenantRequests ==
  [kind : {"vpc"}, cidr : AllNetworks]
    \cup [kind : {"subnet"}, cidr : AllNetworks, gateway : {-1} \cup 0..15]

PublicPools ==
  [kind : {"public_pool"}, cidr : AllNetworks, mode : {"overlay", "underlay"},
   gateway : {1, 5, 9, 13, 14}, upstream : {16, 1, 5, 14, 15}, excluded : SomeExcluded]

IntranetPools ==
  [kind : {"intranet_pool"}, cidr : {Network(a, b) : a \in {0, 8, 12}, b \in 0..2},
   mode : {"overlay"}, gateway : {1, 9, 14}, upstream : {16}, excluded : {{}, {Span(9, 11)}},
   networks : SUBSET {Network(0, 1), Network(4, 2), Network(4, 3), Network(6, 3)}]

Backend == [id : 0..2, subnet : {1, 2}, address : {4, 8, 9}, port : {80}, weight : {-1, 1}]
OddBackend == [id |-> 0, subnet |-> 1, address |-> 8, port |-> 81, weight |-> 5]
Balancers ==
  [kind : {"load_balancer"}, creating : BOOLEAN, port : {80}, interval : {-1, 3},
   timeout : {-1, 0},
   backends : {<<>>, <<OddBackend>>} \cup {<<a, b>> : a, b \in Backend}
     \cup {<<a, b, c>> : a, b, c \in {x \in Backend : x.address = 8 /\ x.weight = 1}}]

Cluster(subnets, nodes, services, routing) ==
  [subnets |-> subnets, nodes |-> nodes, pods |-> {Network(12, 3)},
   services |-> services, routes |-> routing]

Clusters ==
  {Cluster(s, n, v, {}) : s \in {{}, {Network(0, 1)}, {Network(10, 3)}}, n \in {{}, {11}},
                          v \in {{}, {Network(0, 3)}}}
    \cup {Cluster({}, {}, {Network(4, 3), Network(6, 3)}, r) :
            r \in SUBSET {Network(0, 1), Network(4, 2), Network(4, 3), Network(6, 4)}}

Addressing ==
  INSTANCE Addressing
    WITH Width <- AddressBits, Private <- PrivateNetworks,
         Requests <- TenantRequests \cup PublicPools \cup IntranetPools \cup Balancers,
         Infrastructures <- Clusters, accepted <- answer

-----------------------------------------------------------------------------
ASSUME PlatformAssumption == Platform!PlatformConstants

\* No release differs from another, and the links change at any time.
Rest == running = "1.0" /\ link = "free"

MCInit ==
  /\ part \in {"platform", "device", "facts", "addressing"}
  /\ asked \in (CASE part = "platform" -> Demands
                  [] part = "device"   -> Adoptions
                  [] OTHER             -> {{}})
  /\ Init /\ Platform!Init /\ AdoptionInit
  /\ IF part = "addressing"
       THEN Addressing!Init
       ELSE /\ request = None /\ stage = "asked" /\ answer = Addressing!Refused
            /\ infra = Addressing!Unknown /\ address = Addressing!None
  /\ Rest

\* Only what is asked for is created, adopted, joined, rolled out or fails.
OnlyAsked ==
  /\ \A r \in DOMAIN platRow \ asked : platRow'[r] = platRow[r]
  /\ "release" \in asked \/ running' = running
  /\ "trouble" \in asked \/ platFaults' = platFaults

OnlyAdopted ==
  /\ \A d \in Devices \ asked : row'[d] = row[d]
  /\ present' \subseteq asked \cup {"n1"}

MCNext ==
  /\ \/ /\ part = "platform" /\ Platform!Next /\ OnlyAsked
        /\ UNCHANGED <<vars, adoptionVars, onlyAddressing>>
     \/ /\ part = "device" /\ AdoptionNext /\ OnlyAdopted
        /\ UNCHANGED <<vars, onlyPlatform, onlyAddressing>>
     \/ /\ part = "facts" /\ Next
        /\ UNCHANGED <<onlyPlatform, adoptionVars, onlyAddressing>>
     \/ /\ part = "addressing" /\ Addressing!Next
        /\ UNCHANGED <<vars, onlyPlatform, adoptionVars>>
  /\ UNCHANGED <<asked, part>>

MCSpec == MCInit /\ [][MCNext]_<<vars, onlyPlatform, adoptionVars, onlyAddressing, asked, part>>

\* Platform: parents outlive their children, and pools never share addresses.
PlatformSafety == Platform!PlatformSafety

\* Platform: a release or an expiry is noticed before addresses are requested
\* or shown as available.
EvidenceBacksAddresses == Platform!EvidenceBacksAddresses

\* Addressing: what is accepted means what it should as sets of addresses.
AddressesAreSound == Addressing!AddressesAreSound
=============================================================================
