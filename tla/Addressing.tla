----------------------------- MODULE Addressing -----------------------------
(***************************************************************************)
(* What the service accepts as addresses: the networks of VPCs, Subnets    *)
(* and pools, gateways, excluded ranges, intranet routes, allocated EIPs   *)
(* and the backends of a load balancer.  The code works on prefixes and    *)
(* bits (net/netip); the properties speak of sets of addresses.  Addresses *)
(* have Width bits instead of 32, so that every prefix can be tried.  Text *)
(* that does not parse is refused before anything here.                    *)
(***************************************************************************)
EXTENDS Integers, Sequences, FiniteSets, FiniteSetsExt, TLC

CONSTANTS Width,          \* bits of an address
          Private,        \* the RFC1918 networks
          Requests,       \* what clients and administrators ask for
          Infrastructures \* what the cluster uses: subnets, nodes, pods, services, routes

VARIABLES request, stage, accepted, infra, address

vars == <<request, stage, accepted, infra, address>>

Space == 2^Width
None == Space            \* no address; also what follows the last one
Absent == -1             \* a field that was not given

Block(p) == 2^(Width - p.bits)
Masked(p) == p.addr % Block(p) = 0
Contains(p, a) == a < Space /\ a \div Block(p) = p.addr \div Block(p)
Overlaps(p, q) ==
    LET n == 2^(Width - Min({p.bits, q.bits})) IN p.addr \div n = q.addr \div n
After(a) == a + 1

Unknown == [subnets |-> {}, nodes |-> {}, pods |-> {}, services |-> {}, routes |-> {}]

Refused == [ok |-> FALSE]
Accept(config) == [ok |-> TRUE, config |-> config]

-----------------------------------------------------------------------------
(* Tenant networks. *)

\* A canonical network of at least four addresses inside one private network.
NewVPCIntent(r) ==
    IF /\ Masked(r.cidr) /\ r.cidr.bits <= Width - 2
       /\ \E n \in Private : r.cidr.bits >= n.bits /\ Contains(n, r.cidr.addr)
      THEN Accept([cidr |-> r.cidr]) ELSE Refused

\* The gateway is the first host unless it is given.
NewSubnetIntent(r) ==
    LET gateway == IF r.gateway = Absent THEN After(r.cidr.addr) ELSE r.gateway
    IN  IF /\ NewVPCIntent(r).ok
           /\ Contains(r.cidr, gateway) /\ gateway # r.cidr.addr /\ Contains(r.cidr, After(gateway))
          THEN Accept([cidr |-> r.cidr, gateway |-> gateway]) ELSE Refused

-----------------------------------------------------------------------------
(* Address pools. *)

\* The network's bits with all host bits set.
lastPoolAddress(p) == p.addr - (p.addr % Block(p)) + Block(p) - 1

UsableIn(p, a) == Contains(p, a) /\ a # p.addr /\ a # lastPoolAddress(p)

\* Every range lies in the pool and is the right way round.
RangesFit(p, ranges) == \A r \in ranges : Contains(p, r.lo) /\ Contains(p, r.hi) /\ r.lo <= r.hi

Single(a) == [lo |-> a, hi |-> a]

\* A public pool: both gateways are hosts of it and are excluded with what the
\* administrator excluded.
NormalizePublicPool(r) ==
    LET excluded == r.excluded \cup {Single(r.gateway)}
                        \cup (IF r.mode = "underlay" THEN {Single(r.upstream)} ELSE {})
    IN  IF /\ Masked(r.cidr) /\ r.cidr.bits <= Width - 2 /\ UsableIn(r.cidr, r.gateway)
           /\ IF r.mode = "overlay" THEN r.upstream = None
              ELSE UsableIn(r.cidr, r.upstream) /\ r.upstream # r.gateway
           /\ RangesFit(r.cidr, excluded)
          THEN Accept([r EXCEPT !.excluded = excluded]) ELSE Refused

\* An intranet pool: never the whole address space, and it names the networks
\* its traffic must reach.
NormalizeIntranetPool(r) ==
    LET excluded == r.excluded \cup {Single(r.gateway)}
    IN  IF /\ r.mode = "overlay" /\ r.upstream = None
           /\ Masked(r.cidr) /\ r.cidr.bits \in 1..(Width - 2) /\ UsableIn(r.cidr, r.gateway)
           /\ RangesFit(r.cidr, excluded)
           /\ r.networks # {} /\ \A n \in r.networks : Masked(n) /\ n.bits > 0
          THEN Accept([r EXCEPT !.excluded = excluded]) ELSE Refused

\* The pool may not overlap the cluster: other infrastructure networks, node
\* addresses, Pod networks and Service networks, which must be known.
ValidatePublicPool(c, i) ==
    /\ \A n \in i.subnets \cup i.pods : ~Overlaps(n, c.cidr)
    /\ \A a \in i.nodes : ~Contains(c.cidr, a)
    /\ i.services # {} /\ \A n \in i.services : ~Overlaps(n, c.cidr)

networksCover_Touching(networks, target) ==
    Masked(target) /\ \E n \in networks : Masked(n) /\ n.bits > 0 /\ Overlaps(n, target)

networksCover(networks, target) ==
    Masked(target)
    /\ \E n \in networks : Masked(n) /\ n.bits > 0 /\ n.bits <= target.bits /\ Contains(n, target.addr)

\* The controller's routes cover what the pool requires, and both cover the
\* Service networks.
intranetRoutesConfigured(c, i) ==
    /\ i.routes # {} /\ \A n \in i.routes : Masked(n) /\ n.bits > 0
    /\ \A n \in c.networks : networksCover(i.routes, n)
    /\ i.services # {}
    /\ \A n \in i.services : networksCover(c.networks, n) /\ networksCover(i.routes, n)

ValidateIntranetPool(c, i) ==
    /\ NormalizeIntranetPool(c).ok
    /\ ValidatePublicPool(c, i)
    /\ intranetRoutesConfigured(c, i)

\* The address the provider reports for an EIP of the pool counts as allocated:
\* a host of the pool that is not excluded.
eipAllocated(c, a) ==
    /\ Contains(c.cidr, a) /\ a # c.cidr.addr - (c.cidr.addr % Block(c.cidr)) /\ Contains(c.cidr, After(a))
    /\ \A r \in c.excluded : ~(a >= r.lo /\ a <= r.hi)

-----------------------------------------------------------------------------
(* Backends of a load balancer. *)

lbDefault(given, default) == IF given = Absent THEN default ELSE given

\* The comparison of compareLBEndpoint: Subnet, address, identity, port.
compareLBEndpoint(a, b) ==
    \/ a.subnet < b.subnet
    \/ a.subnet = b.subnet /\ a.address < b.address
    \/ a.subnet = b.subnet /\ a.address = b.address /\ a.id < b.id
    \/ a.subnet = b.subnet /\ a.address = b.address /\ a.id = b.id /\ a.port < b.port

Endpoint(b) == <<b.subnet, b.address, b.port>>

\* Identity 0 is none given: the only one allowed in a creation.  Left out are
\* the checks of one field alone: protocol and port of the health check, zero
\* thresholds, and the largest weight.
normalizeLBMutable(r) ==
    LET bs == r.backends
        interval == lbDefault(r.interval, 5)
        timeout == lbDefault(r.timeout, 3)
    IN  IF /\ timeout # 0 /\ interval > timeout
           /\ bs # <<>>
           /\ \A i \in DOMAIN bs :
                 /\ \E n \in Private : Contains(n, bs[i].address)
                 /\ bs[i].port = r.port
                 /\ bs[i].id # 0 => ~r.creating
                 /\ \A j \in 1..(i - 1) :
                       /\ Endpoint(bs[j]) # Endpoint(bs[i])
                       /\ bs[i].id # 0 => bs[j].id # bs[i].id
          THEN Accept([interval |-> interval, timeout |-> timeout,
                       backends |-> SortSeq([i \in DOMAIN bs |-> [bs[i] EXCEPT !.weight = lbDefault(@, 1)]],
                                            compareLBEndpoint)])
          ELSE Refused

-----------------------------------------------------------------------------
Init ==
    /\ request \in Requests
    /\ stage = "asked"
    /\ accepted = Refused
    /\ infra = Unknown
    /\ address = None

Normalize(r) ==
    CASE r.kind = "vpc" -> NewVPCIntent(r)
      [] r.kind = "subnet" -> NewSubnetIntent(r)
      [] r.kind = "public_pool" -> NormalizePublicPool(r)
      [] r.kind = "intranet_pool" -> NormalizeIntranetPool(r)
      [] r.kind = "load_balancer" -> normalizeLBMutable(r)

\* The use case normalizes the request or refuses it.
Admit ==
    /\ stage = "asked"
    /\ accepted' = Normalize(request)
    /\ stage' = IF accepted'.ok THEN "normalized" ELSE "refused"
    /\ UNCHANGED <<request, infra, address>>

\* A pool is compared with the cluster, as it is then, before it is created.
Validate ==
    /\ stage = "normalized" /\ request.kind \in {"public_pool", "intranet_pool"}
    /\ infra' \in Infrastructures
    /\ stage' = IF IF request.kind = "public_pool" THEN ValidatePublicPool(accepted.config, infra')
                                                  ELSE ValidateIntranetPool(accepted.config, infra')
                  THEN "created" ELSE "refused"
    /\ UNCHANGED <<request, accepted, address>>

\* The provider reports some address for an EIP.
Allocate ==
    /\ stage = "created"
    /\ \E a \in 0..(Space - 1) : eipAllocated(accepted.config, a) /\ address' = a
    /\ stage' = "allocated"
    /\ UNCHANGED <<request, accepted, infra>>

Next == Admit \/ Validate \/ Allocate

Spec == Init /\ [][Next]_vars

-----------------------------------------------------------------------------
(* Properties: what the same things mean as sets of addresses. *)

Addresses(p) == {a \in 0..(Space - 1) : a >= p.addr /\ a < p.addr + Block(p)}
Covered(ps) == UNION {Addresses(p) : p \in ps}
Accepted(kinds) == stage \notin {"asked", "refused"} /\ request.kind \in kinds
Config == accepted.config

\* Every address of an accepted VPC or Subnet is private (NewVPCIntent).
TenantNetworksArePrivate == Accepted({"vpc", "subnet"}) => Addresses(Config.cidr) \subseteq Covered(Private)

\* The gateway of an accepted Subnet is a host of it, neither its first nor its
\* last address, also at the end of the address space; and a network that is
\* fit for a VPC is never refused for a gateway nobody gave (NewSubnetIntent).
GatewayIsAHost ==
    /\ Accepted({"subnet"}) =>
          Config.gateway \in Addresses(Config.cidr) \ {Min(Addresses(Config.cidr)), Max(Addresses(Config.cidr))}
    /\ stage = "refused" /\ request.kind = "subnet" /\ request.gateway = Absent => ~NewVPCIntent(request).ok

\* A pool that passed its validation shares no address with the cluster's own
\* networks and nodes (ValidatePublicPool).
PoolAvoidsCluster ==
    stage \in {"created", "allocated"} =>
        Addresses(Config.cidr) \cap (Covered(infra.subnets \cup infra.pods \cup infra.services) \cup infra.nodes) = {}

\* Every address an intranet pool must reach, and every Service address, is
\* routed by the controller (intranetRoutesConfigured, networksCover).
RoutesReachAll ==
    stage \in {"created", "allocated"} /\ request.kind = "intranet_pool" =>
        Covered(Config.networks) \cup Covered(infra.services) \subseteq Covered(infra.routes)

\* An address that counts as allocated is a host of the pool that is no gateway
\* and that no administrator excluded (NormalizePublicPool, eipAllocated).
AllocatedIsFree ==
    stage = "allocated" =>
        /\ address \in Addresses(Config.cidr) \ {Min(Addresses(Config.cidr)), Max(Addresses(Config.cidr))}
        /\ address \notin {request.gateway, request.upstream}
        /\ \A r \in request.excluded : address \notin r.lo..r.hi

Reordered(s) == {[i \in DOMAIN s |-> s[f[i]]] : f \in Permutations(DOMAIN s)}

\* Backends are a set: whatever their order, the accepted intent and hence the
\* idempotency fingerprint is the same, and a weight that is not given is the
\* default weight (normalizeLBMutable: "Ordering cannot change the idempotent
\* intent").
OrderDoesNotMatter ==
    Accepted({"load_balancer"}) =>
        \A s \in Reordered(request.backends) :
            normalizeLBMutable([request EXCEPT !.backends = s]) = accepted

\* All of the above.
AddressesAreSound ==
    TenantNetworksArePrivate /\ GatewayIsAHost /\ PoolAvoidsCluster /\ RoutesReachAll
      /\ AllocatedIsFree /\ OrderDoesNotMatter
=============================================================================
