# ani-resource-service: a TLA+ verification project

`ani-resource-service` (Go) is the network control plane of the ANI platform. Its API writes a
tenant's *intent* (a VPC, a Subnet, an attachment of an instance, public egress, a load
balancer) to PostgreSQL and returns. Worker lanes then bring a Kubernetes cluster, through
custom resources of the `kc` network provider, in line with that intent, and record what they
find. Nothing joins the two stores in one transaction, so the correctness of the service rests
on durable markers, leases, version fences and on what may be concluded from an observation.
That is what these modules model, check and, for a good part, prove.

Paths below are relative to `src/internal/` unless they start with `src/`.

## 1. Inventory

| Component | State it keeps | Operations | Who it meets |
|---|---|---|---|
| Worker step (`biz/network/worker.go`, `egress_worker.go`, `load_balancer_worker.go`) | none; one `Work` in, one `Progress` out | `Step`: observe, `ensure` or `delete`, `finish` | reads through the provider, writes through the repository |
| Resource lifecycle (`data/network/postgres.go`, `worker.go`, `subnet.go`, `queries/*.sql`) | resources, operations, provider bindings, reconciliations (lease owner, epoch, `next_run_at`) | `AcceptVPC`, `AcceptSubnet`, `DeleteVPC`, `DeleteSubnet`, `Claim`, `BeginMutation`, `Finish` | API calls and all lanes of all processes share its rows |
| Admission transactions (the same files, `egress.go`, `platform.go`, `load_balancers.go`, `attachment.go`) | idempotency keys, row versions, row and advisory locks | one transaction per command | each other |
| Listing (`biz/network/list.go` and the `List*` functions) | what a cursor carries | a page | rows that change between pages |
| Address validation (`biz/network/vpc.go`, `subnet.go`, `platform_intranet.go`, ...) | none | checks of CIDRs, gateways, ranges, routes, backends | accepted rows, the cluster's own networks |
| Provider adapter (`data/network/kc.go`, `kc_observed_provider.go`) | none | `Observe`, `Ensure*`, `Delete`, dependency checks | Kubernetes API; the observation |
| Attachments (`biz/network/attachment*.go`, `data/network/attachment*.go`, `kc_attachment.go`, `instance_consumer.go`) | rows: state, Pod, finalization, witnessed relations, protocol block | `Prepare`, `Confirm`, `Release`, `ClaimAttachment`, `Step`, `FinishAttachment` | the instance owner (a remote service), Pods and VNics, the Subnet's removal |
| Observation (`data/network/kc_observation.go`, `kc_index.go`, `observation.go`) | last complete collection, pending changes, generations, epochs | Watch handler, `flush`, `refresh`/`collect`, `valid`, `Covers` | Kubernetes Watch; every lane of the process |
| Base connectivity (`data/network/base_connectivity.go`) and its backfill (`base_backfill.go`) | aggregate of a VPC, its system EIP and SNAT; plans, candidates, rate, switches | admission with the VPC, gates, clean-up, aggregate; plan, review, dispatch, pause, activate | the resource lanes; the administrator |
| Public egress (`biz/network/egress*.go`, `data/network/egress.go`, `kc_egress.go`) | EIPs, SNAT bindings, claims, the enabled switch | `AcceptEIP`, `AcceptSnat`, switch, removals, step | VPCs, pools, load balancers |
| Load balancers (`*load_balancer*`) | versions, members, components, claims, references | accept, update, delete, step, begin, mutate, finish | attachments, EIPs, generated objects |
| Platform resources (`data/network/platform*.go`, `kc_intranet.go`) | gateways, VLANs, pools, the default pool | admission, verification, allocation, removal | devices, EIPs |
| Device adoption and node facts (`kc_node_facts*.go`, `node_facts_*.go`) | one shared ConfigMap; one document per node; the view of it | adopt, publish, heartbeat, renew | agents on every node |
| Process life (`server/worker.go`, `health.go`, `src/cmd/ani-resource-service/app.go`) | lanes, readiness, pool | `Start`, `Stop`, `runLane`, `monitorDatabase` | Kratos, the database |
| Migrations (`data/network/migrate.go`, `CheckReady` in `postgres.go`) | schema versions, permissions | `Migrate`, `CheckReady` | other releases, running processes |
| Configuration, gRPC/HTTP layer, governance, observability, admin, generated code | none of protocol interest | | |

What is hard here, and where a test hardly reaches (`PROJECT.json`, "hazards", gives each at
its line):

* A POST whose answer was lost may have been applied, or may still be applied. The service must
  neither repeat it nor conclude anything from the object's absence.
* A lane works on a copy of a row. Its lease may run out, another lane may claim, the API may
  admit a removal. Lanes of one process share the lease *owner*, so only version and epoch tell
  their claims apart.
* DELETE is acknowledged before finalizers have run. "Deleted" frees the parent and the address
  range, so it must wait for an observed absence.
* Removal of a parent and admission of a child race, for every parent and child there is: VPC
  and Subnet, Subnet and attachment, EIP and binding, pool and EIP, gateway and pool.
* Attachments are concluded from four sources with no common snapshot: the row, the owner's
  answer, the list of Pods and the list of VNics, plus a Watch that may lag.
* A Watch only hints: its queue may overflow, it may be behind, and a second replica may hold an
  older view than the row already records.
* A PATCH may land after the step that sent it was given up.
* Readiness is concluded from three queries while another release migrates the database.
* Removals, releases and notifications progress only by being claimed again and again.

What makes each part correct:

* lifecycle: at most one object per resource; a deleted or failed resource leaves nothing behind;
  the recorded identity is real; an admitted removal is final and completes; completed operations
  are history; a child never outlives its parent's removal; overlapping Subnets are never both
  present; all of this as one contract a client can read;
* admission and listing: a key stands for one intent, a version for one change, transactions never
  wait in a circle; a reading page by page shows every row it should once;
* attachments: released means that the Pod and its interfaces are gone; a slot, or a Subnet being
  removed, holds nothing of an earlier attachment; history is never undone; a release ends; a
  late Pod is noticed;
* observation: no hint is lost between the Watch and the row; facts never go back; what a lane
  concludes is current; every change is applied in the end;
* egress and base connectivity: an EIP serves its claimant; late PATCHes are harmless; clean-up in
  the order SNAT, EIP, VPC; parts become available together; the backfill covers every VPC once;
* load balancers: removal in order, claims held while needed, no component twice, configurations
  and withdrawals complete;
* platform, devices, facts: pools are disjoint and outlive their addresses, registrations stay,
  facts that authorise are recent;
* processes and migrations: ready means the own schema was seen lately; stopped means nothing
  runs; the schema is that of one release, whole.

## 2. Modules

```
WorkerStep               what one Worker.Step decides              (operators)
  ResourceRow            what each transaction does to a row       (operators)
    ResourceLifecycle    API, lanes, provider, time                (state machine)
      ResourceInvariant  why it is safe
      ResourceRefinement that it implements ResourceContract       (INSTANCE)
        MCLifecycle
    EgressStep           updates, gates, cancelled creations       (operators)
      EgressLane         lanes and provider for several rows       (shared part)
        PublicEgress     EIPs and public SNAT       \
        BaseConnectivity a VPC with EIP and SNAT     } MCEgress
        Platform         gateways, VLANs, pools      \
        DeviceAdoption   the shared ConfigMap         } MCPlatform
BackfillState            tables and their promises   (MCEgress)
  BaseBackfill           plans and dispatchers       (MCEgress)
NodeFacts                collectors and views        (MCPlatform)
Addressing               what addresses are accepted (MCPlatform)
AttachmentStep           what one AttachmentWorker.Step decides    (operators)
  AttachmentProtocol     owner, cluster, collections, lanes        MCAttachment
Observation              Watch, audit, hints, rows                 MCObservation
LBStep                   what one step on a load balancer decides  (operators)
  LoadBalancer           admission, lanes, controllers             MCLoadBalancer
Migration                Migrate and CheckReady
  Process                WorkerServer, Kratos, monitor             MCService
Admission                the order of locks and reads              MCService
Listing                  cursors and pages                         MCService

LifecycleProofs, PublicEgressProofs, LoadBalancerProofs, BackfillProofs,
DeviceProofs, AttachmentProofs, ObservationProofs, ProcessProofs    (TLAPS)
```

A definition named `Operator_Error` is a deliberate mistake in `Operator`. Substituting it must
break the property it is listed with in `PROJECT.json`, which shows that the property can fail.
`Next` never uses it. `PROJECT.json`, "map", gives the lines every definition stands for.

### WorkerStep, ResourceRow, ResourceLifecycle

A **row** joins the four tables that describe one resource. `state` and `fresh` come from
`network_vpcs`/`network_subnets`, `op` is the state of the last operation, `uid` and `pending`
are the provider binding, `lease` says that `lease_until` lies ahead. `next_run_at` only delays
claims and is left out; attempts, reasons and delays are read by no decision.

**Versions and lease epochs** are only ever compared for equality with a lane's copy. The model
keeps, per lane, the set `held` of copies that still match: bumping a counter removes it from
every `held`. This makes the state space finite without a bound on the counters.

**A lane** (`pc`) walks through `Worker.Step`:

| pc | action | code |
|---|---|---|
| idle | `Claim` | `data/network/worker.go` `Claim` |
| claimed | `ObserveDirect`, `ObserveCached`, `ObserveFails` | `kc.go`, `kc_observed_provider.go`, `Worker.Step` |
| begin | `BeginMutation` (the durable marker, before any request) | `data/network/worker.go` `BeginMutation` |
| check | `CheckCreate`, `CheckDelete`, `CheckFails` (preflight reads, then the request) | `kc.go` `ensure`, `Delete` |
| sent | answer of the provider, or `CallTimesOut` | `kc.go`, `mutationFailure` |
| finish | `Finish` | `data/network/worker.go` `Finish` |

`Crash` may end a step anywhere. A transaction is one action, because it locks every row it
reads, parents first (`Admission` is about that). **The provider** applies, refuses or loses
requests in any order (`net`), also after the lane has given up; deletion leaves a terminating
object until `Finalize`; `Vanish` removes an object behind the service's back. **Faults** of all
kinds share one bound, `MaxFaults`; a lease that runs out after its lane died is not a fault.

`ResourceContract` is what a client is promised about a resource: the state the API shows and the
object in the cluster, without lanes, leases, requests and failures. `ResourceRefinement` maps the
detailed module to it.

The VPCs modelled here have no base connectivity row (`BaseConnectivity` has those). Namespaces,
the field-by-field comparison of an object with its intent (one bit, `ready`) and idempotent
replays (no effect) are abstracted.

### EgressStep, EgressLane and the modules on them

EIPs, SNAT bindings, gateways, VLANs, pools, devices and VPCs with base connectivity are carried
out by the same lanes, with what `WorkerStep` does not need: updates, gates, creations cancelled
before they were sent (`sent` is `create_dispatched`), rows notified by others (`told`) and rows
retired. A claim or a completion touches several rows here, so `EgressLane` has both as functions
of all rows; each module that extends it adds what is observed, what each request requires and
which other rows a transaction changes.

* `PublicEgress`: the claim on an EIP, the switch, PATCHes that arrive late; a load balancer is the
  other claimant. The state of VPC, base connectivity and pool is one flag, `exit`.
* `BaseConnectivity`: one VPC with its system EIP and SNAT, the aggregate, and the clean-up.
* `Platform`: gateways, VLANs, pools and EIPs; the device is one flag. The reads before a request
  (`CheckCreate`, `CheckDelete`) and the request itself (`Mutate`) are two steps: a release may be
  rolled out and evidence may expire between `readEgressSet` and `Create`. The history variable
  `vouched` holds the lanes whose pool has had current evidence at a moment since they began.
* `DeviceAdoption`: all adoptions share one ConfigMap, written with tests on UID and revision.
* `BaseBackfill`: dispatchers that admit VPCs at a shared rate; each lock of a transaction that
  waits for a second one is a step.

`BackfillState` holds what `BaseBackfill` keeps, with the properties. `MCEgress` extends it and
instantiates the actions, and `MCPlatform` extends `DeviceAdoption`, so that TLC checks the very
definitions that the theorems of section 4 are about.

### AttachmentStep, AttachmentProtocol

The row of an attachment has its state, the recorded Pod, whether a finalization id is set
(`fin`), the protocol block, the witnessed interfaces (`rel`), the last evidence hash and the
lease. The owner opens a submission, sends one Pod and closes: first `closing`, then, when every
Pod is accounted for, `closed`. The cluster creates interfaces (a VNic together with its VNicIP)
for a live Pod and removes them after it. A **process** collects for all its lanes: `ListPods`,
then `ListRelations`; between the two, anything may change. A lane claims, asks the owner
(`GetSubmission`), waits for a collection that is new enough (`RequireFreshRelations`, `Covers`,
`Valid`) and finishes. The attachment worker writes nothing to the cluster, so a lane that has
lost its fences has no effect at all; the model therefore lets a lane read the row itself instead
of a copy.

`WatchLag` chooses between a Watch that delivers changes at once and one that may be behind any
collection. `OwnerErrs` lets the owner break the protocol (`LatePod`, invalid answers). The owner
and the cluster are not code of this repository: they are modelled from how the code uses them and
are marked external in `PROJECT.json`. The Subnet is reduced to the two transactions that meet
attachments.

### Observation

A Watch records changes in bounded maps, `flush` turns them into durable notifications
(generations), an audit lists all objects, and lanes apply what they read to rows that all
processes share. Sequence numbers, epochs and times are only compared, so a collection carries the
outcomes of the comparisons (`dirty`, `current`, `since`, `after`), which keeps the state finite
and the proof free of clocks. An object stands for its relationship keys.

### LBStep, LoadBalancer

One load balancer with its Gateway, HTTPRoute, BackendTrafficPolicy and one Backend per member,
each a component with UID and pending action; versions `desired` and `applied`; the Service the
controllers generate and the entry address. `Meddling` lets others touch the objects.

### NodeFacts, Addressing, Admission, Listing, Migration, Process

`NodeFacts` follows one node's collector, its PATCHes that may be late or repeated, and the view
from which the service works. A write only adds an event to the Watch (`Store`); the informer's
handler runs in a step of its own (`Handle`), so that the view stays valid for a while after a
change, and so does a collection under way. An informer that has lost its Watch lists anew and skips
what it had not received (`Relist`); the Watch request that follows makes every earlier collection
invalid (`SourceBoundary`). An audit lists (`AuditList`) and ends or fails. The sequence number is
noted before the list; an event handled between the two makes the collection worthless, so a
collection begins with its list. What is not, or will not be, valid is `NoVersion`. `Addressing` has the rules over addresses of few bits and compares them
with sets of addresses. In `Admission` a command is the *order* in which its transaction takes
locks, looks for its key, reads and commits; callers interleave, repeat and fail at every step. One
check comes before all that: `SetPool` compares the time window of a verification with the clock
before `AcceptPlatform` looks for the key, so that a repeat is refused once the evidence has expired,
although the command was accepted. `KeySafety` has this as its one exception; nothing in the
repository promises otherwise.
`Listing` reads page by page while rows come and go; the signature of a cursor is the fact that
only issued cursors are accepted. `Migration` has releases as non-empty sequences of files that may disagree,
one transaction under an advisory lock; which tables a file adds is not modelled, so a database that
another release has migrated may be refused as foreign or go on to the comparison of checksums; `CheckReady` is three separate queries. `Process` puts
`Start`, `Stop`, the lanes and the monitor, which are goroutines of their own, over it; one tick is
half a second.

## 3. Runs

State counts are distinct states, after symmetry where it is used.

| Run | Instance | States | Checks |
|---|---|---|---|
| `lifecycle` | VPC and Subnet, 2 lanes, 2 faults | 1.14 M | `TypeOK`, `LifecycleInv`, `CreatedOnce`, `DeletedMeansGone`, `RemovalSticks`, `CompletedIsHistory`, `KeepsContract` |
| `lifecycle_promise` | VPC, two overlapping Subnets, 1 lane, 1 fault, fairness | 69 k | `DisjointOnProvider`, `KeepsPromise` |
| `attachment_slot` | 2 attachments in one slot, 1 lane, lagging Watch | 825 k | `ReleasedMeansGone`, `SlotExclusive`, `RemovalFindsNothing`, `AttachmentHistory` |
| `attachment_late_pod` | 1 attachment, 1 lane, erring owner, 1 fault, fairness | 497 k | `ReleaseEnds`, `LatePodIsNoticed` |
| `observation` | 1 object, rows of three kinds of which one exists, 1 lane, 1 change, 1 fault, queues of 1, fairness | 201 k | `NoHintIsLost`, `FactsNeverRegress`, `ConclusionsAreCurrent`, `ObservationProgress` |
| `egress` | 2 lanes, 1 fault; EIP, SNAT, load balancer, 2 switches; base connectivity of a VPC; backfill of 2 VPCs by 2 dispatchers, 5 orders | 1.15 M | `EgressSafety`, `LatePatchIsHarmless`, `BaseSafety`, `AvailableTogether`, `BackfillSafety`, `BackfillSteps` |
| `egress_progress` | the first two with 1 lane, fairness | 48 k | `EgressCompletes`, `BaseProgress` |
| `load_balancer` | 2 members, 2 versions, 2 lanes, 1 fault or turn, meddling | 1.18 M | `LBSafety` |
| `load_balancer_progress` | 2 members, 2 versions, 1 lane, fairness | | `LBCompletes` |
| `lb_regression` | 1 member, 2 versions, 2 lanes, 2 turns | violation | `ConfigurationNeverRegresses` |
| `platform` | platform, 1 lane, 1 fault; 2 adoptions and a joining node; facts of 1 node over 3 ticks; addresses of 4 bits | 1.43 M | `PlatformSafety`, `EvidenceBacksAddresses`, `DeviceSafety`, `FactsSafety`, `DocumentsAdvance`, `AddressesAreSound` |
| `service` | 1 process with 2 lanes; 3 releases; 2 or 3 callers, evidence that lapses; readings of 6 and 9 rows | 1.91 M | `ProcessSafety`, `MigrationSafety`, `KeySafety`, `NoWaitCycle`, `ReadingIsExact` |

**Side by side.** Three MC modules hold several components that share no variable. A behaviour
chooses one of them at the start (`part`) and takes its steps only, while the others rest where
they begin. The reachable states are those of separate runs, side by side, not their product.

**Why the bounds are enough** for the cases that matter. Two lanes are the fewest that can disagree
about who owns a row; a third meets the same fences. Two faults allow an answer lost and the lease
of the retry run out. Resource lifecycles have no other bound: claims, observations and completions
repeat for ever. A VPC with one child has every parent/child order; two children matter only for
overlap, where one lane suffices since the conflict is between rows. Two attachments are one
hand-over of the slot. An honest submission has one Pod; the second UID exists for the late Pod.
Queues of one overflow at the second change. Two switches allow the PATCH of the first to arrive
after the second. Two members in two Subnets and two versions allow a member to be exchanged.
Three releases, of which two disagree, allow every order of agreement and conflict. All pairs of
transactions, and all triples of those that lock most, cover the cycles of two and three. A verification that lapses
once is enough for a repeat on either side of its end. Three ticks of the clock, with a freshness of
one, let a view grow old while heartbeats keep it valid. Addresses
of four bits have every prefix length on either side of a boundary. Where a theorem exists
(section 4) no bound is left.

Symmetry is used only in runs without liveness, over lanes, callers or attachments that no constant
tells apart. Deadlock is checked except in `egress`, `egress_progress`, `platform` and `service`,
where orders, calls, publications or starts are bounded and the component that was chosen may
really have nothing left to do.

### Fairness

* Weak fairness of the steps of a lane that make progress (`runLane` keeps calling `Step`, and every
  provider and database call has a timeout), of the provider serving what reaches it, of finalizers,
  of lease expiry (time) and, external, of the controllers that allocate, bind, apply and undo.
* Strong fairness of claiming a given resource: `Claim` orders by `next_run_at`, and finishing moves
  that time ahead, so a due resource is passed over only finitely often, but it is not continuously
  claimable.
* Attachments: the audit keeps collecting; the owner finishes what it has begun to close, deletes its
  Pod while closing, and the cluster creates or refuses a Pod it was sent and removes the interfaces
  of a Pod that is gone. `Confirm` and `Release` are *not* fair: a release ends even if the owner's
  call never arrives.
* Observation: the audit, the lanes and the deadlines are fair; deliveries of the Watch and their
  flushing are *not*: changes are applied even if the Watch says nothing.
* Load balancers: dependencies recover.

API calls, faults, crashes and ageing of observations are never fair.

### What the runs show

All properties of the passing runs hold. `lb_regression` shows a disagreement
(`kc_load_balancer.go:457`): `MutateLoadBalancer` reads the object again and sends its PATCH with
the revision of that read. A lane that was granted an update of the old configuration and is then
overtaken reads the new revision and replaces the new configuration by the old one, until a later
step corrects it. The comment at `biz/network/load_balancer_worker.go:170` says that only one
request at the observed revision can win.

Met while modelling, and built into the models or their constants rather than stated as a run:

* `kc_attachment.go:160`: a VNic witnessed only through the owner's answer has no known owner while
  `GetSubmission` fails; that is a conflict and so a protocol block nothing lifts.
* `kc_attachment.go:202`: Pods are listed before VNics; a Pod and its VNic that go in between, with
  the Watch behind, are a conflict too. Both err on the safe side: slot and Subnet stay occupied until
  an operator acts. `ReleaseEnds` therefore says "released or blocked".
* `egress.go:243`: the switch of a *failed* binding puts it back to provisioning, and its Snat is
  created.
* `load_balancers.sql.go:147`: a component whose POST was applied with its answer lost cannot be
  updated, so an invalid member stays in such a route; `load_balancer_worker.go:91`: a route may name
  a member whose Backend waits to be created. `LBCompletes` is stated without these cases.
* `postgres.go:164`: the first VPC and the first EIP of a tenant can wait for each other, since the
  namespace row is not part of the fixed lock order; PostgreSQL ends one. `NoWaitCycle` is stated for
  tenants whose namespace exists.
* A creation whose POST was lost stays blocked with `PROVIDER_RESULT_UNKNOWN`, deliberately
  (`src/docs/plans/provider-unknown-create-recovery.md`); no liveness of creation is claimed.

## 4. Proofs

The theorems hold for every value of the constants: any resources, lanes, processes, releases,
queue sizes, and any bound on faults. What they assume of the constants is named in the modules and
evaluated by TLC on the runs: `ResourcesAssumption` (VPCs and Subnets are disjoint, there is a VPC,
every Subnet has a parent), `FaultsAssumption`, `FactsAssumption`, `AttachmentAssumption`,
`ObservationAssumption`, `MigrationAssumption` (a release is a non-empty sequence of checksums),
`ProcessAssumption` (processes do not share lanes), `EgressAssumption` (EIPs and bindings are
disjoint, and neither the load balancer nor "nobody" is one of them), `LBAssumption` (finitely many
members, none of them called "gateway", "route" or "policy") and `AdoptionAssumption` (some node is
there from the start). The theorems about backfill have theirs as a hypothesis, since the run
instantiates that module: `BackfillConstants` (VPCs are numbered, a batch is not empty, no dispatcher
has the name of a free lock; `ASSUME BackfillAssumption` of `MCEgress`).

| Module | Theorem | States |
|---|---|---|
| `LifecycleProofs` | `TypeCorrect` | `TypeOK` |
| | `RemovalInvariant` | `RemovalInv` is inductive |
| | `RemovalIsFinal`, `CompletedStays` | `RemovalSticks`, `CompletedIsHistory` |
| | `LifecycleInvariant` | `LifecycleInv` is inductive |
| | `CreatedAtMostOnce`, `DeletedIsGone` | `CreatedOnce`, `DeletedMeansGone` |
| | `FailedIsEmpty`, `ParentsOutlive`, `IdentitiesAreReal` | `FailedLeavesNothing`, `ParentOutlivesChild`, `IdentityIsReal` |
| | `ContractInvariant`, `DisjointObjects` | `ContractInv`, `DisjointOnProvider` |
| | `KeepsTheContract` | `ResourceLifecycle` implements `ResourceContract` |
| `PublicEgressProofs` | `EgressInvariant` | `EgressInv` is inductive |
| | `EgressIsSafe`, `PatchesAreHarmless` | `EgressSafety`, `LatePatchIsHarmless` |
| `LoadBalancerProofs` | `LBInvariant`, `LBIsSafe` | `LBInv` is inductive, `LBSafety` |
| `BackfillProofs` | `RolloutInvariant` | `RolloutInv` is inductive |
| | `RolloutIsSafe`, `RolloutStepsAreSafe` | `BackfillSafety`, `BackfillSteps` |
| `DeviceProofs` | `DeviceInvariant`, `AdoptionsAreSafe` | `DeviceInv` is inductive, `DeviceSafety` |
| | `FactsAreSafe`, `PublishedFactsAdvance` | `FactsSafety`, `DocumentsAdvance` |
| `AttachmentProofs` | `HistoryInvariant`, `HistoryIsKept` | `HistoryInv`, `AttachmentHistory` |
| | `ReleaseInvariant`, `ReleasedIsGone`, `SlotIsExclusive`, `RemovedSubnetIsEmpty` | `ReleaseInv`, `ReleasedMeansGone`, `SlotExclusive`, `RemovalFindsNothing`, all for an honest owner |
| `ObservationProofs` | `ObservationInvariant` | `ObservationInv` is inductive |
| | `NoHintLost`, `FactsOnlyAdvance`, `ConclusionsCurrent` | `NoHintIsLost`, `FactsNeverRegress`, `ConclusionsAreCurrent` |
| `ProcessProofs` | `ProcessInvariant` | `ProcessInv` is inductive |
| | `MigrationsAreSafe`, `ProcessesAreSafe` | `MigrationSafety`, `ProcessSafety` |

**Removal.** `RemovalSticks` does not follow from one step alone: a lane that claimed an available
VPC holds a draft that says "available", and only the fences keep it out of a row that has become
"deleting" since. `RemovalInv` has two parts. `FencedState`: a lane both of whose fences match works
on the state the row still has, since every action that changes a row's state either removes a fence
from all lanes on it or applies to a resource that no fenced lane is on. `DraftKeepsRemoval`:
whatever the lane has seen and been answered, its draft moves a claimed "deleting" to "deleting" or
"deleted", and a lane whose claim was of a removal never heads for a POST.

**Life of a resource.** `LifecycleInv` says why one object is all there is. A lane whose fences all
match is the only one for its resource, and the row is still the row it claimed (`FencedView`). The
pending marker is written before a POST leaves and is only removed by a lane that knows how the POST
ended, so a POST that may land finds the marker set and no object (`MarkerCoversPost`), and an object
finds the marker set or its identity recorded (`ObjectIsKnown`). The operation stays active while the
marker is set (`MarkerKeepsActive`), so no removal is admitted before the POST is accounted for. The
proof separates what one lane concludes (`Sound`, `Draft`) from what leaves a resource and all other
lanes alone (`Calm`).

**Contract.** `ContractInv` adds what relates resources to each other: a Subnet in use has a usable
VPC, overlapping Subnets are never both in use, and a DELETE under way belongs to a removal. Then
each action is one step of `ResourceContract` or stutters under the mapping of `ResourceRefinement`.

**Public egress.** `EgressSafety` relates rows, claims, objects and requests under way, and
`LatePatchIsHarmless` is about a request whose lane is long gone; neither is inductive. `EgressInv`
adds, per resource, that at most one POST is under way, that the row's marker covers it and that
nothing was made before it lands (`GoodResource`, `OnePost`); that a binding which is neither absent
nor deleted holds its EIP, and that a held EIP exists and is not being removed (`GoodBinding`,
`GoodEip`), so releasing the claim last, in the transaction that finishes the removal, is what
makes the EIP safe to reuse; and for patches (`GoodRequest`) that one which can still pass its revision
test carries the desired position *and* differs from the position of the switch. The second half is
what makes it inductive: once the switch is where it should be, every patch under way is stale, so a
later change of intent cannot be undone by one of them. What a lane knows is split by its fences:
of a removal it says the truth for good, everything else only as long as its version and lease
match (`GoodLane`).

**Load balancer.** `LBSafety` needs, per component, that at most one POST may land, that its row is
then marked, has no identity and nothing was ever made (`OnePost`, `GoodPost`), and that an object that
was made is marked or recorded (`GoodComponent`): the marker is only cleared by a note that carries
the identity or knows that no POST is left (`GoodNote`). The order of the removal is the other half. A
DELETE is decided on an observation and may be sent, and arrive, much later; `SafeDelete` says what
stays true meanwhile: once the removal was accepted nothing is created, and a retired member never
returns, which is why a row that exists is never inserted again (`Retains`). The proof first shows what
the loop of `LBStep` has established when it reaches a component (`RemovalOrder`, `RemovalDone`,
`ObserveFacts`), for any number of backends; then that whatever leaves the rows alone keeps everything
(`Advance`: an object only comes with the POST it takes, the address only with the gateway); then the
transactions, which all break the fences (`FencesBreak`).

**Backfill.** `RolloutInv` states what the two locks are for. A creation that has read the switch for
new VPCs finds it unchanged at its commit, and none has read it while an activation is under way
(`GoodOpening`), so the activation's list holds every VPC there is, and those it has checked stay
ready (`GoodActivation`). From the choice of a candidate to its admission the run is locked by that
dispatcher, reviewed, not paused and due (`GoodDispatcher`), although all of it was read before.

**Device adoption.** Adoptions share one ConfigMap. A PATCH whose revision is still the current one
carries every registration there is, since each change of kcn-config moves the revision on
(`PatchGood`); every request under way has such a content; and what a lane means to record as
available was seen wired on all accepted nodes after the acceptance, which neither row, claim nor
conclusion can take back (`Standing`).

**Attachments.** `HistoryInv` holds whatever the owner and the Watch do: a lane whose version still
matches is about to record a superset of the interfaces the row has witnessed, and never another Pod.
`ReleaseInv` needs `~OwnerErrs`, as does `ReleasedMeansGone` itself: an owner that creates a Pod after
it has closed the submission makes the conclusion false, which the service can only notice
(`LatePodIsNoticed`). Its heart is `FreshIsComplete`: a collection begun after the owner closed the
submission shows every interface that is left, so one without interfaces means that there are none.

**Observation.** `ObservationInv` says what the comparisons prove: of a collection, per object, what
its sequence number and epoch (nothing changed that the process has heard of), its time against a
row's evidence (not older than what the row shows) and against a lane's boundary (not older than the
claim) imply (`GoodCollections`); what a lane that got, and concluded from, a collection carries to
its row (`GoodLanes`); that a row whose notifications count as processed shows what led to them
(`ProcessedIsApplied`); and that from each recorded change to each row somebody still has to be
notified (`HintsAreKept`, `StillAwake`).

**Node facts.** Publications may be late, lost or repeated; the proof orders samples, rounds and
revisions (`Sampled`, `RoundsAdvance`, `RevisionsAdvance`): a PATCH that passes its tests carries a
later sample than what it replaces. The service's side (`ServiceInv`) says that versions are unique
and handled in their order, the last event being what is published (`EventsInOrder`), and that the
valid view, and the collection that will be the next one, keep up (`KeepsUp`): each is either a
version still on its way, or, but for its dates, what the handler saw last. Handling an event that
is no heartbeat voids both; a heartbeat changes nothing but the dates. Between a list and its Watch request an informer may have skipped events,
so nothing is claimed until `SourceBoundary` has voided both. The other half of `FactsSafety` needs
only that a document's date is never later than a moment at which its links were seen.

**Processes and migrations.** A probe is three queries that see three states of the database.
`MigrationInv` shows that the schema only ever grows: one migration holds the lock, its draft is what
was committed followed by files of its own release, all compared up to `at` (`GoodDraft`). So a checksum
that matched still matches when the versions are counted, and `Established` adds the queries up to
"the schema was that of the process at the last query"; no tick passes before the result is stored,
so readiness is never older than its stamp. `Agreed` relates `Start` to `Stop`: a Stop either saw a
Start that was begun, and waits for it, or the Start that comes later is refused; `Settled` says
that lanes run only in between.

Every inductive invariant was first checked by TLC on the instances of the runs.

**Only model-checked.**

* Liveness, which needs fairness and ENABLED: `KeepsPromise`, `ReleaseEnds`, `LatePodIsNoticed`,
  `ObservationProgress`, `EgressCompletes`, `BaseProgress`, `LBCompletes`.
* What needs induction over data, which the provers cannot do: `AddressesAreSound` (bits and
  prefixes), `ReadingIsExact` (folds over sequences, sorted pages), `NoWaitCycle` (paths in the graph
  of waits), and `KeySafety`: a call is the sequence of steps it has left, put together with a sort,
  and which step comes after which is a fact about all its suffixes.
* `BaseSafety`, `AvailableTogether`, `PlatformSafety` and `EvidenceBacksAddresses`: no
  obstacle in principle. Their rows go through the same lanes as those of public egress, but each has
  gates, bindings and an order of removal of its own, and the argument of `EgressInv` has to be
  repeated for each of them.

## 5. Not modelled, and limits of the models

* Configuration is checked once before anything runs. The gRPC/HTTP layer converts messages;
  governance, health endpoints and metrics keep no protocol state. Generated code is modelled from the
  queries it is generated from, where they are used.
* Device adoption: two adoptions accepted on one fingerprint are modelled, the second ends with a
  conflict; a failed JSON-patch test is answered with 422 and ends an adoption as failed
  (`kc.go:322`, `kc_node_facts.go:326`), as in the model.
* Observation: a hint for a row that was registered after the last view is lost by design; deadlines
  and the audit recover it, and `NoHintIsLost` speaks of rows the view knows.
* Platform: the default pool's row is not cleared by its removal; nothing reads it then. The reads of
  one preflight or observation are one moment. What changes between a read and the request that
  follows goes unnoticed, in the code and in the model: `EvidenceBacksAddresses` promises evidence
  that was current after the mutation was begun, not at the instant of the POST.
* Node facts: a valid view is not always what is published; it lacks what the handler has yet to see.
  How long that takes is not bounded, only `AuthorisedIsRecent` limits what it can lead to.
* Load balancers: how `lbGenerated` proves that a private address is free (the Subnet's ranges, of a
  later revision than the one that showed it in use; nothing, if the gateway was never sent) is
  abstracted to the fact, `bound`.
* Addressing: checks of a single field of a load balancer (protocol and port of the health check, zero
  thresholds, weights above 1000000) are left out.
* Admission: the key-share locks PostgreSQL takes for foreign keys.
* Process: `Stop` clears `alive` after the mutex, which may race with `Start` setting it; the model has
  both orders. Kratos is external. Lanes do not wait for the database to be ready.
* Identical requests under way at the same time are one element of `net`. The comparison of networks in
  `Addressing` is conservative where the code is.
* Attachments: EIPs of the Subnet and VNicIPs apart from their VNic (each holds an attachment the way an
  interface does), and the label-by-label check of a Pod.

## 6. Plan

Done: all modules and runs above and the proofs of section 4. Next, in this order:

1. `BaseSafety` and `PlatformSafety`, along the argument of `EgressInv`: the lemmas of
   `PublicEgressProofs` about what one lane concludes and what leaves a resource alone carry over.
2. `KeySafety` of `Admission`, with the transactions' statements as program positions.
