----------------------------- MODULE Admission -----------------------------
(***************************************************************************)
(* How commands are admitted: the transactions of internal/data/network    *)
(* that accept an intent under an idempotency key, those that accept a     *)
(* removal or a change of the rollout, and those of the workers.  What the *)
(* accepted resource then goes through is the matter of the other modules; *)
(* here a command is the ORDER in which its transaction takes row and      *)
(* advisory locks, looks for an earlier acceptance of its key, and reads   *)
(* the facts it depends on.  Every caller runs such a plan step by step,   *)
(* interleaved with the others; it may be repeated with the same key, its  *)
(* answer may be lost, and its transaction may end at any step (a crash, a *)
(* cancelled call, a failed statement, a deadlock broken by PostgreSQL).   *)
(***************************************************************************)
EXTENDS Naturals, Sequences, SequencesExt, FiniteSets

CONSTANTS Calls,        \* the handlers and workers that run transactions
          Requests,     \* the requests they may be given
          Registered,   \* tenants whose namespace row exists at the start
          InitialNewVpcs,  \* is the rollout to new VPCs enabled at the start?
          MaxCalls,     \* bound on the number of requests handled
          MaxFlips      \* bound on the changes of the surrounding facts

VARIABLES call,         \* the transaction each caller runs
          accepted,     \* the idempotency rows, one per accepted intent
          namespaces,   \* tenants with a committed namespace row
          newVpcs,      \* network_connectivity_rollouts.new_vpcs_enabled
          version,      \* the version of each row that is changed in place
          ready,        \* are the facts an admission depends on fresh and ready?
          lapsed,       \* has the evidence of the verifications expired?
          calls, flips  \* requests handled and changes of ready and lapsed so far

vars == <<call, accepted, namespaces, newVpcs, version, ready, lapsed, calls, flips>>

None == "none"
Idle == [st |-> "idle", req |-> None, todo |-> <<>>, held |-> {}, known |-> {}, reply |-> None]

Updated == {r.row : r \in {q \in Requests : q.row # None}}

Init ==
    /\ call = [c \in Calls |-> Idle]
    /\ accepted = {}
    /\ namespaces = Registered
    /\ newVpcs = InitialNewVpcs
    /\ version = [x \in Updated |-> 0]
    /\ ready = TRUE /\ lapsed = FALSE
    /\ calls = 0 /\ flips = 0

-----------------------------------------------------------------------------
(* The statements a plan is made of.  A lock is held until the transaction  *)
(* ends: the row locks are SELECT ... FOR UPDATE, the key, slot, cluster    *)
(* and rollout locks pg_advisory_xact_lock.                                 *)

Lock(row) == [do |-> "lock", row |-> row]

LockVPC(r) == Lock(<<"vpc", r.vpc>>)
LockSubnet(r) == Lock(<<"subnet", r.subnet>>)
LockEIP(r) == Lock(<<"eip", r.eip>>)
LockSnat(r) == Lock(<<"snat", r.row>>)
LockLB(r) == Lock(<<"lb", r.row>>)
LockPlatform(id) == Lock(<<"platform", id>>)
LockPublicPool(r) == Lock(<<"pool", r.pool>>)
LockPlatformCluster == Lock(<<"cluster">>)
LockConnectivityRollout == Lock(<<"rollout">>)
LockBaseBackfillRun == Lock(<<"backfill">>)
LockAttachmentSlot(r) == Lock(<<"slot", r.tenant, r.instance>>)

\* FOR UPDATE SKIP LOCKED: a busy row is passed over, with the given steps.
Try(row, skip) == [do |-> "try", row |-> row, skip |-> skip]
TryLockWorkVPC(r, skip) == Try(<<"vpc", r.vpc>>, skip)
TryLockWorkEIP(r, skip) == Try(<<"eip", r.eip>>, skip)
TryLockWorkSnat(r, skip) == Try(<<"snat", r.row>>, skip)

\* INSERT ... ON CONFLICT DO NOTHING waits for an uncommitted row of the same
\* key and holds its own until the transaction ends.
EnsureTenantNamespace(r) == [do |-> "reserve", tenant |-> r.tenant]

Facts == [do |-> "check"]           \* readiness, freshness, occupancy, overlap
Current(r) == [do |-> "current", row |-> r.row]   \* the expected version
Window == [do |-> "window"]         \* the time window of a pool's evidence
Found == [do |-> "found"]           \* a claimed candidate ends the search

\* The domains of the keys: one per idempotency table and operation kind.
VpcKey(r) == <<"create_vpc", r.tenant, r.key>>
SubnetKey(r) == <<"create_subnet", r.tenant, r.key>>
EgressKey(r) == <<"egress", r.cmd, r.tenant, r.key>>
PlatformKey(r) == <<"platform", r.cmd, r.key>>
AttachmentKey(r) == <<"attachment", r.tenant, r.instance, r.key>>

LockCreationKey(r) == Lock(VpcKey(r))
LockSubnetCreationKey(r) == Lock(SubnetKey(r))
LockEgressKey(r) == Lock(EgressKey(r))
LockPlatformKey(r) == Lock(PlatformKey(r))

Replay(key) == [do |-> "replay", key |-> key]
vpcReplay(r) == Replay(VpcKey(r))
subnetReplay(r) == Replay(SubnetKey(r))
attachmentReplay(r) == Replay(AttachmentKey(r))
\* The egress and load balancer replays take the key's lock themselves.
egressReplay(r) == <<LockEgressKey(r), Replay(EgressKey(r))>>
lbReplay(r) == <<LockEgressKey(r), Replay(EgressKey(r))>>
platformReplay(r) == Replay(PlatformKey(r))

\* The last statements insert the resource, its operation and, for a command
\* with a key, the acceptance; the key is the primary key of that row.
Insert(key) == [do |-> "commit", key |-> key]
InsertIdempotency(r) == Insert(VpcKey(r))
InsertSubnetIdempotency(r) == Insert(SubnetKey(r))
InsertEgressIdempotency(r) == Insert(EgressKey(r))
InsertLBIdempotency(r) == Insert(EgressKey(r))
savePlatformAcceptance(r) == Insert(PlatformKey(r))
InsertAttachment(r) == Insert(AttachmentKey(r))
Save == Insert(<<>>)

-----------------------------------------------------------------------------
(* The plans of the commands that carry a key. *)

acceptBaseConnectivity(r) == <<LockPlatformCluster, LockPublicPool(r), Facts>>

AcceptVPC_NoRecord(r) ==
    <<LockCreationKey(r), vpcReplay(r), EnsureTenantNamespace(r), LockConnectivityRollout,
      [do |-> "rollout"], Save>>
AcceptVPC(r) ==
    <<LockCreationKey(r), vpcReplay(r), EnsureTenantNamespace(r), LockConnectivityRollout,
      [do |-> "rollout"], InsertIdempotency(r)>>

AcceptSubnet(r) ==
    <<subnetReplay(r), LockVPC(r), LockSubnetCreationKey(r), subnetReplay(r), Facts,
      InsertSubnetIdempotency(r)>>

PrepareAttachment(r) ==
    <<attachmentReplay(r), LockVPC(r), LockSubnet(r), LockAttachmentSlot(r),
      attachmentReplay(r), Facts, InsertAttachment(r)>>

AcceptEIP(r) ==
    egressReplay(r) \o <<LockPlatformCluster, LockPublicPool(r), Facts,
                         EnsureTenantNamespace(r), InsertEgressIdempotency(r)>>

AcceptSnat(r) ==
    egressReplay(r) \o <<LockVPC(r), LockEIP(r)>>
        \o (IF r.cmd = "set_snat_enabled" THEN <<LockSnat(r), Current(r)>> ELSE <<>>)
        \o <<Facts, InsertEgressIdempotency(r)>>

\* The subnets of the entry, the backends and the earlier configurations,
\* once each and in the order of their identifiers.
lockLBSubnets(r) ==
    LET ids == SetToSortSeq(r.subnets, <) IN
    [n \in 1..Len(ids) |-> Lock(<<"subnet", ids[n]>>)]

LBRows(r) ==
    <<LockVPC(r)>> \o lockLBSubnets(r)
        \o (IF r.eip # None THEN <<LockEIP(r)>> ELSE <<>>)

AcceptLoadBalancer(r) ==
    lbReplay(r) \o LBRows(r)
        \o (IF r.cmd = "update_load_balancer" THEN <<LockLB(r), Current(r)>> ELSE <<>>)
        \o <<Facts, InsertLBIdempotency(r)>>

\* Devices and pools are validated against the provider before the transaction.
Infrastructure(r) ==
    IF r.cmd \in {"adopt_device", "create_pool"} THEN <<Facts>> ELSE <<>>

acceptPoolChange(r) ==
    <<LockPlatform(r.row), Current(r), LockPublicPool(r), Facts, savePlatformAcceptance(r)>>

AcceptPlatform(r) ==
    <<platformReplay(r)>> \o Infrastructure(r)
        \o <<LockPlatformKey(r), platformReplay(r), LockPlatformCluster>>
        \o (IF r.row # None THEN acceptPoolChange(r)
            ELSE [n \in 1..Len(r.parents) |-> LockPlatform(r.parents[n])]
                     \o <<Facts, savePlatformAcceptance(r)>>)

\* A verification is judged by the clock before anyone looks for its key.
SetPool(r) ==
    (IF r.cmd = "verify_pool" THEN <<Window>> ELSE <<>>) \o AcceptPlatform(r)

-----------------------------------------------------------------------------
(* Removals, which are idempotent by the state of their row and have no key. *)

DeleteVPC(r) == <<LockVPC(r), Facts, Save>>
DeleteSubnet_ChildFirst(r) == <<LockSubnet(r), LockVPC(r), Facts, Save>>
DeleteSubnet(r) == <<LockVPC(r), LockSubnet(r), Facts, Save>>
DeleteEIP(r) == <<LockEIP(r), Facts, Save>>
DeleteSnat(r) == <<LockVPC(r), LockEIP(r), LockSnat(r), Facts, Save>>
DeleteLoadBalancer(r) == LBRows(r) \o <<LockLB(r), Save>>
DeletePlatform(r) ==
    <<LockPlatformCluster, LockPlatform(r.row), LockPublicPool(r), Facts, Save>>

\* ConfirmAttachment, FinalizeAttachment and the attachment worker's writes.
lockAttachmentParents(r) ==
    <<LockVPC(r), LockSubnet(r), Lock(<<"attachment", r.instance>>), Save>>

(* The workers: the search for due work, and the writes of a step. *)

\* A candidate whose row is busy is passed over, and the rows locked for it
\* stay locked: here a due SNAT precedes a due Subnet of another VPC.
claimResource(r) ==
    <<TryLockWorkVPC(r, 3), TryLockWorkEIP(r, 2), TryLockWorkSnat(r, 1), Found,
      Try(<<"vpc", r.nextVpc>>, 2), Lock(<<"subnet", r.subnet>>), Found, Save>>

lockLBWork(r) == LBRows(r) \o <<LockLB(r)>>

claimLB(r) == <<TryLockWorkVPC(r, 100), TryLockWorkEIP(r, 100)>> \o lockLBWork(r) \o <<Save>>

lockResource(r) ==
    CASE r.kind = "lb" -> lockLBWork(r)
      [] r.kind = "eip" -> (IF r.vpc # None THEN <<LockVPC(r)>> ELSE <<>>) \o <<LockEIP(r)>>
      [] r.kind = "snat" -> <<LockVPC(r), LockEIP(r), LockSnat(r)>>
      [] r.kind = "subnet" -> <<LockVPC(r), LockSubnet(r)>>
      [] OTHER -> <<LockVPC(r)>>

\* lockedWork precedes every write of a step; the one of a VPC that is being
\* removed also locks and retires the system children of its connectivity.
lockedWork(r) == lockResource(r) \o <<Save>>
prepareBaseCleanup(r) == <<LockVPC(r), LockEIP(r), LockSnat(r), Save>>
lockedPlatform(r) == LockPlatform(r.row)
finishPlatform(r) == <<lockedPlatform(r), LockPublicPool(r), Save>>

(* The rollout of base connectivity. *)
acceptBaseBackfillCandidate(r) ==
    <<LockBaseBackfillRun, LockVPC(r)>> \o acceptBaseConnectivity(r) \o <<Save>>
SetNewVPCBaseConnectivity == <<LockConnectivityRollout, Save>>
ActivateLegacyBaseAggregation(r) ==
    <<LockConnectivityRollout>> \o [n \in 1..Len(r.vpcs) |-> Lock(<<"vpc", r.vpcs[n]>>)] \o <<Save>>

Plan(r) ==
    CASE r.cmd = "create_vpc" -> AcceptVPC(r)
      [] r.cmd = "create_subnet" -> AcceptSubnet(r)
      [] r.cmd = "prepare_attachment" -> PrepareAttachment(r)
      [] r.cmd = "create_eip" -> AcceptEIP(r)
      [] r.cmd \in {"bind_snat", "set_snat_enabled"} -> AcceptSnat(r)
      [] r.cmd \in {"create_load_balancer", "update_load_balancer"} -> AcceptLoadBalancer(r)
      [] r.cmd \in {"adopt_device", "create_vlan", "create_pool"} -> AcceptPlatform(r)
      [] r.cmd \in {"change_pool", "verify_pool"} -> SetPool(r)
      [] r.cmd = "delete_vpc" -> DeleteVPC(r)
      [] r.cmd = "delete_subnet" -> DeleteSubnet(r)
      [] r.cmd = "delete_eip" -> DeleteEIP(r)
      [] r.cmd = "delete_snat" -> DeleteSnat(r)
      [] r.cmd = "delete_load_balancer" -> DeleteLoadBalancer(r)
      [] r.cmd = "delete_platform" -> DeletePlatform(r)
      [] r.cmd = "confirm_attachment" -> lockAttachmentParents(r)
      [] r.cmd = "claim" -> claimResource(r)
      [] r.cmd = "claim_lb" -> claimLB(r)
      [] r.cmd = "work" -> lockedWork(r)
      [] r.cmd = "cancel_base" -> prepareBaseCleanup(r)
      [] r.cmd = "finish_platform" -> finishPlatform(r)
      [] r.cmd = "dispatch" -> acceptBaseBackfillCandidate(r)
      [] r.cmd = "set_new_vpcs" -> SetNewVPCBaseConnectivity
      [] r.cmd = "activate_legacy" -> ActivateLegacyBaseAggregation(r)

-----------------------------------------------------------------------------
(* Running a plan. *)

Running == {c \in Calls : call[c].st = "run"}
Next1(c) == Head(call[c].todo)
At(c, what) == c \in Running /\ Next1(c).do = what

Holders(row) == {c \in Running : row \in call[c].held}
FreeFor(c, row) == Holders(row) \subseteq {c}

\* The row a caller is about to lock, waiting when another holds it.
Wanted(c) ==
    IF At(c, "lock") THEN {Next1(c).row}
    ELSE IF At(c, "reserve") /\ Next1(c).tenant \notin namespaces
         THEN {<<"namespace", Next1(c).tenant>>}
         ELSE {}

Acceptances(key) == {a \in accepted : a.key = key}

Go(c, todo, held) ==
    call' = [call EXCEPT ![c].todo = todo, ![c].held = held]
Answer(c, reply) ==
    call' = [call EXCEPT ![c].st = "done", ![c].todo = <<>>, ![c].held = {}, ![c].reply = reply]

Unavailable == [res |-> "unavailable", id |-> 0]
Refused(why) == [res |-> why, id |-> 0]
Ok(id) == [res |-> "accepted", id |-> id]

\* A request arrives.  What it may rely on is remembered: the acceptance of its
\* key that was committed before it came.
KeyOf(r) == Last(Plan(r)).key
Arrive(c, r) ==
    /\ c \notin Running
    /\ calls < MaxCalls
    /\ calls' = calls + 1
    /\ call' = [call EXCEPT ![c] =
           [st |-> "run", req |-> r, todo |-> Plan(r), held |-> {},
            known |-> Acceptances(KeyOf(r)), reply |-> None]]
    /\ UNCHANGED <<accepted, namespaces, newVpcs, version, ready, lapsed, flips>>

TakeLock(c) ==
    /\ At(c, "lock")
    /\ FreeFor(c, Next1(c).row)
    /\ Go(c, Tail(call[c].todo), call[c].held \cup {Next1(c).row})
    /\ UNCHANGED <<accepted, namespaces, newVpcs, version, ready, lapsed, calls, flips>>

TryLock(c) ==
    /\ At(c, "try")
    /\ LET step == Next1(c)
           rest == Tail(call[c].todo) IN
       IF FreeFor(c, step.row)
       THEN Go(c, rest, call[c].held \cup {step.row})
       ELSE IF step.skip < Len(rest)
            THEN Go(c, SubSeq(rest, step.skip + 1, Len(rest)), call[c].held)
            ELSE Answer(c, Refused("nothing_due"))
    /\ UNCHANGED <<accepted, namespaces, newVpcs, version, ready, lapsed, calls, flips>>

EndSearch(c) ==
    /\ At(c, "found")
    /\ Go(c, <<Save>>, call[c].held)
    /\ UNCHANGED <<accepted, namespaces, newVpcs, version, ready, lapsed, calls, flips>>

Reserve(c) ==
    /\ At(c, "reserve")
    /\ \A row \in Wanted(c) : FreeFor(c, row)
    /\ Go(c, Tail(call[c].todo), call[c].held \cup Wanted(c))
    /\ UNCHANGED <<accepted, namespaces, newVpcs, version, ready, lapsed, calls, flips>>

\* An accepted key answers with the recorded snapshot; another intent under the
\* same key is a conflict.
ReplayAnswer(r, a) ==
    IF a.req.intent = r.intent THEN Ok(a.id) ELSE Refused("conflict")

LookUp(c) ==
    /\ At(c, "replay")
    /\ LET found == Acceptances(Next1(c).key) IN
       IF found = {}
       THEN Go(c, Tail(call[c].todo), call[c].held)
       ELSE \E a \in found : Answer(c, ReplayAnswer(call[c].req, a))
    /\ UNCHANGED <<accepted, namespaces, newVpcs, version, ready, lapsed, calls, flips>>

ReadRollout(c) ==
    /\ At(c, "rollout")
    /\ Go(c, (IF newVpcs THEN acceptBaseConnectivity(call[c].req) ELSE <<>>)
                 \o Tail(call[c].todo), call[c].held)
    /\ UNCHANGED <<accepted, namespaces, newVpcs, version, ready, lapsed, calls, flips>>

CheckFacts(c) ==
    /\ At(c, "check")
    /\ IF ready THEN Go(c, Tail(call[c].todo), call[c].held)
                ELSE Answer(c, Refused("not_ready"))
    /\ UNCHANGED <<accepted, namespaces, newVpcs, version, ready, lapsed, calls, flips>>

CheckWindow(c) ==
    /\ At(c, "window")
    /\ IF lapsed THEN Answer(c, Refused("expired"))
                 ELSE Go(c, Tail(call[c].todo), call[c].held)
    /\ UNCHANGED <<accepted, namespaces, newVpcs, version, ready, lapsed, calls, flips>>

CheckVersion(c) ==
    /\ At(c, "current")
    /\ IF version[Next1(c).row] = call[c].req.expected
       THEN Go(c, Tail(call[c].todo), call[c].held)
       ELSE Answer(c, Refused("version_conflict"))
    /\ UNCHANGED <<accepted, namespaces, newVpcs, version, ready, lapsed, calls, flips>>

\* The commit.  An acceptance of the same key makes the insert, and with it the
\* transaction, fail.  The connection may be lost after the commit: the caller
\* is then told that the database is unavailable although the row is there.
Commit(c) ==
    /\ At(c, "commit")
    /\ LET r == call[c].req
           key == Next1(c).key
           id == Cardinality(accepted) + 1 IN
       IF key # <<>> /\ Acceptances(key) # {}
       THEN /\ Answer(c, Unavailable)
            /\ UNCHANGED <<accepted, namespaces, newVpcs, version>>
       ELSE /\ accepted' =
                 IF r.key = None THEN accepted
                 ELSE accepted \cup {[key |-> key, req |-> r, id |-> id]}
            /\ namespaces' = namespaces \cup
                 {t \in {r.tenant} : <<"namespace", t>> \in call[c].held}
            /\ newVpcs' = IF r.cmd = "set_new_vpcs" THEN ~newVpcs ELSE newVpcs
            /\ version' = [x \in Updated |-> IF x = r.row THEN version[x] + 1 ELSE version[x]]
            /\ \E reply \in {Ok(IF r.key = None THEN 0 ELSE id), Unavailable} : Answer(c, reply)
    /\ UNCHANGED <<ready, lapsed, calls, flips>>

\* A crash, a cancelled call, a failed statement or a deadlock victim.
Abort(c) ==
    /\ c \in Running
    /\ Answer(c, Unavailable)
    /\ UNCHANGED <<accepted, namespaces, newVpcs, version, ready, lapsed, calls, flips>>

\* Observations age and return, parents come and go.
Flip ==
    /\ flips < MaxFlips
    /\ flips' = flips + 1
    /\ ready' = ~ready
    /\ UNCHANGED <<call, accepted, namespaces, newVpcs, version, lapsed, calls>>

\* The evidence of the verifications that are sent, and sent again, expires.
Lapse ==
    /\ ~lapsed /\ \E r \in Requests : r.cmd = "verify_pool"
    /\ flips < MaxFlips
    /\ flips' = flips + 1
    /\ lapsed' = TRUE
    /\ UNCHANGED <<call, accepted, namespaces, newVpcs, version, ready, calls>>

Step(c) ==
    \/ TakeLock(c) \/ TryLock(c) \/ EndSearch(c) \/ Reserve(c) \/ LookUp(c)
    \/ ReadRollout(c) \/ CheckFacts(c) \/ CheckWindow(c) \/ CheckVersion(c) \/ Commit(c)

Next ==
    \/ Flip \/ Lapse
    \/ \E c \in Calls : Step(c) \/ Abort(c) \/ \E r \in Requests : Arrive(c, r)

Spec == Init /\ [][Next]_vars
-----------------------------------------------------------------------------
(* Properties. *)

Done(c) == call[c].st = "done"

\* A key accepts at most one intent, whatever its repeats and concurrent
\* duplicates did and however many answers were lost.
OneAcceptancePerKey ==
    \A a, b \in accepted :
        (/\ a.req.key = b.req.key /\ a.req.cmd = b.req.cmd /\ a.req.tenant = b.req.tenant
         /\ a.req.instance = b.req.instance) => a = b

\* Every request that was told it was accepted was told of the acceptance of
\* its own intent under its own key: repeats and duplicates agree.
RepliesAgree ==
    \A c \in Calls :
        (Done(c) /\ call[c].reply.res = "accepted" /\ call[c].req.key # None) =>
            \E a \in accepted :
                /\ a.id = call[c].reply.id
                /\ a.key = KeyOf(call[c].req)
                /\ a.req.intent = call[c].req.intent

\* A repeat of an intent that was accepted before it arrived is answered with
\* that acceptance, or not at all: never with a refusal because the facts, the
\* parents or the versions have changed since.  The exception is the repeat of
\* a verification whose evidence has expired since: SetPool refuses it before
\* AcceptPlatform looks for the key.
AcceptedReplays ==
    \A c \in Calls : \A a \in call[c].known :
        (Done(c) /\ a.req.intent = call[c].req.intent) =>
            \/ call[c].reply \in {Ok(a.id), Unavailable}
            \/ call[c].req.cmd = "verify_pool" /\ lapsed /\ call[c].reply = Refused("expired")

\* The lookup under the key's lock finds every earlier acceptance, so that no
\* insert meets an existing key (it would surface as DEPENDENCY_UNAVAILABLE).
KeysNeverCollide ==
    \A c \in Calls : (At(c, "commit") /\ Next1(c) # Save) => Acceptances(Next1(c).key) = {}

\* Two accepted changes of a row were never based on the same version of it:
\* a change decided on what another one has replaced is refused.
NoLostUpdate ==
    \A a, b \in accepted : (a # b /\ a.req.row # None /\ a.req.row = b.req.row) =>
            a.req.expected # b.req.expected

\* The five above: an idempotency key stands for one intent, and a version for
\* one change.
KeySafety ==
    OneAcceptancePerKey /\ RepliesAgree /\ AcceptedReplays /\ KeysNeverCollide /\ NoLostUpdate

\* Transactions never wait for each other in a circle: the order in which the
\* rows are locked is the same in every one.
NoWaitCycle ==
    \A S \in (SUBSET Running) \ {{}} :
        \E c \in S : \A d \in S \ {c} : Wanted(c) \cap call[d].held = {}
=============================================================================
