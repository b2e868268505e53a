--------------------------- MODULE DeviceAdoption ---------------------------
(***************************************************************************)
(* Adopting a physical device on every node.  All adoptions share one      *)
(* ConfigMap, kcn-config: its managedDevices, which the provider's agents  *)
(* bring into their bridges on every node, and one annotation per adopted  *)
(* device.  An adoption is accepted on a fingerprint of everything the     *)
(* nodes have published; a lane looks again and writes both fields with    *)
(* one PATCH that tests the UID and the revision.  A device name is        *)
(* adopted once and for all, so a device stands for its adoption: its row  *)
(* is the adoption's, and                                                  *)
(*                                                                         *)
(*   obj[d]   the annotation of d: "live" once it names d's binding        *)
(*   made[d]  the UID of the ConfigMap on which it was written             *)
(*                                                                         *)
(* How a node's facts are published and kept is in NodeFacts; here a node  *)
(* publishes at once.  VLANs on a device are in Platform.                  *)
(***************************************************************************)
EXTENDS EgressLane, FiniteSets

CONSTANTS
  Nodes,    \* node UIDs
  Joining,  \* the nodes that join later
  Prepared  \* the devices the installer has configured before

ASSUME AdoptionAssumption ==
  /\ Joining \subseteq Nodes /\ Joining # Nodes
  /\ Prepared \subseteq Resources

Devices == Resources

VARIABLES
  cfg,       \* kcn-config: UID, revision and managedDevices
  accepted,  \* network_device_adoptions: what the adoption was accepted on
  served,    \* the nodes on which a device has ever been in kc's bridge
  present,   \* the nodes of the cluster
  devLink,   \* devLink[n][d]: what the device is to the node
  facts,     \* the published document of every node, and whether it is fresh
  silent,    \* the nodes whose collector has stopped
  patches    \* the content of the PATCHes under way

deviceVars == <<cfg, present, devLink, facts, silent, accepted, patches, served>>
adoptionVars == <<coreVars, deviceVars>>

NoFacts == [seen |-> [d \in Devices |-> "busy"], fresh |-> FALSE, some |-> FALSE]
NotAccepted == [print |-> {}, nodes |-> {}, prepared |-> FALSE, uid |-> 0]

AdoptionInit ==
  /\ CoreInit
  /\ cfg      = [uid |-> 1, rv |-> 1, devices |-> Prepared]
  /\ present  = Nodes \ Joining
  /\ devLink  = [n \in Nodes |-> [d \in Devices |->
                   IF d \in Prepared THEN "wired" ELSE "free"]]
  /\ facts    = [n \in Nodes |-> NoFacts]
  /\ silent   = {}
  /\ accepted = [d \in Devices |-> NotAccepted]
  /\ patches  = {}
  /\ served   = [d \in Devices |-> IF d \in Prepared THEN Nodes ELSE {}]

-----------------------------------------------------------------------------
(***************************************************************************)
(* The inventory: the published documents joined with the nodes' reports,  *)
(* the configured devices and the annotations.                             *)
(***************************************************************************)
Marked == {d \in Devices : obj[d] = "live"}

Item(n, d) ==
  [node |-> n, device |-> d, fact |-> facts[n].seen[d], fresh |-> facts[n].fresh,
   managed |-> devLink[n][d] = "wired", configured |-> d \in cfg.devices,
   uid |-> cfg.uid, owned |-> d \in Marked]

\* A node without a valid document has one item that names no device.
Inventory ==
  {Item(n, d) : n \in {m \in present : facts[m].some}, d \in Devices}
    \cup {[node |-> n] : n \in {m \in present : ~facts[m].some}}

\* contentHash of the items, without the time of the collection; that a
\* document is too old is one of the reasons an item gives, so it counts.
Fingerprint == Inventory

FullyWired(i) == i.managed /\ i.configured /\ i.fact = "wired"

\* FilterNodeInterfaces.
Selectable(i) ==
  /\ i.fresh /\ i.fact # "busy" /\ ~i.owned
  /\ i.fact = "wired" \/ i.managed \/ i.configured => FullyWired(i)

ItemsOf(d) == {Item(n, d) : n \in {m \in present : facts[m].some}}

\* The device is selectable on every node there is.
Covers(d) ==
  /\ present # {} /\ {i.node : i \in ItemsOf(d)} = present
  /\ \A i \in ItemsOf(d) : Selectable(i)

\* AcceptPlatform, adopt_device, with the fingerprint just listed.
Accept(d) ==
  /\ row[d].state = "none" /\ Covers(d)
  /\ row' = [row EXCEPT ![d] = AcceptedEgress]
  /\ accepted' = [accepted EXCEPT ![d] =
       [print |-> Fingerprint, nodes |-> present,
        prepared |-> d \in cfg.devices, uid |-> cfg.uid]]
  /\ UNCHANGED <<lane, kcVars, faults, cfg, present, devLink, facts, silent,
                 patches, served>>

-----------------------------------------------------------------------------
(***************************************************************************)
(* The observation.                                                        *)
(***************************************************************************)
\* The configuration is not the accepted one: another ConfigMap, a device
\* configured by somebody else, a prepared one taken out.
Foreign(d, known) ==
  \/ known # 0 /\ known # cfg.uid
  \/ accepted[d].uid # cfg.uid
  \/ obj[d] = "absent" /\ d \in cfg.devices /\ ~accepted[d].prepared
  \/ accepted[d].prepared /\ d \notin cfg.devices

\* Every accepted node, and no other, shows the device in kc's bridge.
Wiring(d) ==
  /\ present = accepted[d].nodes
  /\ {i.node : i \in ItemsOf(d)} = accepted[d].nodes
  /\ \A i \in ItemsOf(d) : FullyWired(i) /\ i.fresh

Seen(d) ==
  [exists |-> obj[d] = "live", uid |-> IF obj[d] = "live" THEN cfg.uid ELSE 0,
   ready |-> Wiring(d) /\ obj[d] = "live" /\ d \in cfg.devices,
   deps |-> FALSE, needs |-> FALSE, applied |-> "unknown"]

-----------------------------------------------------------------------------
(***************************************************************************)
(* The lane's step.                                                        *)
(***************************************************************************)
Claim(w, d) ==
  /\ Claimable(w, d)
  /\ row'  = [row EXCEPT ![d] = AcquireLease(@)]
  /\ lane' = Taken(lane, w, d, FALSE, FALSE)
  /\ UNCHANGED <<kcVars, faults, deviceVars>>

Observe(w) ==
  LET d == Res(w)
  IN /\ lane[w].at = "claimed"
     /\ IF Foreign(d, lane[w].work.uid)
          THEN ObserveFails(w, "conflict")
          ELSE Decide(w, Seen(d))
     /\ UNCHANGED <<faults, deviceVars>>

Begin(w) == BeginMutation(w, FALSE) /\ UNCHANGED deviceVars

\* The first half of ensureDevice: observe again, and list the inventory.
Inspect(w) ==
  LET d == Res(w)
      k == lane[w].work
      p == lane[w].prog
  IN /\ lane[w].at = "check"
     /\ IF Foreign(d, k.uid)
          THEN Answered(w, CreateFailed(k, p, "conflict"), "unknown")
        ELSE IF obj[d] = "live"
          THEN Answered(w, CreateSucceeded(k, p, cfg.uid, Seen(d).ready), "unknown")
        ELSE IF k.uid # 0 \/ Fingerprint # accepted[d].print
                \/ \E i \in ItemsOf(d) : ~Selectable(i)
          THEN Answered(w, CreateFailed(k, p, "conflict"), "unknown")
        ELSE IF ~Covers(d)
          THEN Answered(w, CreateFailed(k, p, "temporary"), "unknown")
        ELSE /\ lane' = [lane EXCEPT ![w].at = "inspected"]
             /\ UNCHANGED <<row, kcVars, faults>>
     /\ UNCHANGED deviceVars

Accords(d) ==
  /\ cfg.uid = accepted[d].uid
  /\ (d \in cfg.devices <=> accepted[d].prepared) /\ obj[d] = "absent"

MarksWith_OwnOnly(d) == {d}

\* The annotations the PATCH writes: those just read, and its own.
MarksWith(d) == Marked \cup {d}

\* The second half: read kcn-config once more and PATCH it.  The PATCH holds
\* the whole list of devices and the whole map of annotations.
Write(w) ==
  LET d == Res(w)
  IN /\ lane[w].at = "inspected"
     /\ IF ~Accords(d)
          THEN /\ Answered(w, CreateFailed(lane[w].work, lane[w].prog, "conflict"),
                           "unknown")
               /\ UNCHANGED patches
          ELSE /\ Send(w, cfg.uid, cfg.rv)
               /\ patches' = patches \cup
                    {[from |-> w, res |-> d, uid |-> cfg.uid, rv |-> cfg.rv,
                      marks |-> MarksWith(d), devices |-> cfg.devices \cup {d}]}
     /\ UNCHANGED <<cfg, present, devLink, facts, silent, accepted, served>>

\* finishPlatform.
Finish(w) ==
  /\ lane[w].at = "finish" /\ Accepts(w)
  /\ row'  = Finished(row, w, lane[w].prog)
  /\ lane' = Released(lane, w)
  /\ UNCHANGED <<kcVars, faults, deviceVars>>

-----------------------------------------------------------------------------
(***************************************************************************)
(* The API server, the agents, the nodes and the operators.                *)
(***************************************************************************)
ContentOf(q) ==
  CHOOSE c \in patches : c.from = q.from /\ c.res = q.res /\ c.rv = q.rv /\ c.uid = q.uid

Forget(q) == patches' = patches \ {ContentOf(q)}

Matches(q) == q.uid = cfg.uid /\ q.rv = cfg.rv

\* The tests pass: both fields are replaced and observed again.  Not adding
\* a prepared device leaves managedDevices as it is.
Patch(q) ==
  LET c == ContentOf(q)
  IN /\ Matches(q)
     /\ obj'  = [d \in Devices |-> IF d \in c.marks THEN "live" ELSE "absent"]
     /\ made' = [made EXCEPT ![q.res] = cfg.uid]
     /\ cfg'  = [cfg EXCEPT !.rv = @ + 1,
                            !.devices = IF accepted[q.res].prepared THEN @ ELSE c.devices]
     /\ Answer(q, CreateSucceeded(lane[q.from].work, lane[q.from].prog, cfg.uid,
                    Wiring(q.res)), "unknown")
     /\ Forget(q)
     /\ UNCHANGED <<faults, present, devLink, facts, silent, accepted, served>>

\* A test fails, which is reported as a conflict or as an invalid request.
TestFails(q) ==
  /\ ~Matches(q)
  /\ \E kind \in {"conflict", "reject"} : Answer(q, CallFailed(q.from, kind), "unknown")
  /\ Forget(q)
  /\ UNCHANGED <<obj, made, faults, cfg, present, devLink, facts, silent, accepted, served>>

PatchFails(q) ==
  /\ Refuse(q) \/ Lose(q)
  /\ Forget(q)
  /\ UNCHANGED <<cfg, present, devLink, facts, silent, accepted, served>>

\* A node's agent brings a configured device into its bridge.
Wire(n, d) ==
  /\ n \in present /\ d \in cfg.devices /\ devLink[n][d] = "free"
  /\ devLink'   = [devLink EXCEPT ![n][d] = "wired"]
  /\ served' = [served EXCEPT ![d] = @ \cup {n}]
  /\ UNCHANGED <<coreVars, cfg, present, facts, silent, accepted, patches>>

\* Somebody puts the device to another use, or it loses its devLink.
Occupy(n, d) ==
  /\ devLink[n][d] # "busy"
  /\ devLink' = [devLink EXCEPT ![n][d] = "busy"]
  /\ Fault
  /\ UNCHANGED <<dbVars, kcVars, cfg, present, facts, silent, accepted, patches, served>>

\* RunNodeFactsCollector: one round of collecting and publishing.
Publish(n) ==
  /\ n \in present /\ n \notin silent
  /\ facts' = [facts EXCEPT ![n] = [seen |-> devLink[n], fresh |-> TRUE, some |-> TRUE]]
  /\ UNCHANGED <<coreVars, cfg, present, devLink, silent, accepted, patches, served>>

Stop(n) ==
  /\ n \in present \ silent
  /\ silent' = silent \cup {n}
  /\ Fault
  /\ UNCHANGED <<dbVars, kcVars, cfg, present, devLink, facts, accepted, patches, served>>

\* A minute without a new document.
FactsAge(n) ==
  /\ n \in silent /\ facts[n].fresh
  /\ facts' = [facts EXCEPT ![n].fresh = FALSE]
  /\ UNCHANGED <<coreVars, cfg, present, devLink, silent, accepted, patches, served>>

Join(n) ==
  /\ n \in Joining \ present
  /\ present' = present \cup {n}
  /\ UNCHANGED <<coreVars, cfg, devLink, facts, silent, accepted, patches, served>>

\* An operator edits managedDevices, or replaces the ConfigMap.
Edit(d) ==
  /\ cfg' = [cfg EXCEPT !.rv = @ + 1,
               !.devices = IF d \in @ THEN @ \ {d} ELSE @ \cup {d}]
  /\ Fault
  /\ UNCHANGED <<dbVars, kcVars, present, devLink, facts, silent, accepted, patches, served>>

Replace ==
  /\ cfg' = [cfg EXCEPT !.uid = @ + 1, !.rv = @ + 1]
  /\ obj' = [d \in Devices |-> "absent"]
  /\ Fault
  /\ UNCHANGED <<dbVars, net, made, present, devLink, facts, silent, accepted,
                 patches, served>>

-----------------------------------------------------------------------------
LaneStep(w) ==
  \/ \E d \in Devices : Claim(w, d)
  \/ Observe(w) \/ Begin(w) \/ Inspect(w) \/ Write(w) \/ Finish(w)
  \/ /\ LeaseLost(w) \/ CheckFails(w) \/ CallTimesOut(w) \/ Crash(w)
     /\ UNCHANGED deviceVars

ProviderStep ==
  \/ \E q \in net : Patch(q) \/ TestFails(q) \/ PatchFails(q)
  \/ \E n \in Nodes : Publish(n) \/ Stop(n) \/ FactsAge(n) \/ Join(n)
  \/ \E n \in Nodes, d \in Devices : Wire(n, d) \/ Occupy(n, d)
  \/ \E d \in Devices : Edit(d)
  \/ Replace

TimeStep ==
  /\ \E d \in Devices : LeaseExpires(d) \/ ObservationAges(d)
  /\ UNCHANGED deviceVars

AdoptionNext ==
  \/ \E d \in Devices : Accept(d)
  \/ \E w \in Workers : LaneStep(w)
  \/ ProviderStep \/ TimeStep

AdoptionSpec == AdoptionInit /\ [][AdoptionNext]_adoptionVars

-----------------------------------------------------------------------------
(***************************************************************************)
(* Properties.                                                             *)
(***************************************************************************)
\* A registration that was written on kcn-config stays there for as long as
\* that ConfigMap does: no other adoption's PATCH, early or late, takes its
\* annotation away (the resourceVersion test of ensureDevice).
RegistrationsAreKept == \A d \in Devices : made[d] = cfg.uid => obj[d] = "live"

\* A device is only ever registered on the ConfigMap its adoption was accepted
\* on, although the ConfigMap may be replaced at any moment before the PATCH.
RegisteredWhereAccepted ==
  \A d \in Devices : obj[d] = "live" => accepted[d].uid = cfg.uid

\* An adoption that is available has been in kc's bridge on every node it was
\* accepted for (observeDevice waits for the last node).
AvailableWasWired ==
  \A d \in Devices : row[d].state = "available" => accepted[d].nodes \subseteq served[d]

\* The three together.
DeviceSafety == RegistrationsAreKept /\ RegisteredWhereAccepted /\ AvailableWasWired
=============================================================================
