-------------------------- MODULE AttachmentProtocol --------------------------
(***************************************************************************)
(* Attachments of one instance slot to one Subnet: Prepare, Confirm and    *)
(* Release by the instance owner, the attachment worker that observes Pods *)
(* and network interfaces, and the removal of the Subnet.                  *)
(*                                                                         *)
(* Four parties act on their own: the owner writes Pods and closes its     *)
(* submission; the cluster creates and removes interfaces; every process   *)
(* collects its own view of the cluster, from which its lanes finish steps *)
(* on the rows; the Subnet is removed when nothing holds it.               *)
(*                                                                         *)
(* The worker never writes to the cluster, so a step that loses its fences *)
(* has no effect at all: instead of the copy of the row that               *)
(* ClaimAttachment returned, a lane reads the row itself.  Its Finish only *)
(* succeeds while version and epoch match, when the two are the same.      *)
(*                                                                         *)
(* Watch hints, which only ask for newer collections, and the EIPs and     *)
(* VNicIPs that hold an attachment like an interface does, are left out.   *)
(***************************************************************************)
EXTENDS AttachmentStep

CONSTANTS
  Attachments, \* attachments that compete for one slot of one instance
  Workers,     \* worker lanes
  ProcessOf,   \* the process of a lane: its lanes share one observation
  WatchLag,    \* whether the Watch may deliver a change after it is needed
  OwnerErrs,   \* whether the owner may break its side of the protocol
  MaxFaults    \* bound on failures, the owner's errors included

ASSUME AttachmentAssumption ==
  /\ ProcessOf = [w \in Workers |-> ProcessOf[w]]
  /\ WatchLag \in BOOLEAN /\ OwnerErrs \in BOOLEAN /\ MaxFaults \in Nat

Processes == {ProcessOf[w] : w \in Workers}

VARIABLES
  subnet, \* state of the Subnet
  att,    \* network_attachments
  owner,  \* the owner's submission for each attachment
  pod,    \* the Pod of each attachment
  nics,   \* the owners of the interfaces that exist for it
  pc,     \* where each lane is in its step
  on,     \* the attachment the lane works on
  held,   \* which fences of its claim still match
  answer, \* what the owner answered
  prog,   \* what the lane will ask FinishAttachment to record
  list,   \* the collection a process has under way (Pods listed)
  view,   \* the last complete collection of a process
  faults

cluster  == <<pod, nics>>
laneVars == <<pc, on, answer, prog>>
audit    == <<list, view>>
vars     == <<subnet, att, owner, pod, nics, pc, on, held, answer, prog, list,
              view, faults>>

-----------------------------------------------------------------------------
SubnetStates == {"available", "deleting", "deleted"}
OwnerStates  == {"none", "open", "closing", "closed"}
PodStates    == {"none", "sent", "live", "gone"}

\* auditView.  gen: attachments whose requested generation it captured.
\* after: those whose last evidence was applied before it was started.
\* since: lanes that had the owner's answer when it was started.
\* clean: those of whose objects no change has been delivered since.
View == [pod : [Attachments -> 0..2], nics : [Attachments -> SUBSET Pods],
         torn : SUBSET Attachments, gen : SUBSET Attachments,
         after : SUBSET Attachments, since : SUBSET Workers,
         clean : SUBSET Attachments]

NoView == [pod |-> [a \in Attachments |-> 0], nics |-> [a \in Attachments |-> {}],
           torn |-> {}, gen |-> {}, after |-> {}, since |-> {}, clean |-> {}]

\* Where a lane is that is not in a step.
Nowhere == "nowhere"

NoAnswer == [state |-> "unavailable", pods |-> {}]

NoConclusion == Unchanged(NoAttachment)

Init ==
  /\ subnet = "available"
  /\ att    = [a \in Attachments |-> NoAttachment]
  /\ owner  = [a \in Attachments |-> "none"]
  /\ pod    = [a \in Attachments |-> [uid |-> 0, at |-> "none"]]
  /\ nics   = [a \in Attachments |-> {}]
  /\ pc     = [w \in Workers |-> "idle"]
  /\ on     = [w \in Workers |-> Nowhere]
  /\ held   = [w \in Workers |-> {}]
  /\ answer = [w \in Workers |-> NoAnswer]
  /\ prog   = [w \in Workers |-> NoConclusion]
  /\ list   = [p \in Processes |-> NoView]
  /\ view   = [p \in Processes |-> NoView]
  /\ faults = 0

Fault == faults < MaxFaults /\ faults' = faults + 1

\* CountAttachments and HasAttachmentSlot.
Occupying(a) == att[a].state \notin {"none", "released"} \/ att[a].blocked

Bump(a, fences) ==
  [w \in Workers |-> IF on[w] = a THEN held[w] \ fences ELSE held[w]]

\* The collections stop being clean, new enough or recent for x.
Drop(views, x, field) == [p \in Processes |-> [views[p] EXCEPT ![field] = @ \ {x}]]

\* A change of a's objects reaches the collections: at once without lag.
ChangeOf(a) ==
  IF WatchLag THEN UNCHANGED audit
              ELSE /\ list' = Drop(list, a, "clean")
                   /\ view' = Drop(view, a, "clean")

-----------------------------------------------------------------------------
(***************************************************************************)
(* The owner's calls.  Replays and refused calls change nothing; the owner *)
(* can always read the current version for expected_version.               *)
(***************************************************************************)
PrepareAttachment(a) ==
  /\ att[a].state = "none"
  /\ \A b \in Attachments : ~Occupying(b)
  /\ subnet = "available"
  /\ att'   = [att EXCEPT ![a].state = "reserved"]
  /\ owner' = [owner EXCEPT ![a] = "open"]
  /\ UNCHANGED <<subnet, cluster, laneVars, held, audit, faults>>

ConfirmAttachment(a) ==
  /\ pod[a].uid # 0
  /\ att[a].pod = 0 /\ att[a].state = "reserved"
  /\ att'  = [att EXCEPT ![a].pod = pod[a].uid, ![a].lease = FALSE]
  /\ held' = Bump(a, {"version"})
  /\ UNCHANGED <<subnet, owner, cluster, laneVars, audit, faults>>

ReleaseAttachment(a) ==
  /\ owner[a] \in {"closing", "closed"}
  /\ ~att[a].fin
  /\ att'  = [att EXCEPT ![a].state = "releasing", ![a].fin = TRUE,
                         ![a].lease = FALSE]
  /\ held' = Bump(a, {"version"})
  /\ UNCHANGED <<subnet, owner, cluster, laneVars, audit, faults>>

-----------------------------------------------------------------------------
(***************************************************************************)
(* The owner and the cluster.  A submission has one Pod; it is closed only *)
(* when every Pod that was sent is accounted for and gone.  Interfaces     *)
(* belong to their Pod and are collected after it.                         *)
(***************************************************************************)
PodIs(a, at) == pod[a].at = at

SendPod(a) ==
  /\ owner[a] = "open" /\ PodIs(a, "none")
  /\ pod' = [pod EXCEPT ![a].at = "sent"]
  /\ UNCHANGED <<subnet, att, owner, nics, laneVars, held, audit, faults>>

BeginClosing(a) ==
  /\ owner[a] = "open"
  /\ owner' = [owner EXCEPT ![a] = "closing"]
  /\ UNCHANGED <<subnet, att, cluster, laneVars, held, audit, faults>>

CloseSubmission(a) ==
  /\ owner[a] = "closing" /\ pod[a].at \in {"none", "gone"}
  /\ owner' = [owner EXCEPT ![a] = "closed"]
  /\ UNCHANGED <<subnet, att, cluster, laneVars, held, audit, faults>>

\* The Pod is created, or its creation is refused.
PodLands(a) ==
  /\ PodIs(a, "sent")
  /\ \/ pod' = [pod EXCEPT ![a] = [uid |-> 1, at |-> "live"]]
     \/ pod' = [pod EXCEPT ![a].at = "gone"]
  /\ ChangeOf(a)
  /\ UNCHANGED <<subnet, att, owner, nics, laneVars, held, faults>>

DeletePod(a) ==
  /\ PodIs(a, "live")
  /\ pod' = [pod EXCEPT ![a].at = "gone"]
  /\ ChangeOf(a)
  /\ UNCHANGED <<subnet, att, owner, nics, laneVars, held, faults>>

\* The owner, or a controller it failed to stop, creates another Pod after
\* the submission was closed.
LatePod(a) ==
  /\ OwnerErrs
  /\ owner[a] = "closed" /\ pod[a].at # "live" /\ pod[a].uid # 2
  /\ pod' = [pod EXCEPT ![a] = [uid |-> 2, at |-> "live"]]
  /\ ChangeOf(a) /\ Fault
  /\ UNCHANGED <<subnet, att, owner, nics, laneVars, held>>

NicCreated(a) ==
  /\ PodIs(a, "live") /\ pod[a].uid \notin nics[a] /\ subnet # "deleted"
  /\ nics' = [nics EXCEPT ![a] = @ \cup {pod[a].uid}]
  /\ ChangeOf(a)
  /\ UNCHANGED <<subnet, att, owner, pod, laneVars, held, faults>>

NicRemoved(a) ==
  /\ \E u \in nics[a] : /\ ~(PodIs(a, "live") /\ pod[a].uid = u)
                        /\ nics' = [nics EXCEPT ![a] = @ \ {u}]
  /\ ChangeOf(a)
  /\ UNCHANGED <<subnet, att, owner, pod, laneVars, held, faults>>

-----------------------------------------------------------------------------
(***************************************************************************)
(* The Subnet, as ResourceLifecycle has it: a removal is admitted when     *)
(* CountAttachments is 0 and completed when no interface is left.          *)
(***************************************************************************)
DeleteSubnet_IgnoresAttachments ==
  /\ subnet = "available"
  /\ subnet' = "deleting"
  /\ UNCHANGED <<att, owner, cluster, laneVars, held, audit, faults>>

DeleteSubnet ==
  /\ subnet = "available"
  /\ \A a \in Attachments : ~Occupying(a)
  /\ subnet' = "deleting"
  /\ UNCHANGED <<att, owner, cluster, laneVars, held, audit, faults>>

SubnetRemoved ==
  /\ subnet = "deleting"
  /\ \A a \in Attachments : ~Occupying(a) /\ nics[a] = {}
  /\ subnet' = "deleted"
  /\ UNCHANGED <<att, owner, cluster, laneVars, held, audit, faults>>

-----------------------------------------------------------------------------
(***************************************************************************)
(* A process collects: Pods first, then interfaces (collect).  The proof   *)
(* it may give is fixed when it starts.                                    *)
(***************************************************************************)
LivePod(a) == IF PodIs(a, "live") THEN pod[a].uid ELSE 0

\* A Pod that has an interface names it in its annotations.
ListPods(p) ==
  /\ list[p] = NoView
  /\ list' = [list EXCEPT ![p] =
       [pod   |-> [a \in Attachments |-> LivePod(a)],
        nics  |-> [a \in Attachments |-> {}],
        torn  |-> {a \in Attachments : LivePod(a) \in nics[a]},
        gen   |-> {a \in Attachments : att[a].state # "none"},
        after |-> Attachments,
        since |-> {w \in Workers : pc[w] = "asked"},
        clean |-> Attachments]]
  /\ UNCHANGED <<subnet, att, owner, cluster, laneVars, held, view, faults>>

ListRelations(p) ==
  /\ list[p] # NoView
  /\ view' = [view EXCEPT ![p] =
       [list[p] EXCEPT !.nics = nics,
                       !.torn = {a \in @ : list[p].pod[a] \notin nics[a]}]]
  /\ list' = [list EXCEPT ![p] = NoView]
  /\ UNCHANGED <<subnet, att, owner, cluster, laneVars, held, faults>>

CollectionFails(p) ==
  /\ list[p] # NoView
  /\ list' = [list EXCEPT ![p] = NoView]
  /\ Fault
  /\ UNCHANGED <<subnet, att, owner, cluster, laneVars, held, view>>

-----------------------------------------------------------------------------
(***************************************************************************)
(* A lane's step.                                                          *)
(***************************************************************************)
StepEnds(w) ==
  /\ pc'     = [pc EXCEPT ![w] = "idle"]
  /\ answer' = [answer EXCEPT ![w] = NoAnswer]
  /\ prog'   = [prog EXCEPT ![w] = NoConclusion]
  /\ on'     = [on EXCEPT ![w] = Nowhere]

ClaimAttachment_SkipsReleased(w, a) ==
  /\ pc[w] = "idle"
  /\ att[a].state \notin {"none", "released"} /\ ~att[a].lease
  /\ att'  = [att EXCEPT ![a].lease = TRUE]
  /\ held' = [Bump(a, {"epoch"}) EXCEPT ![w] = {"version", "epoch"}]
  /\ on'   = [on EXCEPT ![w] = a]
  /\ pc'   = [pc EXCEPT ![w] = "claimed"]
  /\ UNCHANGED <<subnet, owner, cluster, answer, prog, audit, faults>>

ClaimAttachment(w, a) ==
  /\ pc[w] = "idle"
  /\ att[a].state # "none" /\ ~att[a].lease
  /\ att'  = [att EXCEPT ![a].lease = TRUE]
  /\ held' = [Bump(a, {"epoch"}) EXCEPT ![w] = {"version", "epoch"}]
  /\ on'   = [on EXCEPT ![w] = a]
  /\ pc'   = [pc EXCEPT ![w] = "claimed"]
  /\ UNCHANGED <<subnet, owner, cluster, answer, prog, audit, faults>>

Learn(w, c) ==
  /\ answer' = [answer EXCEPT ![w] = c]
  /\ pc'     = [pc EXCEPT ![w] = "asked"]
  /\ UNCHANGED <<subnet, att, owner, cluster, on, held, prog, audit>>

\* The owner reports its state and the Pod it knows to have been created.
GetSubmission(w) ==
  LET a == on[w]
  IN /\ pc[w] = "claimed"
     /\ \/ /\ Learn(w, [state |-> owner[a], pods |-> {pod[a].uid} \cap {1}])
           /\ UNCHANGED faults
        \/ /\ Learn(w, NoAnswer)
           /\ Fault
        \/ /\ OwnerErrs
           /\ Learn(w, [state |-> "invalid", pods |-> {}])
           /\ Fault

Conclude(w, p) ==
  /\ prog'   = [prog EXCEPT ![w] = p]
  /\ pc'     = [pc EXCEPT ![w] = "finish"]
  /\ answer' = [answer EXCEPT ![w] = NoAnswer]
  /\ list'   = Drop(list, w, "since")
  /\ view'   = Drop(view, w, "since")
  /\ UNCHANGED <<subnet, att, owner, cluster, on, held>>

Snapshot(w) == view[ProcessOf[w]]

Seen(w, a) == [pod  |-> Snapshot(w).pod[a], nics |-> Snapshot(w).nics[a],
               torn |-> a \in Snapshot(w).torn]

\* ObservationProof.Covers: the generation, and a collection started after
\* the last evidence was applied unless it shows the same.
Covers(w, a) ==
  /\ a \in Snapshot(w).gen
  /\ \/ a \in Snapshot(w).after
     \/ Digest(att[a], answer[w], Seen(w, a)) \in att[a].evidence

\* KCObservation.valid: no change of the attachment's objects is known.
Valid(w, a) == WatchLag \/ a \in Snapshot(w).clean

\* ObserveAttachment: until the view is new enough, covers the requirement
\* and no change of it is known, the lane waits for the next collection.
ObserveAttachment(w) ==
  LET a == on[w]
  IN /\ pc[w] = "asked"
     /\ NeedsFresh(att[a], answer[w]) => w \in Snapshot(w).since
     /\ Covers(w, a)
     /\ Valid(w, a)
     /\ Conclude(w, Concluded(att[a], answer[w], Seen(w, a)))
     /\ UNCHANGED faults

ObserveAttachmentFails(w) ==
  /\ pc[w] = "asked"
  /\ Conclude(w, Unchanged(att[on[w]]))
  /\ Fault

\* The fence of FinishAttachment.
Accepted(w) ==
  /\ held[w] = {"version", "epoch"} /\ att[on[w]].lease
  /\ MayFinishAttachment(att[on[w]], prog[w])

FinishAttachment(w) ==
  LET a == on[w]
  IN /\ pc[w] = "finish"
     /\ \/ /\ Accepted(w)
           /\ att'  = [att EXCEPT ![a] = FinishedAttachment(@, prog[w])]
           /\ held' = [Bump(a, {"version"}) EXCEPT ![w] = {}]
           /\ IF prog[w].evidence = {}
                THEN UNCHANGED audit
                ELSE /\ list' = Drop(list, a, "after")
                     /\ view' = Drop(view, a, "after")
        \/ /\ ~Accepted(w)
           /\ held' = [held EXCEPT ![w] = {}]
           /\ UNCHANGED <<att, audit>>
     /\ StepEnds(w)
     /\ UNCHANGED <<subnet, owner, cluster, faults>>

\* The process ends: the steps of its lanes and its collections are lost.
Crash(p) ==
  LET Lost(f, none) == [w \in Workers |-> IF ProcessOf[w] = p THEN none ELSE f[w]]
  IN /\ \E w \in Workers : ProcessOf[w] = p /\ pc[w] # "idle"
     /\ pc'     = Lost(pc, "idle")
     /\ on'     = Lost(on, Nowhere)
     /\ held'   = Lost(held, {})
     /\ answer' = Lost(answer, NoAnswer)
     /\ prog'   = Lost(prog, NoConclusion)
     /\ list'   = [list EXCEPT ![p] = NoView]
     /\ view'   = [view EXCEPT ![p] = NoView]
     /\ Fault
     /\ UNCHANGED <<subnet, att, owner, cluster>>

\* lease_until has passed: the row is due again and Finish is refused.
LeaseExpires(a) ==
  /\ att[a].lease
  /\ att' = [att EXCEPT ![a].lease = FALSE]
  /\ IF \E w \in Workers : on[w] = a /\ "epoch" \in held[w]
       THEN Fault
       ELSE UNCHANGED faults
  /\ UNCHANGED <<subnet, owner, cluster, laneVars, held, audit>>

-----------------------------------------------------------------------------
ClusterStep(a) ==
  PodLands(a) \/ DeletePod(a) \/ LatePod(a) \/ NicCreated(a) \/ NicRemoved(a)

LaneStep(w) ==
  \/ \E a \in Attachments : ClaimAttachment(w, a)
  \/ GetSubmission(w) \/ ObserveAttachment(w) \/ ObserveAttachmentFails(w)
  \/ FinishAttachment(w)

ProcessStep(p) ==
  ListPods(p) \/ ListRelations(p) \/ CollectionFails(p) \/ Crash(p)

Next ==
  \/ \E a \in Attachments :
       \/ PrepareAttachment(a) \/ ConfirmAttachment(a) \/ ReleaseAttachment(a)
       \/ SendPod(a) \/ BeginClosing(a) \/ CloseSubmission(a)
       \/ ClusterStep(a) \/ LeaseExpires(a)
  \/ DeleteSubnet \/ SubnetRemoved
  \/ \E w \in Workers : LaneStep(w)
  \/ \E p \in Processes : ProcessStep(p)

Spec == Init /\ [][Next]_vars

(***************************************************************************)
(* Fairness.  runLane keeps stepping and every call of a step has a        *)
(* timeout; the audit keeps collecting; the claim query orders by          *)
(* next_run_at, so a due attachment is not passed over for ever; expiry is *)
(* time; the owner finishes what it closes and the cluster what it removes.*)
(***************************************************************************)
Fairness ==
  /\ \A w \in Workers :
       /\ WF_vars(GetSubmission(w)) /\ WF_vars(FinishAttachment(w))
       /\ WF_vars(ObserveAttachment(w))
       /\ \A a \in Attachments : SF_vars(ClaimAttachment(w, a))
  /\ \A p \in Processes : WF_vars(ListPods(p)) /\ WF_vars(ListRelations(p))
  /\ \A a \in Attachments :
       /\ WF_vars(LeaseExpires(a)) /\ WF_vars(CloseSubmission(a))
       /\ WF_vars(PodLands(a)) /\ WF_vars(NicRemoved(a))
       /\ WF_vars(owner[a] = "closing" /\ DeletePod(a))

LiveSpec == Spec /\ Fairness

-----------------------------------------------------------------------------
(***************************************************************************)
(* Properties.                                                             *)
(***************************************************************************)
\* The rows, views and conclusions keep the shapes that the queries and the
\* worker exchange.
TypeOK ==
  /\ subnet \in SubnetStates
  /\ att    \in [Attachments -> AttachmentRow]
  /\ owner  \in [Attachments -> OwnerStates]
  /\ pod    \in [Attachments -> [uid : 0..2, at : PodStates]]
  /\ nics   \in [Attachments -> SUBSET Pods]
  /\ pc     \in [Workers -> {"idle", "claimed", "asked", "finish"}]
  /\ on     \in [Workers -> Attachments \cup {Nowhere}]
  /\ held   \in [Workers -> SUBSET {"version", "epoch"}]
  /\ answer \in [Workers -> Submission]
  /\ prog   \in [Workers -> AttachmentProgress]
  /\ list   \in [Processes -> View]
  /\ view   \in [Processes -> View]
  /\ faults \in 0..MaxFaults

\* What the owner sent and closed is out of the network: its one Pod.
InUse(a) ==
  \/ PodIs(a, "sent")
  \/ PodIs(a, "live") /\ pod[a].uid = 1
  \/ 1 \in nics[a]

\* AttachmentWorker.Step releases an attachment only when the Pod its owner
\* accounts for and every interface of that Pod are gone, although the
\* objects are listed one kind after the other, by a collection the Watch may
\* be behind, and applied by whichever lane still holds the row.
ReleasedMeansGone == \A a \in Attachments : att[a].state = "released" => ~InUse(a)

\* HasAttachmentSlot: an instance slot is handed to the next attachment only
\* when nothing of the previous one can still use the network.
SlotExclusive ==
  \A a, b \in Attachments : a # b => ~InUse(a) \/ ~InUse(b)

\* DeleteSubnet: once its removal is admitted, no Pod of the Subnet runs, is
\* on its way or has an interface, and none appears later.
RemovalFindsNothing == subnet # "available" => \A a \in Attachments : ~InUse(a)

\* FinishAttachment, ConfirmAttachment and ReleaseAttachment, in any order and
\* from any lane, never revive a released attachment, exchange the recorded
\* Pod, forget a witnessed interface or lift a protocol block.
AttachmentHistory ==
  [][\A a \in Attachments :
       /\ att[a].state # "none" => att'[a].state \in Later(att[a].state)
       /\ att[a].pod # 0 => att'[a].pod = att[a].pod
       /\ att[a].rel \subseteq att'[a].rel
       /\ att[a].blocked => att'[a].blocked
       /\ att[a].fin => att'[a].fin]_vars

\* AttachmentWorker goes on observing through failed calls and crashes: a
\* submission that the owner is closing is released or, after an alarm, left
\* to an operator; never waiting for ever.
ReleaseEnds ==
  \A a \in Attachments :
    owner[a] = "closing" ~> att[a].state = "released" \/ att[a].blocked

\* A Pod that appears after its attachment was released is noticed: the worker
\* keeps observing released attachments and blocks the slot and the Subnet.
LatePodIsNoticed ==
  \A a \in Attachments :
    att[a].state = "released" /\ PodIs(a, "live")
      ~> att[a].blocked \/ ~PodIs(a, "live")
=============================================================================
