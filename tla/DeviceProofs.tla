---------------------------- MODULE DeviceProofs ----------------------------
(***************************************************************************)
(* The adoption of devices, and the node facts it stands on.               *)
(*                                                                         *)
(* The adoption of devices, for any devices, nodes, lanes, edits of        *)
(* kcn-config and failures (DeviceSafety): a registration stays as long as *)
(* the ConfigMap it was written on, is only written on the one it was      *)
(* accepted on, and an available device was wired on every accepted node.  *)
(*                                                                         *)
(* DeviceInv adds why:                                                     *)
(*   - a PATCH whose revision is still the current one carries every       *)
(*     registration there is, since each change of kcn-config moves the    *)
(*     revision on (PatchGood), and every request has its content          *)
(*     (Contents);                                                         *)
(*   - what a lane means to record as available was seen wired after the   *)
(*     acceptance, and acceptance and service are never taken back         *)
(*     (LaneGood, Standing).                                               *)
(***************************************************************************)
EXTENDS NodeFacts, DeviceAdoption, TLAPS

-----------------------------------------------------------------------------
(* The inductive invariant. *)

RowFields  == {"state", "op", "uid", "pending", "lease", "fresh", "sent", "told",
               "retired", "kind", "desired", "applied"}
LaneFields == {"at", "call", "cancel", "heard", "held", "facts", "work", "prog"}

WasWired(d) == accepted[d].nodes \subseteq served[d]

\* A state that row, claim or conclusion may give an accepted adoption.
Standing(d, state) ==
  state \notin {"none", "deleting", "deleted"} /\ (state = "available" => WasWired(d))

RowGood(d, k) ==
  /\ DOMAIN k = RowFields /\ k.desired = TRUE
  /\ k.state # "none" => Standing(d, k.state)

Calling == {"begin", "check", "inspected", "sent"}

LaneGood(l) ==
  /\ DOMAIN l = LaneFields /\ l.work.res \in Devices
  /\ l.at # "idle" =>
       /\ row[l.work.res].state # "none" /\ l.work.desired = TRUE
       /\ "state" \in DOMAIN l.prog
       /\ Standing(l.work.res, l.work.state) /\ Standing(l.work.res, l.prog.state)
  /\ l.at \in Calling => l.call = "create"

DbHalf ==
  /\ DOMAIN row = Devices /\ DOMAIN lane = Workers /\ DOMAIN accepted = Devices
  /\ \A d \in Devices : RowGood(d, row[d])
  /\ \A w \in Workers : LaneGood(lane[w])

AdoptionRequest == [from : Workers, kind : {"create"}, res : Devices, uid : Nat, rv : Nat,
                    enable : {TRUE}]
PatchRecord     == [from : Workers, res : Devices, uid : Nat, rv : Nat,
                    marks : SUBSET Devices, devices : SUBSET Devices]

CfgTypes ==
  /\ cfg \in [uid : Nat, rv : Nat, devices : SUBSET Devices]
  /\ obj \in [Devices -> {"absent", "live"}] /\ made \in [Devices -> Nat]
  /\ net \subseteq AdoptionRequest /\ patches \subseteq PatchRecord

Registered(d) ==
  /\ made[d] <= cfg.uid /\ (made[d] = cfg.uid => obj[d] = "live")
  /\ obj[d] = "live" => row[d].state # "none" /\ accepted[d].uid = cfg.uid

PatchGood(c) ==
  /\ c.rv <= cfg.rv /\ c.res \in c.marks
  /\ \A d \in c.marks : row[d].state # "none"
  /\ c.rv = cfg.rv /\ c.uid = cfg.uid =>
       /\ \A d \in Devices : obj[d] = "live" => d \in c.marks
       /\ \A d \in c.marks : accepted[d].uid = cfg.uid

ContentFor(c, q) == c.from = q.from /\ c.res = q.res /\ c.rv = q.rv /\ c.uid = q.uid

CfgHalf ==
  /\ CfgTypes /\ cfg.uid # 0
  /\ \A d \in Devices : Registered(d)
  /\ \A c \in patches : PatchGood(c)
  /\ \A q \in net : \E c \in patches : ContentFor(c, q)

NodeHalf ==
  /\ devLink \in [Nodes -> [Devices -> {"free", "wired", "busy"}]]
  /\ served \in [Devices -> SUBSET Nodes] /\ present \subseteq Nodes
  /\ \A n \in Nodes, d \in Devices : devLink[n][d] = "wired" => n \in served[d]

DeviceInv == DbHalf /\ CfgHalf /\ NodeHalf

-----------------------------------------------------------------------------
(***************************************************************************)
(* What only grows: adoptions are accepted once, and service is history.   *)
(***************************************************************************)
Forward ==
  /\ DOMAIN accepted' = Devices
  /\ \A d \in Devices :
       /\ row[d].state # "none" => row'[d].state # "none" /\ accepted'[d] = accepted[d]
       /\ served[d] \subseteq served'[d]

LEMMA StandingForward ==
  ASSUME Forward, NEW d \in Devices, row[d].state # "none", NEW s, Standing(d, s)
  PROVE  Standing(d, s)'
  BY DEF Forward, Standing, WasWired

LEMMA LaneForward ==
  ASSUME Forward, NEW l, LaneGood(l)
  PROVE  LaneGood(l)'
<1>1. CASE l.at = "idle"
  BY <1>1 DEF LaneGood
<1>2. CASE l.at # "idle"
  <2>1. PICK d \in Devices : d = l.work.res
    BY DEF LaneGood
  <2>2. /\ row[d].state # "none" /\ Standing(d, l.work.state) /\ Standing(d, l.prog.state)
    BY <1>2, <2>1 DEF LaneGood
  <2>3. Standing(d, l.work.state)' /\ Standing(d, l.prog.state)'
    BY <2>2, StandingForward
  <2>4. row'[d].state # "none"
    BY <2>2 DEF Forward
  <2> QED
    BY <1>2, <2>1, <2>3, <2>4 DEF LaneGood
<1> QED
  BY <1>1, <1>2

\* A lane that only loses fences or hears of something.
SameLane(l, m) ==
  DOMAIN m = DOMAIN l /\ m.at = l.at /\ m.call = l.call /\ m.work = l.work /\ m.prog = l.prog

LEMMA SameLaneGood ==
  ASSUME NEW l, NEW m, LaneGood(l), SameLane(l, m)
  PROVE  LaneGood(m)
  BY DEF LaneGood, SameLane

LEMMA IdleGood == LaneGood(Idle)
<1>1. (CHOOSE r \in Resources : TRUE) \in Devices
  BY LaneAssumption DEF Devices
<1>2. Idle.at = "idle" /\ DOMAIN Idle = LaneFields /\ Idle.work.res \in Devices
  BY <1>1 DEF Idle, LaneFields, WorkOf
<1> QED
  BY <1>2 DEF LaneGood, Calling

\* The rows and lanes after a step.
LEMMA DbStep ==
  ASSUME DbHalf, Forward, DOMAIN row' = Devices, DOMAIN lane' = Workers,
         \A d \in Devices : row'[d] = row[d] \/ \E k : k = row'[d] /\ RowGood(d, k)',
         \A w \in Workers : \E l : l = lane'[w] /\ LaneGood(l)
  PROVE  DbHalf'
<1>1. ASSUME NEW d \in Devices PROVE RowGood(d, row[d])'
  <2>1. CASE row'[d] = row[d]
    <3>1. PICK k : k = row[d] /\ k = row'[d]
      BY <2>1
    <3>2. RowGood(d, k)
      BY <3>1 DEF DbHalf
    <3>3. k.state # "none" => Standing(d, k.state)'
      BY <3>1, <3>2, StandingForward DEF RowGood
    <3>4. RowGood(d, k)'
      BY <3>2, <3>3 DEF RowGood
    <3> QED
      BY <3>1, <3>4 DEF RowGood
  <2>2. CASE \E k : k = row'[d] /\ RowGood(d, k)'
    BY <2>2 DEF RowGood
  <2> QED
    BY <2>1, <2>2
<1>2. ASSUME NEW w \in Workers PROVE LaneGood(lane[w])'
  <2>1. PICK l : l = lane'[w] /\ LaneGood(l)
    OBVIOUS
  <2>2. LaneGood(l)'
    BY <2>1, LaneForward
  <2> QED
    BY <2>1, <2>2 DEF LaneGood
<1>3. DOMAIN accepted' = Devices
  BY DEF Forward
<1> QED
  BY <1>1, <1>2, <1>3 DEF DbHalf

LEMMA DbRest ==
  ASSUME DbHalf, Forward, UNCHANGED <<row, lane>>
  PROVE  DbHalf'
<1>1. DOMAIN row' = Devices /\ DOMAIN lane' = Workers /\ \A d \in Devices : row'[d] = row[d]
  BY DEF DbHalf
<1>2. ASSUME NEW w \in Workers PROVE \E l : l = lane'[w] /\ LaneGood(l)
  BY DEF DbHalf
<1> QED
  BY <1>1, <1>2, DbStep

\* One lane moves, and no row does.
LEMMA LaneMoves ==
  ASSUME DbHalf, NEW w \in Workers, NEW m, LaneGood(m), lane' = [lane EXCEPT ![w] = m],
         UNCHANGED <<row, accepted, served>>
  PROVE  DbHalf' /\ Forward
<1>1. Forward
  BY DEF DbHalf, Forward
<1>2. DOMAIN row' = Devices /\ DOMAIN lane' = Workers /\ \A d \in Devices : row'[d] = row[d]
  BY DEF DbHalf
<1>3. ASSUME NEW v \in Workers PROVE \E l : l = lane'[v] /\ LaneGood(l)
  <2>1. CASE v = w
    BY <2>1 DEF DbHalf
  <2>2. CASE v # w
    <3>1. PICK l : l = lane[v] /\ LaneGood(l)
      BY DEF DbHalf
    <3>2. lane'[v] = l
      BY <2>2, <3>1 DEF DbHalf
    <3> QED
      BY <3>1, <3>2
  <2> QED
    BY <2>1, <2>2
<1> QED
  BY <1>1, <1>2, <1>3, DbStep

\* kcn-config, its requests and their contents rest.
LEMMA CfgRest ==
  ASSUME CfgHalf, Forward, UNCHANGED <<cfg, obj, made, net, patches>>
  PROVE  CfgHalf'
<1>1. CfgTypes' /\ cfg'.uid # 0 /\ \A q \in net' : \E c \in patches' : ContentFor(c, q)
  BY DEF CfgHalf, CfgTypes
<1>2. ASSUME NEW d \in Devices PROVE Registered(d)'
  BY DEF CfgHalf, Registered, Forward
<1>3. ASSUME NEW c \in patches PROVE PatchGood(c)'
  <2>1. PatchGood(c) /\ c.marks \subseteq Devices
    BY DEF CfgHalf, CfgTypes, PatchRecord
  <2> QED
    BY <2>1 DEF PatchGood, Forward
<1> QED
  BY <1>1, <1>2, <1>3 DEF CfgHalf, ContentFor

LEMMA NodesRest ==
  ASSUME NodeHalf, UNCHANGED <<devLink, served, present>>
  PROVE  NodeHalf'
  BY DEF NodeHalf

-----------------------------------------------------------------------------
(***************************************************************************)
(* The state a lane concludes: the claimed one, a worse one, or available  *)
(* with everything seen ready.                                             *)
(***************************************************************************)
Follows(p, state, ready) ==
  /\ "state" \in DOMAIN p
  /\ p.state \in {state, "degraded", "failed"} \/ (ready /\ p.state = "available")

LEMMA FollowsStands ==
  ASSUME NEW d, NEW p, NEW s, NEW ready, Standing(d, s), Follows(p, s, ready),
         ready => WasWired(d)
  PROVE  "state" \in DOMAIN p /\ Standing(d, p.state)
  BY DEF Standing, Follows

LEMMA StepFollows ==
  ASSUME NEW k, NEW seen, seen.needs = FALSE, k.state \notin {"deleting", "deleted"}
  PROVE  /\ EgressCall(k, seen) \in {"none", "create"}
         /\ Follows(EgressProgress(k, seen), k.state, seen.ready)
<1>1. EgressCall(k, seen) = NextCall(k, seen) /\ ~Removing(k)
  BY DEF EgressCall, Removing
<1>2. NextCall(k, seen) \in {"none", "create"}
  BY <1>1 DEF NextCall
<1>3. Observed(k, seen).state = k.state /\ "state" \in DOMAIN Observed(k, seen)
  BY DEF Observed, StartProgress
<1>4. Follows(StepProgress(k, seen), k.state, seen.ready)
  <2>1. CASE NextCall(k, seen) # "none" \/ k.state = "failed"
    BY <1>3, <2>1 DEF StepProgress, Follows
  <2>2. CASE ~(NextCall(k, seen) # "none" \/ k.state = "failed")
    <3>1. StepProgress(k, seen) = EnsureProgress(k, seen)
      BY <1>1, <2>2 DEF StepProgress
    <3>2. PICK p : p = Observed(k, seen)
      OBVIOUS
    <3>3. Follows(Settle(k, seen.ready, p), k.state, seen.ready)
      BY <1>3, <3>2 DEF Settle, Degrade, Follows
    <3> QED
      BY <1>3, <3>1, <3>2, <3>3 DEF EnsureProgress, Degrade, Follows
  <2> QED
    BY <2>1, <2>2
<1>5. PICK p : p = StepProgress(k, seen)
  OBVIOUS
<1>6. EgressProgress(k, seen) \in {p, [p EXCEPT !.clear = TRUE]}
  BY <1>1, <1>2, <1>5 DEF EgressProgress
<1> QED
  BY <1>1, <1>2, <1>4, <1>5, <1>6 DEF Follows

LEMMA FailuresFollow ==
  ASSUME NEW k, NEW p, NEW kind, "state" \in DOMAIN p
  PROVE  /\ Follows(CreateFailed(k, p, kind), p.state, FALSE)
         /\ Follows(ObserveFailed(k, kind), k.state, FALSE)
  BY DEF CreateFailed, ObserveFailed, StartProgress, Follows

LEMMA SuccessFollows ==
  ASSUME NEW k, NEW p, NEW uid, NEW ready, "state" \in DOMAIN p
  PROVE  Follows(CreateSucceeded(k, p, uid, ready), k.state, ready)
  BY DEF CreateSucceeded, Settle, Degrade, Follows

\* Everything accepted is seen wired: it has been in service everywhere.
LEMMA WiringServes ==
  ASSUME NodeHalf, NEW d \in Devices, Wiring(d)
  PROVE  WasWired(d)
<1>1. ASSUME NEW n \in accepted[d].nodes PROVE n \in served[d]
  <2>1. PICK i \in ItemsOf(d) : i.node = n
    BY DEF Wiring
  <2>2. PICK m \in present : i = Item(m, d)
    BY <2>1 DEF ItemsOf
  <2>3. m = n /\ devLink[m][d] = "wired"
    BY <2>1, <2>2 DEF Wiring, FullyWired, Item
  <2> QED
    BY <2>3 DEF NodeHalf
<1> QED
  BY <1>1 DEF WasWired

-----------------------------------------------------------------------------
(* Lanes. *)

LEMMA LaneFacts ==
  ASSUME DbHalf, NEW w \in Workers, lane[w].at # "idle"
  PROVE  /\ LaneGood(lane[w]) /\ Res(w) \in Devices
         /\ row[Res(w)].state # "none" /\ lane[w].work.desired = TRUE
         /\ "state" \in DOMAIN lane[w].prog
         /\ Standing(Res(w), lane[w].work.state) /\ Standing(Res(w), lane[w].prog.state)
  BY DEF DbHalf, LaneGood, Res

\* A lane ends its step with a conclusion that stands.
LEMMA Concludes ==
  ASSUME DbHalf, NEW w \in Workers, lane[w].at # "idle", NEW p, NEW f,
         "state" \in DOMAIN p, Standing(Res(w), p.state), Conclude(w, p, f),
         UNCHANGED <<row, accepted, served>>
  PROVE  DbHalf' /\ Forward
<1>1. PICK m : m = [lane[w] EXCEPT !.at = "finish", !.prog = p, !.facts = f]
  OBVIOUS
<1>2. lane' = [lane EXCEPT ![w] = m]
  BY <1>1 DEF Conclude
<1>3. DOMAIN lane[w] = LaneFields
  BY LaneFacts DEF LaneGood
<1>4. DOMAIN m = LaneFields /\ m.at = "finish" /\ m.prog = p /\ m.work = lane[w].work
  BY <1>1, <1>3 DEF LaneFields
<1>5. LaneGood(m)
  BY <1>4, LaneFacts DEF LaneGood, Res, Calling
<1> QED
  BY <1>2, <1>5, LaneMoves

LEMMA ObserveKeeps ==
  ASSUME DeviceInv, NEW w \in Workers, Observe(w)
  PROVE  DeviceInv'
<1>1. UNCHANGED <<row, kcVars, deviceVars>> /\ lane[w].at = "claimed"
  BY DEF Observe, ObserveFails, Decide
<1>2. PICK d \in Devices : d = Res(w)
  BY <1>1, LaneFacts DEF DeviceInv
<1>3. DbHalf' /\ Forward
  <2>1. CASE Foreign(d, lane[w].work.uid)
    <3>1. PICK p : p = ObserveFailed(lane[w].work, "conflict")
      OBVIOUS
    <3>2. Conclude(w, p, "unknown")
      BY <1>2, <2>1, <3>1 DEF Observe, ObserveFails
    <3>3. "state" \in DOMAIN p /\ Standing(Res(w), p.state)
      BY <1>1, <3>1, FailuresFollow, FollowsStands, LaneFacts DEF DeviceInv
    <3> QED
      BY <1>1, <3>2, <3>3, Concludes DEF DeviceInv, deviceVars
  <2>2. CASE ~Foreign(d, lane[w].work.uid)
    <3>1. PICK k, seen : k = lane[w].work /\ seen = Seen(d)
      OBVIOUS
    <3>2. seen.needs = FALSE /\ (seen.ready => WasWired(d))
      BY <3>1, WiringServes DEF Seen, DeviceInv
    <3>3. Standing(d, k.state)
      BY <1>1, <1>2, <3>1, LaneFacts DEF DeviceInv
    <3>4. PICK p, c : p = EgressProgress(k, seen) /\ c = EgressCall(k, seen)
      OBVIOUS
    <3>5. c \in {"none", "create"} /\ Follows(p, k.state, seen.ready)
      BY <3>2, <3>3, <3>4, StepFollows DEF Standing
    <3>6. "state" \in DOMAIN p /\ Standing(d, p.state)
      BY <3>2, <3>3, <3>5, FollowsStands
    <3>7. PICK a : a = IF c = "none" THEN "finish" ELSE "begin"
      OBVIOUS
    <3>8. PICK m : m = [lane[w] EXCEPT !.call = c, !.prog = p, !.facts = seen.applied, !.at = a]
      OBVIOUS
    <3>9. lane' = [lane EXCEPT ![w] = m]
      BY <1>2, <2>2, <3>1, <3>4, <3>7, <3>8 DEF Observe, Decide
    <3>10. DOMAIN lane[w] = LaneFields
      BY <1>1, LaneFacts DEF LaneGood, DeviceInv
    <3>11. DOMAIN m = LaneFields /\ m.at = a /\ m.call = c /\ m.prog = p /\ m.work = k
      BY <3>1, <3>8, <3>10 DEF LaneFields
    <3>12. row[d].state # "none" /\ k.desired = TRUE /\ k.res = d
      BY <1>1, <1>2, <3>1, LaneFacts DEF DeviceInv, Res
    <3>13. LaneGood(m)
      BY <3>3, <3>5, <3>6, <3>7, <3>11, <3>12 DEF LaneGood, Calling
    <3> QED
      BY <1>1, <3>9, <3>13, LaneMoves DEF DeviceInv, deviceVars
  <2> QED
    BY <2>1, <2>2
<1> QED
  BY <1>1, <1>3, CfgRest, NodesRest DEF DeviceInv, deviceVars, kcVars

LEMMA GivesUp ==
  ASSUME DeviceInv, NEW w \in Workers, lane' = [lane EXCEPT ![w] = Idle],
         UNCHANGED <<row, kcVars, deviceVars>>
  PROVE  DeviceInv'
<1>1. DbHalf' /\ Forward
  BY IdleGood, LaneMoves DEF DeviceInv, deviceVars
<1> QED
  BY <1>1, CfgRest, NodesRest DEF DeviceInv, deviceVars, kcVars

\* A conclusion of a lane while everything else rests.
LEMMA ConcludesAlone ==
  ASSUME DeviceInv, NEW w \in Workers, lane[w].at # "idle", NEW p, NEW f,
         "state" \in DOMAIN p, Standing(Res(w), p.state), Conclude(w, p, f),
         UNCHANGED <<row, kcVars, deviceVars>>
  PROVE  DeviceInv'
<1>1. DbHalf' /\ Forward
  BY Concludes DEF DeviceInv, deviceVars
<1> QED
  BY <1>1, CfgRest, NodesRest DEF DeviceInv, deviceVars, kcVars

LEMMA CallFailedStands ==
  ASSUME DeviceInv, NEW w \in Workers, lane[w].at \in Calling, NEW kind
  PROVE  /\ "state" \in DOMAIN CallFailed(w, kind)
         /\ Standing(Res(w), CallFailed(w, kind).state)
<1>1. lane[w].at # "idle" /\ lane[w].call = "create"
  BY DEF DeviceInv, DbHalf, LaneGood, Calling
<1>2. CallFailed(w, kind) = CreateFailed(lane[w].work, lane[w].prog, kind)
  BY <1>1 DEF CallFailed
<1>3. "state" \in DOMAIN lane[w].prog /\ Standing(Res(w), lane[w].prog.state)
  BY <1>1, LaneFacts DEF DeviceInv
<1> QED
  BY <1>2, <1>3, FailuresFollow, FollowsStands

\* A row moves under one lane; the others lose fences at most.
LEMMA RowMoves ==
  ASSUME DbHalf, NEW d \in Devices, NEW n, row' = [row EXCEPT ![d] = n],
         row[d].state # "none", n.state # "none", RowGood(d, n),
         UNCHANGED <<accepted, served>>, DOMAIN lane' = Workers,
         \A w \in Workers : \E l : l = lane'[w] /\ LaneGood(l)
  PROVE  DbHalf' /\ Forward
<1>1. DOMAIN row' = Devices /\ row'[d] = n /\ \A x \in Devices \ {d} : row'[x] = row[x]
  BY DEF DbHalf
<1>2. Forward
  BY <1>1 DEF DbHalf, Forward
<1>3. RowGood(d, n)'
  BY <1>2, StandingForward DEF RowGood
<1>4. ASSUME NEW x \in Devices
      PROVE  row'[x] = row[x] \/ \E k : k = row'[x] /\ RowGood(x, k)'
  BY <1>1, <1>3
<1> QED
  BY <1>1, <1>2, <1>4, DbStep

LEMMA RowFacts ==
  ASSUME DbHalf, NEW d \in Devices
  PROVE  /\ RowGood(d, row[d]) /\ DOMAIN row[d] = RowFields /\ row[d].desired = TRUE
         /\ row[d].state # "none" => Standing(d, row[d].state)
  BY DEF DbHalf, RowGood

LEMMA BeginKeeps ==
  ASSUME DeviceInv, NEW w \in Workers, Begin(w)
  PROVE  DeviceInv'
<1>1. UNCHANGED <<kcVars, deviceVars>> /\ lane[w].at = "begin" /\ lane[w].at # "idle"
  BY DEF Begin, BeginMutation
<1>2. CASE lane' = [lane EXCEPT ![w] = Idle] /\ UNCHANGED row
  BY <1>1, <1>2, GivesUp
<1>3. CASE ~(lane' = [lane EXCEPT ![w] = Idle] /\ UNCHANGED row)
  <2>1. PICK d \in Devices : d = Res(w) /\ row[d].state # "none"
    BY <1>1, LaneFacts DEF DeviceInv
  <2>2. PICK uid : row' = [row EXCEPT ![d] = BeginEgress(row[d], lane[w].call, uid)]
    BY <1>3, <2>1 DEF Begin, BeginMutation
  <2>3. lane' = [lane EXCEPT ![w] = [lane[w] EXCEPT !.at = "check"]]
    BY <1>3 DEF Begin, BeginMutation
  <2>4. PICK k, n : k = row[d] /\ n = BeginEgress(k, lane[w].call, uid)
    OBVIOUS
  <2>5. DOMAIN k = RowFields
    BY <2>4, RowFacts DEF DeviceInv
  <2>6. DOMAIN n = RowFields /\ n.state = k.state /\ n.desired = k.desired
    BY <2>4, <2>5 DEF BeginEgress, BeginProviderMutation, RowFields
  <2>7. RowGood(d, n) /\ n.state # "none"
    BY <2>1, <2>4, <2>6, RowFacts DEF DeviceInv, RowGood
  <2>8. PICK m : m = [lane[w] EXCEPT !.at = "check"]
    OBVIOUS
  <2>9. LaneGood(lane[w]) /\ DOMAIN lane[w] = LaneFields
    BY DEF DeviceInv, DbHalf, LaneGood
  <2>10. /\ DOMAIN m = LaneFields /\ m.at = "check" /\ m.call = lane[w].call
         /\ m.work = lane[w].work /\ m.prog = lane[w].prog
    BY <2>8, <2>9 DEF LaneFields
  <2>11. LaneGood(m)
    BY <1>1, <2>9, <2>10 DEF LaneGood, Calling
  <2>12. DOMAIN lane = Workers
    BY DEF DeviceInv, DbHalf
  <2>13. DOMAIN lane' = Workers /\ \A v \in Workers : \E l : l = lane'[v] /\ LaneGood(l)
    <3>1. DOMAIN lane' = Workers
      BY <2>3, <2>12
    <3>2. ASSUME NEW v \in Workers PROVE \E l : l = lane'[v] /\ LaneGood(l)
      <4>1. CASE v = w
        BY <2>3, <2>8, <2>11, <2>12, <4>1
      <4>2. CASE v # w
        <5>1. PICK l : l = lane[v] /\ LaneGood(l)
          BY DEF DeviceInv, DbHalf
        <5> QED
          BY <2>3, <2>12, <4>2, <5>1
      <4> QED
        BY <4>1, <4>2
    <3> QED
      BY <3>1, <3>2
  <2>14. DbHalf' /\ Forward
    BY <1>1, <2>1, <2>2, <2>4, <2>7, <2>13, RowMoves DEF DeviceInv, deviceVars
  <2> QED
    BY <1>1, <2>14, CfgRest, NodesRest DEF DeviceInv, deviceVars, kcVars
<1> QED
  BY <1>2, <1>3

LEMMA TroubleKeeps ==
  ASSUME DeviceInv, NEW w \in Workers, UNCHANGED deviceVars,
         LeaseLost(w) \/ CheckFails(w) \/ CallTimesOut(w) \/ Crash(w)
  PROVE  DeviceInv'
<1>1. UNCHANGED <<row, kcVars>>
  BY DEF LeaseLost, CheckFails, CallTimesOut, Crash
<1>2. CASE LeaseLost(w) \/ Crash(w)
  BY <1>1, <1>2, GivesUp DEF LeaseLost, Crash
<1>3. CASE CheckFails(w) \/ CallTimesOut(w)
  <2>1. lane[w].at \in Calling /\ lane[w].at # "idle"
    BY <1>3 DEF CheckFails, CallTimesOut, Calling
  <2>2. PICK kind : Conclude(w, CallFailed(w, kind), "unknown")
    BY <1>3 DEF CheckFails, CallTimesOut
  <2>3. PICK p : p = CallFailed(w, kind)
    OBVIOUS
  <2> QED
    BY <1>1, <2>1, <2>2, <2>3, CallFailedStands, ConcludesAlone
<1> QED
  BY <1>2, <1>3

LEMMA InspectKeeps ==
  ASSUME DeviceInv, NEW w \in Workers, Inspect(w)
  PROVE  DeviceInv'
<1>1. UNCHANGED <<row, kcVars, deviceVars>> /\ lane[w].at = "check" /\ lane[w].at # "idle"
  BY DEF Inspect, Answered
<1>2. PICK d \in Devices : d = Res(w)
  BY <1>1, LaneFacts DEF DeviceInv
<1>3. PICK k, p : k = lane[w].work /\ p = lane[w].prog
  OBVIOUS
<1>4. "state" \in DOMAIN p /\ Standing(d, k.state) /\ Standing(d, p.state)
  BY <1>1, <1>2, <1>3, LaneFacts DEF DeviceInv
<1>5. \/ \E kind : Conclude(w, CreateFailed(k, p, kind), "unknown")
      \/ Conclude(w, CreateSucceeded(k, p, cfg.uid, Seen(d).ready), "unknown")
      \/ lane' = [lane EXCEPT ![w] = [lane[w] EXCEPT !.at = "inspected"]]
  BY <1>2, <1>3 DEF Inspect, Answered
<1>6. CASE \E kind : Conclude(w, CreateFailed(k, p, kind), "unknown")
  <2>1. PICK x, kind : x = CreateFailed(k, p, kind) /\ Conclude(w, x, "unknown")
    BY <1>6
  <2>2. "state" \in DOMAIN x /\ Standing(Res(w), x.state)
    BY <1>2, <1>4, <2>1, FailuresFollow, FollowsStands
  <2> QED
    BY <1>1, <2>1, <2>2, ConcludesAlone
<1>7. CASE Conclude(w, CreateSucceeded(k, p, cfg.uid, Seen(d).ready), "unknown")
  <2>1. PICK uid, ready : uid = cfg.uid /\ ready = Seen(d).ready
    OBVIOUS
  <2>2. ready => WasWired(d)
    BY <2>1, WiringServes DEF Seen, DeviceInv
  <2>3. PICK x : x = CreateSucceeded(k, p, uid, ready) /\ Conclude(w, x, "unknown")
    BY <1>7, <2>1
  <2>4. "state" \in DOMAIN x /\ Standing(Res(w), x.state)
    BY <1>2, <1>4, <2>2, <2>3, SuccessFollows, FollowsStands
  <2> QED
    BY <1>1, <2>3, <2>4, ConcludesAlone
<1>8. CASE lane' = [lane EXCEPT ![w] = [lane[w] EXCEPT !.at = "inspected"]]
  <2>1. PICK m : m = [lane[w] EXCEPT !.at = "inspected"]
    OBVIOUS
  <2>2. LaneGood(lane[w]) /\ DOMAIN lane[w] = LaneFields
    BY DEF DeviceInv, DbHalf, LaneGood
  <2>3. /\ DOMAIN m = LaneFields /\ m.at = "inspected" /\ m.call = lane[w].call
        /\ m.work = lane[w].work /\ m.prog = lane[w].prog
    BY <2>1, <2>2 DEF LaneFields
  <2>4. LaneGood(m)
    BY <1>1, <2>2, <2>3 DEF LaneGood, Calling
  <2>5. DbHalf' /\ Forward
    BY <1>1, <1>8, <2>1, <2>4, LaneMoves DEF DeviceInv, deviceVars
  <2> QED
    BY <1>1, <2>5, CfgRest, NodesRest DEF DeviceInv, deviceVars, kcVars
<1> QED
  BY <1>5, <1>6, <1>7, <1>8

\* The PATCH carries every registration of the revision it was made from.
LEMMA WriteKeeps ==
  ASSUME DeviceInv, NEW w \in Workers, Write(w)
  PROVE  DeviceInv'
<1>1. /\ UNCHANGED <<row, cfg, present, devLink, facts, silent, accepted, served>>
      /\ lane[w].at = "inspected" /\ lane[w].at # "idle" /\ lane[w].call = "create"
  BY DEF Write, Answered, Send, DeviceInv, DbHalf, LaneGood, Calling
<1>2. PICK d \in Devices : d = Res(w) /\ row[d].state # "none"
  BY <1>1, LaneFacts DEF DeviceInv
<1>3. CASE ~Accords(d)
  <2>1. PICK p : p = CreateFailed(lane[w].work, lane[w].prog, "conflict")
    OBVIOUS
  <2>2. Conclude(w, p, "unknown") /\ UNCHANGED <<kcVars, deviceVars>>
    BY <1>1, <1>2, <1>3, <2>1 DEF Write, Answered, deviceVars
  <2>3. "state" \in DOMAIN lane[w].prog /\ Standing(Res(w), lane[w].prog.state)
    BY <1>1, LaneFacts DEF DeviceInv
  <2>4. "state" \in DOMAIN p /\ Standing(Res(w), p.state)
    BY <2>1, <2>3, FailuresFollow, FollowsStands
  <2> QED
    BY <1>1, <2>2, <2>4, ConcludesAlone
<1>4. CASE Accords(d)
  <2>1. PICK m : m = [lane[w] EXCEPT !.at = "sent"]
    OBVIOUS
  <2>2. LaneGood(lane[w]) /\ DOMAIN lane[w] = LaneFields
    BY DEF DeviceInv, DbHalf, LaneGood
  <2>3. /\ DOMAIN m = LaneFields /\ m.at = "sent" /\ m.call = lane[w].call
        /\ m.work = lane[w].work /\ m.prog = lane[w].prog
    BY <2>1, <2>2 DEF LaneFields
  <2>4. LaneGood(m)
    BY <1>1, <2>2, <2>3 DEF LaneGood, Calling
  <2>5. lane' = [lane EXCEPT ![w] = m] /\ UNCHANGED <<obj, made>>
    BY <1>2, <1>4, <2>1 DEF Write, Send
  <2>6. DbHalf' /\ Forward
    BY <1>1, <2>4, <2>5, LaneMoves DEF DeviceInv
  <2>7. NodeHalf'
    BY <1>1, NodesRest DEF DeviceInv
  <2>8. cfg.uid \in Nat /\ cfg.rv \in Nat /\ cfg.devices \subseteq Devices
    BY DEF DeviceInv, CfgHalf, CfgTypes
  <2>9. PICK q : q = [from |-> w, kind |-> lane[w].call, res |-> d, uid |-> cfg.uid,
                      rv |-> cfg.rv, enable |-> lane[w].work.desired]
    OBVIOUS
  <2>10. PICK c : c = [from |-> w, res |-> d, uid |-> cfg.uid, rv |-> cfg.rv,
                       marks |-> MarksWith(d), devices |-> cfg.devices \cup {d}]
    OBVIOUS
  <2>11. net' = net \cup {q} /\ patches' = patches \cup {c}
    BY <1>2, <1>4, <2>9, <2>10 DEF Write, Send
  <2>12. q \in AdoptionRequest
    BY <1>1, <2>8, <2>9, LaneFacts DEF AdoptionRequest, DeviceInv
  <2>13. MarksWith(d) \subseteq Devices
    BY DEF MarksWith, Marked
  <2>14. c \in PatchRecord /\ ContentFor(c, q)
    BY <2>8, <2>9, <2>10, <2>13 DEF PatchRecord, ContentFor
  <2>15. PatchGood(c)
    <3>1. c.rv = cfg.rv /\ c.res = d /\ c.marks = {x \in Devices : obj[x] = "live"} \cup {d}
      BY <2>10 DEF MarksWith, Marked
    <3>2. accepted[d].uid = cfg.uid
      BY <1>4 DEF Accords
    <3>3. ASSUME NEW x \in c.marks PROVE row[x].state # "none" /\ accepted[x].uid = cfg.uid
      BY <1>2, <3>1, <3>2 DEF DeviceInv, CfgHalf, Registered
    <3>4. c.rv <= cfg.rv
      BY <2>8, <3>1
    <3> QED
      BY <3>1, <3>3, <3>4 DEF PatchGood
  <2>16. CfgTypes' /\ cfg'.uid # 0
    BY <1>1, <2>5, <2>11, <2>12, <2>14 DEF DeviceInv, CfgHalf, CfgTypes
  <2>17. ASSUME NEW x \in Devices PROVE Registered(x)'
    BY <1>1, <2>5 DEF DeviceInv, CfgHalf, Registered
  <2>18. ASSUME NEW x \in patches' PROVE PatchGood(x)'
    <3>1. PatchGood(x)
      BY <2>11, <2>15 DEF DeviceInv, CfgHalf
    <3> QED
      BY <1>1, <2>5, <3>1 DEF PatchGood
  <2>19. ASSUME NEW x \in net' PROVE \E y \in patches' : ContentFor(y, x)
    <3>1. CASE x = q
      BY <2>11, <2>14, <3>1
    <3>2. CASE x \in net
      BY <2>11, <3>2 DEF DeviceInv, CfgHalf
    <3> QED
      BY <2>11, <3>1, <3>2
  <2> QED
    BY <2>6, <2>7, <2>16, <2>17, <2>18, <2>19 DEF DeviceInv, CfgHalf, ContentFor
<1> QED
  BY <1>3, <1>4

\* Every lane keeps what it is, but w, and some lose fences.
LEMMA LanesAfter ==
  ASSUME DbHalf, NEW w \in Workers, NEW m, LaneGood(m), NEW d, NEW fences,
         lane' = [Bump(lane, d, fences) EXCEPT ![w] = m]
  PROVE  DOMAIN lane' = Workers /\ \A v \in Workers : \E l : l = lane'[v] /\ LaneGood(l)
<1>1. DOMAIN lane' = Workers /\ lane'[w] = m
  BY DEF Bump
<1>2. ASSUME NEW v \in Workers PROVE \E l : l = lane'[v] /\ LaneGood(l)
  <2>1. CASE v = w
    BY <1>1, <2>1
  <2>2. CASE v # w
    <3>1. PICK k : k = lane[v] /\ LaneGood(k)
      BY DEF DbHalf
    <3>2. PICK l : l = lane'[v]
      OBVIOUS
    <3>3. l = k \/ l = [k EXCEPT !.held = k.held \ fences]
      BY <2>2, <3>1, <3>2 DEF Bump
    <3>4. DOMAIN k = LaneFields
      BY <3>1 DEF LaneGood
    <3>5. SameLane(k, l)
      BY <3>3, <3>4 DEF SameLane, LaneFields
    <3> QED
      BY <3>1, <3>2, <3>5, SameLaneGood
  <2> QED
    BY <2>1, <2>2
<1> QED
  BY <1>1, <1>2

LEMMA ClaimKeeps ==
  ASSUME DeviceInv, NEW w \in Workers, NEW d \in Devices, Claim(w, d)
  PROVE  DeviceInv'
<1>1. UNCHANGED <<kcVars, deviceVars>> /\ row[d].state # "none"
  BY DEF Claim, Claimable
<1>2. PICK k : k = row[d]
  OBVIOUS
<1>3. DOMAIN k = RowFields /\ k.desired = TRUE /\ Standing(d, k.state) /\ k.state # "none"
  BY <1>1, <1>2, RowFacts DEF DeviceInv
<1>4. PICK n : n = AcquireLease(k)
  OBVIOUS
<1>5. row' = [row EXCEPT ![d] = n]
  BY <1>2, <1>4 DEF Claim
<1>6. DOMAIN n = RowFields /\ n.desired = TRUE /\ n.state = k.state
  BY <1>3, <1>4 DEF AcquireLease, RowFields
<1>7. PICK work, prog : work = WorkOf(d, k) /\ prog = StartProgress(work)
  OBVIOUS
<1>8. work.res = d /\ work.state = k.state /\ work.desired = TRUE
  BY <1>3, <1>7 DEF WorkOf
<1>9. "state" \in DOMAIN prog /\ prog.state = k.state
  BY <1>7, <1>8 DEF StartProgress
<1>10. PICK m : m = [Idle EXCEPT !.at = "claimed", !.cancel = FALSE, !.heard = TRUE,
                                 !.held = Fences, !.work = work, !.prog = prog]
  OBVIOUS
<1>11. lane' = [Bump(lane, d, {"epoch"}) EXCEPT ![w] = m]
  BY <1>2, <1>7, <1>10 DEF Claim, Taken
<1>12. DOMAIN m = LaneFields /\ m.at = "claimed" /\ m.work = work /\ m.prog = prog
  BY <1>10 DEF Idle, LaneFields
<1>13. LaneGood(m)
  BY <1>1, <1>3, <1>8, <1>9, <1>12 DEF LaneGood, Calling
<1>14. DOMAIN lane' = Workers /\ \A v \in Workers : \E l : l = lane'[v] /\ LaneGood(l)
  BY <1>11, <1>13, LanesAfter DEF DeviceInv
<1>15. RowGood(d, n) /\ n.state # "none"
  BY <1>3, <1>6 DEF RowGood
<1>16. DbHalf' /\ Forward
  BY <1>1, <1>5, <1>14, <1>15, RowMoves DEF DeviceInv, deviceVars
<1> QED
  BY <1>1, <1>16, CfgRest, NodesRest DEF DeviceInv, deviceVars, kcVars

LEMMA FinishKeeps ==
  ASSUME DeviceInv, NEW w \in Workers, Finish(w)
  PROVE  DeviceInv'
<1>1. UNCHANGED <<kcVars, deviceVars>> /\ lane[w].at = "finish" /\ lane[w].at # "idle"
  BY DEF Finish
<1>2. PICK d \in Devices : d = Res(w) /\ row[d].state # "none"
  BY <1>1, LaneFacts DEF DeviceInv
<1>3. PICK k, p : k = row[d] /\ p = lane[w].prog
  OBVIOUS
<1>4. DOMAIN k = RowFields /\ k.desired = TRUE /\ Standing(d, p.state)
  BY <1>1, <1>2, <1>3, RowFacts, LaneFacts DEF DeviceInv
<1>5. PICK n : n = FinishEgress(k, lane[w].work.active, p, lane[w].facts, lane[w].heard,
                                lane[w].cancel)
  OBVIOUS
<1>6. row' = [row EXCEPT ![d] = n]
  BY <1>2, <1>3, <1>5 DEF Finish, Finished
<1>7. DOMAIN n = RowFields /\ n.desired = TRUE /\ n.state = p.state
  BY <1>4, <1>5 DEF FinishEgress, FinishRow, RowFields
<1>8. RowGood(d, n) /\ n.state # "none"
  BY <1>4, <1>7 DEF RowGood, Standing
<1>9. lane' = [Bump(lane, d, {"version"}) EXCEPT ![w] = Idle]
  BY <1>2 DEF Finish, Released
<1>10. DOMAIN lane' = Workers /\ \A v \in Workers : \E l : l = lane'[v] /\ LaneGood(l)
  BY <1>9, IdleGood, LanesAfter DEF DeviceInv
<1>11. DbHalf' /\ Forward
  BY <1>1, <1>2, <1>6, <1>8, <1>10, RowMoves DEF DeviceInv, deviceVars
<1> QED
  BY <1>1, <1>11, CfgRest, NodesRest DEF DeviceInv, deviceVars, kcVars

LEMMA TimeKeeps ==
  ASSUME DeviceInv, TimeStep
  PROVE  DeviceInv'
<1>1. UNCHANGED <<lane, kcVars, deviceVars>>
  BY DEF TimeStep, LeaseExpires, ObservationAges
<1>2. PICK d \in Devices : \/ row' = [row EXCEPT ![d].lease = FALSE] /\ row[d].lease
                           \/ row' = [row EXCEPT ![d].fresh = FALSE] /\ row[d].fresh
  BY DEF TimeStep, LeaseExpires, ObservationAges
<1>3. PICK k : k = row[d]
  OBVIOUS
<1>4. DOMAIN k = RowFields /\ RowGood(d, k)
  BY <1>3, RowFacts DEF DeviceInv
<1>5. PICK n : /\ row' = [row EXCEPT ![d] = n]
               /\ n \in {[k EXCEPT !.lease = FALSE], [k EXCEPT !.fresh = FALSE]}
  BY <1>2, <1>3
<1>6. DOMAIN n = RowFields /\ n.desired = k.desired /\ n.state = k.state
  BY <1>4, <1>5 DEF RowFields
<1>7. DOMAIN row' = Devices /\ row'[d] = n /\ \A x \in Devices \ {d} : row'[x] = row[x]
  BY <1>5 DEF DeviceInv, DbHalf
<1>8. Forward
  BY <1>1, <1>3, <1>6, <1>7 DEF DeviceInv, DbHalf, Forward, deviceVars
<1>9. RowGood(d, n)'
  BY <1>3, <1>4, <1>6, <1>8, StandingForward DEF RowGood
<1>10. ASSUME NEW x \in Devices
       PROVE  row'[x] = row[x] \/ \E y : y = row'[x] /\ RowGood(x, y)'
  BY <1>7, <1>9
<1>11. ASSUME NEW v \in Workers PROVE \E l : l = lane'[v] /\ LaneGood(l)
  BY <1>1 DEF DeviceInv, DbHalf
<1>12. DbHalf'
  BY <1>1, <1>7, <1>8, <1>10, <1>11, DbStep DEF DeviceInv, DbHalf
<1> QED
  BY <1>1, <1>8, <1>12, CfgRest, NodesRest DEF DeviceInv, deviceVars, kcVars

LEMMA AcceptKeeps ==
  ASSUME DeviceInv, NEW d \in Devices, Accept(d)
  PROVE  DeviceInv'
<1>1. /\ UNCHANGED <<lane, kcVars, cfg, present, devLink, facts, silent, patches, served>>
      /\ row[d].state = "none" /\ row' = [row EXCEPT ![d] = AcceptedEgress]
  BY DEF Accept
<1>2. PICK a : accepted' = [accepted EXCEPT ![d] = a]
  BY DEF Accept
<1>3. PICK n : n = AcceptedEgress
  OBVIOUS
<1>4. DOMAIN n = RowFields /\ n.desired = TRUE /\ n.state = "provisioning"
  BY <1>3 DEF AcceptedEgress, NoEgressRow, RowFields
<1>5. DOMAIN row' = Devices /\ row'[d] = n /\ \A x \in Devices \ {d} : row'[x] = row[x]
  BY <1>1, <1>3 DEF DeviceInv, DbHalf
<1>6. Forward
  BY <1>1, <1>2, <1>5 DEF DeviceInv, DbHalf, Forward
<1>7. RowGood(d, n)'
  BY <1>4 DEF RowGood, Standing
<1>8. ASSUME NEW x \in Devices
      PROVE  row'[x] = row[x] \/ \E y : y = row'[x] /\ RowGood(x, y)'
  BY <1>5, <1>7
<1>9. ASSUME NEW v \in Workers PROVE \E l : l = lane'[v] /\ LaneGood(l)
  BY <1>1 DEF DeviceInv, DbHalf
<1>10. DbHalf'
  BY <1>1, <1>5, <1>6, <1>8, <1>9, DbStep DEF DeviceInv, DbHalf
<1> QED
  BY <1>1, <1>6, <1>10, CfgRest, NodesRest DEF DeviceInv, kcVars

-----------------------------------------------------------------------------
(***************************************************************************)
(* kcn-config.                                                             *)
(***************************************************************************)
\* A request is answered: the lane that waits for it concludes.
LEMMA AnswerStands ==
  ASSUME DeviceInv, NEW q \in net, NEW p, NEW f, Answer(q, p, f),
         Waits(q) => "state" \in DOMAIN p /\ Standing(q.res, p.state),
         UNCHANGED <<accepted, served>>
  PROVE  DbHalf' /\ Forward
<1>1. UNCHANGED row
  BY DEF Answer
<1>2. CASE Waits(q)
  <2>1. PICK w \in Workers : w = q.from
    BY DEF DeviceInv, CfgHalf, CfgTypes, AdoptionRequest
  <2>2. lane[w].at # "idle" /\ Res(w) = q.res
    BY <1>2, <2>1 DEF Waits, Res
  <2>3. Conclude(w, p, f)
    BY <1>2, <2>1 DEF Answer
  <2> QED
    BY <1>1, <1>2, <2>2, <2>3, Concludes DEF DeviceInv
<1>3. CASE ~Waits(q)
  <2>1. UNCHANGED lane
    BY <1>3 DEF Answer
  <2>2. Forward
    BY <1>1 DEF DeviceInv, DbHalf, Forward
  <2> QED
    BY <1>1, <2>1, <2>2, DbRest DEF DeviceInv
<1> QED
  BY <1>2, <1>3

LEMMA WaitingLane ==
  ASSUME DeviceInv, NEW q \in net, Waits(q)
  PROVE  /\ q.from \in Workers /\ Res(q.from) = q.res /\ lane[q.from].at = "sent"
         /\ "state" \in DOMAIN lane[q.from].prog
         /\ Standing(q.res, lane[q.from].work.state)
<1>1. q.from \in Workers /\ Res(q.from) = q.res /\ lane[q.from].at = "sent"
  BY DEF Waits, Res, DeviceInv, CfgHalf, CfgTypes, AdoptionRequest
<1> QED
  BY <1>1, LaneFacts DEF DeviceInv

\* The content of a request is one of the contents under way.
LEMMA ContentFacts ==
  ASSUME CfgHalf, NEW q \in net
  PROVE  ContentOf(q) \in patches /\ ContentFor(ContentOf(q), q)
<1>1. \E c \in patches : c.from = q.from /\ c.res = q.res /\ c.rv = q.rv /\ c.uid = q.uid
  BY DEF CfgHalf, ContentFor
<1> QED
  BY <1>1 DEF ContentOf, ContentFor

\* The content of a request that ends is no other request's content.
LEMMA ContentsStay ==
  ASSUME CfgHalf, NEW q \in net, Forget(q), net' = net \ {q}
  PROVE  /\ patches' \subseteq patches /\ net' \subseteq net
         /\ \A x \in net' : \E c \in patches' : ContentFor(c, x)
<1>1. patches' = patches \ {ContentOf(q)}
  BY DEF Forget
<1>2. ASSUME NEW x \in net' PROVE \E c \in patches' : ContentFor(c, x)
  <2>1. PICK c \in patches : ContentFor(c, x)
    BY DEF CfgHalf
  <2>2. x \in AdoptionRequest /\ q \in AdoptionRequest /\ x # q
    BY DEF CfgHalf, CfgTypes
  <2>3. ~(x.from = q.from /\ x.res = q.res /\ x.uid = q.uid /\ x.rv = q.rv)
    <3>1. \A y \in AdoptionRequest :
            y = [from |-> y.from, kind |-> y.kind, res |-> y.res, uid |-> y.uid,
                 rv |-> y.rv, enable |-> y.enable]
      BY DEF AdoptionRequest
    <3>2. x.kind = q.kind /\ x.enable = q.enable
      BY <2>2 DEF AdoptionRequest
    <3> QED
      BY <2>2, <3>1, <3>2
  <2>4. c # ContentOf(q)
    BY <2>1, <2>3, ContentFacts DEF ContentFor
  <2> QED
    BY <1>1, <2>1, <2>4
<1> QED
  BY <1>1, <1>2

\* A request ends without effect on kcn-config.
LEMMA EndsInVain ==
  ASSUME DeviceInv, NEW q \in net, NEW kind, Answer(q, CallFailed(q.from, kind), "unknown"),
         Forget(q),
         UNCHANGED <<obj, made, cfg, present, devLink, facts, silent, accepted, served>>
  PROVE  DeviceInv'
<1>1. PICK p : p = CallFailed(q.from, kind)
  OBVIOUS
<1>2. ASSUME Waits(q) PROVE "state" \in DOMAIN p /\ Standing(q.res, p.state)
  <2>1. q.from \in Workers /\ Res(q.from) = q.res /\ lane[q.from].at \in Calling
    BY <1>2, WaitingLane DEF Calling
  <2> QED
    BY <1>1, <2>1, CallFailedStands
<1>3. DbHalf' /\ Forward
  BY <1>1, <1>2, AnswerStands
<1>4. net' = net \ {q} /\ UNCHANGED row
  BY DEF Answer
<1>5. /\ patches' \subseteq patches /\ net' \subseteq net
      /\ \A x \in net' : \E c \in patches' : ContentFor(c, x)
  BY <1>4, ContentsStay DEF DeviceInv
<1>6. CfgTypes' /\ cfg'.uid # 0
  BY <1>5 DEF DeviceInv, CfgHalf, CfgTypes
<1>7. ASSUME NEW d \in Devices PROVE Registered(d)'
  BY <1>4 DEF DeviceInv, CfgHalf, Registered
<1>8. ASSUME NEW c \in patches' PROVE PatchGood(c)'
  BY <1>4, <1>5 DEF DeviceInv, CfgHalf, PatchGood
<1>9. NodeHalf'
  BY NodesRest DEF DeviceInv
<1> QED
  BY <1>3, <1>5, <1>6, <1>7, <1>8, <1>9 DEF DeviceInv, CfgHalf, ContentFor

LEMMA VainKeeps ==
  ASSUME DeviceInv, NEW q \in net, TestFails(q) \/ PatchFails(q)
  PROVE  DeviceInv'
<1>1. PICK kind : Answer(q, CallFailed(q.from, kind), "unknown")
  BY DEF TestFails, PatchFails, Refuse, Lose
<1>2. /\ Forget(q)
      /\ UNCHANGED <<obj, made, cfg, present, devLink, facts, silent, accepted, served>>
  BY DEF TestFails, PatchFails, Refuse, Lose
<1> QED
  BY <1>1, <1>2, EndsInVain

\* Once the revision has moved on, no content under way matches it.
LEMMA OldPatch ==
  ASSUME CfgHalf, Forward, NEW c \in patches, cfg'.rv = cfg.rv + 1
  PROVE  PatchGood(c)'
<1>1. PatchGood(c) /\ c.rv \in Nat /\ cfg.rv \in Nat /\ c.marks \subseteq Devices
  BY DEF CfgHalf, CfgTypes, PatchRecord
<1>2. c.rv <= cfg'.rv /\ c.rv # cfg'.rv
  BY <1>1 DEF PatchGood
<1> QED
  BY <1>1, <1>2 DEF PatchGood, Forward

\* The PATCH replaces the registrations by a set that holds all of them.
LEMMA PatchKeeps ==
  ASSUME DeviceInv, NEW q \in net, Patch(q)
  PROVE  DeviceInv'
<1>1. /\ UNCHANGED <<present, devLink, facts, silent, accepted, served>>
      /\ Matches(q) /\ Forget(q)
  BY DEF Patch
<1>2. PICK c \in patches : c = ContentOf(q) /\ ContentFor(c, q)
  BY ContentFacts DEF DeviceInv
<1>3. /\ q.res \in Devices /\ c \in PatchRecord /\ PatchGood(c)
      /\ c.rv = cfg.rv /\ c.uid = cfg.uid /\ c.res = q.res
  BY <1>1, <1>2 DEF DeviceInv, CfgHalf, CfgTypes, AdoptionRequest, Matches, ContentFor
<1>4. cfg \in [uid : Nat, rv : Nat, devices : SUBSET Devices]
  BY DEF DeviceInv, CfgHalf, CfgTypes
<1>5. DbHalf' /\ Forward /\ net' = net \ {q} /\ UNCHANGED row
  <2>1. PICK uid, ready, p :
          /\ uid = cfg.uid /\ ready = Wiring(q.res)
          /\ p = CreateSucceeded(lane[q.from].work, lane[q.from].prog, uid, ready)
    OBVIOUS
  <2>2. Answer(q, p, "unknown")
    BY <2>1 DEF Patch
  <2>3. ready => WasWired(q.res)
    BY <1>3, <2>1, WiringServes DEF DeviceInv
  <2>4. ASSUME Waits(q) PROVE "state" \in DOMAIN p /\ Standing(q.res, p.state)
    <3>1. "state" \in DOMAIN lane[q.from].prog /\ Standing(q.res, lane[q.from].work.state)
      BY <2>4, WaitingLane
    <3> QED
      BY <2>1, <2>3, <3>1, SuccessFollows, FollowsStands
  <2>5. DbHalf' /\ Forward
    BY <1>1, <2>2, <2>4, AnswerStands
  <2> QED
    BY <2>2, <2>5 DEF Answer
<1>6. /\ patches' \subseteq patches /\ net' \subseteq net
      /\ \A x \in net' : \E y \in patches' : ContentFor(y, x)
  BY <1>1, <1>5, ContentsStay DEF DeviceInv
<1>7. PICK ds \in SUBSET Devices : cfg' = [cfg EXCEPT !.rv = cfg.rv + 1, !.devices = ds]
  <2>1. cfg' = [cfg EXCEPT !.rv = cfg.rv + 1,
                  !.devices = IF accepted[q.res].prepared THEN cfg.devices ELSE c.devices]
    BY <1>2 DEF Patch
  <2>2. cfg.devices \subseteq Devices /\ c.devices \subseteq Devices
    BY <1>3, <1>4 DEF PatchRecord
  <2> QED
    BY <2>1, <2>2
<1>8. /\ cfg' \in [uid : Nat, rv : Nat, devices : SUBSET Devices]
      /\ cfg'.uid = cfg.uid /\ cfg'.rv = cfg.rv + 1
  <2>1. PICK v \in Nat : v = cfg.rv + 1
    BY <1>4
  <2>2. cfg' = [cfg EXCEPT !.rv = v, !.devices = ds]
    BY <1>7, <2>1
  <2>3. /\ cfg' \in [uid : Nat, rv : Nat, devices : SUBSET Devices]
        /\ cfg'.uid = cfg.uid /\ cfg'.rv = v
    BY <1>4, <2>2
  <2> QED
    BY <2>1, <2>3
<1>9. /\ obj' = [d \in Devices |-> IF d \in c.marks THEN "live" ELSE "absent"]
      /\ made' = [made EXCEPT ![q.res] = cfg.uid]
  BY <1>2 DEF Patch
<1>10. CfgTypes' /\ cfg'.uid # 0
  BY <1>4, <1>6, <1>8, <1>9 DEF DeviceInv, CfgHalf, CfgTypes
<1>11. ASSUME NEW d \in Devices PROVE Registered(d)'
  <2>1. Registered(d) /\ made \in [Devices -> Nat]
    BY DEF DeviceInv, CfgHalf, CfgTypes
  <2>2. obj'[d] = "live" <=> d \in c.marks
    BY <1>9
  <2>3. d \in c.marks => row'[d].state # "none" /\ accepted'[d].uid = cfg'.uid
    BY <1>1, <1>3, <1>5, <1>8 DEF PatchGood
  <2>4. CASE d = q.res
    <3>1. d \in c.marks /\ made'[d] = cfg.uid
      BY <1>3, <1>9, <2>1, <2>4 DEF PatchGood
    <3> QED
      BY <1>4, <1>8, <2>2, <2>3, <3>1 DEF Registered
  <2>5. CASE d # q.res
    <3>1. made'[d] = made[d]
      BY <1>9, <2>1, <2>5
    <3>2. made[d] = cfg.uid => d \in c.marks
      BY <1>3, <2>1 DEF Registered, PatchGood
    <3> QED
      BY <1>8, <2>1, <2>2, <2>3, <3>1, <3>2 DEF Registered
  <2> QED
    BY <2>4, <2>5
<1>12. ASSUME NEW x \in patches' PROVE PatchGood(x)'
  BY <1>5, <1>6, <1>8, OldPatch DEF DeviceInv
<1>13. NodeHalf'
  BY <1>1, NodesRest DEF DeviceInv
<1> QED
  BY <1>5, <1>6, <1>10, <1>11, <1>12, <1>13 DEF DeviceInv, CfgHalf, ContentFor

\* An operator edits kcn-config, or puts another one in its place.
LEMMA OperatorKeeps ==
  ASSUME DeviceInv, (\E d \in Devices : Edit(d)) \/ Replace
  PROVE  DeviceInv'
<1>1. UNCHANGED <<row, lane, net, made, present, devLink, facts, silent, accepted, patches, served>>
  BY DEF Edit, Replace, dbVars, kcVars
<1>2. Forward
  BY <1>1 DEF DeviceInv, DbHalf, Forward
<1>3. DbHalf' /\ NodeHalf'
  BY <1>1, <1>2, DbRest, NodesRest DEF DeviceInv
<1>4. /\ cfg \in [uid : Nat, rv : Nat, devices : SUBSET Devices] /\ cfg.uid # 0
      /\ obj \in [Devices -> {"absent", "live"}] /\ made \in [Devices -> Nat]
  BY DEF DeviceInv, CfgHalf, CfgTypes
<1>5. PICK v \in Nat : v = cfg.rv + 1
  BY <1>4
<1>6. /\ cfg' \in [uid : Nat, rv : Nat, devices : SUBSET Devices] /\ cfg'.rv = v
      /\ obj' \in [Devices -> {"absent", "live"}]
      /\ \/ cfg'.uid = cfg.uid /\ obj' = obj
         \/ cfg'.uid = cfg.uid + 1 /\ \A d \in Devices : obj'[d] = "absent"
  <2>1. CASE Replace
    <3>1. PICK u \in Nat : u = cfg.uid + 1
      BY <1>4
    <3>2. cfg' = [cfg EXCEPT !.uid = u, !.rv = v] /\ obj' = [d \in Devices |-> "absent"]
      BY <1>5, <2>1, <3>1 DEF Replace
    <3>3. cfg' \in [uid : Nat, rv : Nat, devices : SUBSET Devices] /\ cfg'.rv = v /\ cfg'.uid = u
      BY <1>4, <3>2
    <3> QED
      BY <3>1, <3>2, <3>3
  <2>2. CASE \E d \in Devices : Edit(d)
    <3>1. PICK ds \in SUBSET Devices : cfg' = [cfg EXCEPT !.rv = v, !.devices = ds]
      <4>1. PICK d \in Devices :
              cfg' = [cfg EXCEPT !.rv = cfg.rv + 1,
                        !.devices = IF d \in cfg.devices THEN cfg.devices \ {d}
                                                         ELSE cfg.devices \cup {d}]
        BY <2>2 DEF Edit
      <4>2. cfg.devices \ {d} \subseteq Devices /\ cfg.devices \cup {d} \subseteq Devices
        BY <1>4
      <4> QED
        BY <1>5, <4>1, <4>2
    <3>2. cfg' \in [uid : Nat, rv : Nat, devices : SUBSET Devices] /\ cfg'.rv = v
          /\ cfg'.uid = cfg.uid
      BY <1>4, <3>1
    <3> QED
      BY <1>4, <2>2, <3>2 DEF Edit, kcVars
  <2> QED
    BY <2>1, <2>2
<1>7. CfgTypes'
  BY <1>1, <1>6 DEF DeviceInv, CfgHalf, CfgTypes
<1>8. ASSUME NEW d \in Devices PROVE Registered(d)'
  <2>1. Registered(d) /\ made[d] \in Nat /\ cfg.uid \in Nat
    BY <1>4 DEF DeviceInv, CfgHalf
  <2>2. CASE cfg'.uid = cfg.uid /\ obj' = obj
    BY <1>1, <2>1, <2>2 DEF Registered
  <2>3. CASE cfg'.uid = cfg.uid + 1 /\ obj'[d] = "absent"
    <3>1. made[d] <= cfg'.uid /\ made[d] # cfg'.uid
      BY <2>1, <2>3 DEF Registered
    <3> QED
      BY <1>1, <2>3, <3>1 DEF Registered
  <2> QED
    BY <1>6, <2>2, <2>3
<1>9. ASSUME NEW c \in patches PROVE PatchGood(c)'
  BY <1>2, <1>5, <1>6, OldPatch DEF DeviceInv
<1>10. cfg'.uid # 0
  BY <1>4, <1>6
<1> QED
  BY <1>1, <1>3, <1>7, <1>8, <1>9, <1>10 DEF DeviceInv, CfgHalf, ContentFor

-----------------------------------------------------------------------------
(* Nodes. *)

LEMMA NodeStepKeeps ==
  ASSUME DeviceInv, NEW n \in Nodes, NEW d \in Devices,
         Publish(n) \/ Stop(n) \/ FactsAge(n) \/ Join(n) \/ Wire(n, d) \/ Occupy(n, d)
  PROVE  DeviceInv'
<1>1. UNCHANGED <<row, lane, net, obj, made, cfg, accepted, patches>>
  BY DEF Publish, Stop, FactsAge, Join, Wire, Occupy, coreVars, dbVars, kcVars
<1>2. /\ devLink \in [Nodes -> [Devices -> {"free", "wired", "busy"}]]
      /\ served \in [Devices -> SUBSET Nodes] /\ present \subseteq Nodes
      /\ \A m \in Nodes, x \in Devices : devLink[m][x] = "wired" => m \in served[x]
  BY DEF DeviceInv, NodeHalf
<1>3. NodeHalf' /\ \A x \in Devices : served[x] \subseteq served'[x]
  <2>1. CASE Publish(n) \/ Stop(n) \/ FactsAge(n)
    BY <1>2, <2>1 DEF Publish, Stop, FactsAge, NodeHalf
  <2>2. CASE Join(n)
    BY <1>2, <2>2 DEF Join, NodeHalf
  <2>3. CASE Wire(n, d)
    <3>1. /\ devLink' = [devLink EXCEPT ![n][d] = "wired"] /\ UNCHANGED present
          /\ served' = [served EXCEPT ![d] = served[d] \cup {n}]
      BY <2>3 DEF Wire
    <3>2. /\ devLink' \in [Nodes -> [Devices -> {"free", "wired", "busy"}]]
          /\ served' \in [Devices -> SUBSET Nodes]
      BY <1>2, <3>1
    <3>3. \A x \in Devices : served[x] \subseteq served'[x]
      BY <1>2, <3>1
    <3>4. n \in served'[d]
      BY <1>2, <3>1
    <3>5. ASSUME NEW m \in Nodes, NEW x \in Devices, devLink'[m][x] = "wired"
          PROVE  m \in served'[x]
      <4>1. CASE m = n /\ x = d
        BY <3>4, <4>1
      <4>2. CASE ~(m = n /\ x = d)
        <5>1. devLink'[m][x] = devLink[m][x]
          BY <1>2, <3>1, <4>2
        <5> QED
          BY <1>2, <3>3, <3>5, <5>1
      <4> QED
        BY <4>1, <4>2
    <3> QED
      BY <1>2, <3>1, <3>2, <3>3, <3>5 DEF NodeHalf
  <2>4. CASE Occupy(n, d)
    <3>1. devLink' = [devLink EXCEPT ![n][d] = "busy"] /\ UNCHANGED <<present, served>>
      BY <2>4 DEF Occupy
    <3>2. /\ devLink' \in [Nodes -> [Devices -> {"free", "wired", "busy"}]]
          /\ \A m \in Nodes, x \in Devices : devLink'[m][x] \in {devLink[m][x], "busy"}
      BY <1>2, <3>1
    <3> QED
      BY <1>2, <3>1, <3>2 DEF NodeHalf
  <2> QED
    BY <2>1, <2>2, <2>3, <2>4
<1>4. Forward
  BY <1>1, <1>3 DEF DeviceInv, DbHalf, Forward
<1> QED
  BY <1>1, <1>3, <1>4, DbRest, CfgRest DEF DeviceInv

-----------------------------------------------------------------------------
(* The theorems. *)

LEMMA InitKeeps ==
  ASSUME AdoptionInit
  PROVE  DeviceInv
<1>1. DbHalf
  <2>1. DOMAIN NoEgressRow = RowFields /\ NoEgressRow.desired = TRUE /\ NoEgressRow.state = "none"
    BY DEF NoEgressRow, RowFields
  <2>2. /\ row = [r \in Devices |-> NoEgressRow] /\ lane = [w \in Workers |-> Idle]
        /\ DOMAIN accepted = Devices
    BY DEF AdoptionInit, CoreInit, Devices
  <2>3. PICK k, l : k = NoEgressRow /\ l = Idle
    OBVIOUS
  <2>4. LaneGood(l) /\ \A d \in Devices : RowGood(d, k)
    BY <2>1, <2>3, IdleGood DEF RowGood
  <2> QED
    BY <2>2, <2>3, <2>4 DEF DbHalf
<1>2. CfgHalf
  <2>1. /\ cfg = [uid |-> 1, rv |-> 1, devices |-> Prepared]
        /\ obj = [r \in Devices |-> "absent"] /\ made = [r \in Devices |-> 0]
        /\ net = {} /\ patches = {}
    BY DEF AdoptionInit, CoreInit, Devices
  <2>2. CfgTypes
    BY <2>1, AdoptionAssumption DEF CfgTypes, Devices
  <2>3. cfg.uid # 0 /\ \A d \in Devices : Registered(d)
    BY <2>1 DEF Registered
  <2> QED
    BY <2>1, <2>2, <2>3 DEF CfgHalf
<1>3. NodeHalf
  BY AdoptionAssumption DEF AdoptionInit, NodeHalf, Devices
<1> QED
  BY <1>1, <1>2, <1>3 DEF DeviceInv

LEMMA NextKeeps ==
  ASSUME DeviceInv, [AdoptionNext]_adoptionVars
  PROVE  DeviceInv'
<1>1. ASSUME NEW d \in Devices, Accept(d) PROVE DeviceInv'
  BY <1>1, AcceptKeeps
<1>2. ASSUME NEW w \in Workers, LaneStep(w) PROVE DeviceInv'
  BY <1>2, ClaimKeeps, ObserveKeeps, BeginKeeps, InspectKeeps, WriteKeeps, FinishKeeps,
     TroubleKeeps DEF LaneStep
<1>3. CASE ProviderStep
  <2>1. ASSUME NEW q \in net, Patch(q) \/ TestFails(q) \/ PatchFails(q) PROVE DeviceInv'
    BY <2>1, PatchKeeps, VainKeeps
  <2>2. ASSUME NEW n \in Nodes, Publish(n) \/ Stop(n) \/ FactsAge(n) \/ Join(n) PROVE DeviceInv'
    <3>1. PICK d \in Devices : TRUE
      BY LaneAssumption DEF Devices
    <3> QED
      BY <2>2, <3>1, NodeStepKeeps
  <2>3. ASSUME NEW n \in Nodes, NEW d \in Devices, Wire(n, d) \/ Occupy(n, d) PROVE DeviceInv'
    BY <2>3, NodeStepKeeps
  <2> QED
    BY <1>3, <2>1, <2>2, <2>3, OperatorKeeps DEF ProviderStep
<1>4. CASE TimeStep
  BY <1>4, TimeKeeps
<1>5. CASE UNCHANGED adoptionVars
  <2>1. UNCHANGED <<row, lane, net, obj, made, cfg, present, devLink, accepted, patches, served>>
    BY <1>5 DEF adoptionVars, coreVars, deviceVars
  <2>2. Forward
    BY <2>1 DEF DeviceInv, DbHalf, Forward
  <2> QED
    BY <2>1, <2>2, DbRest, CfgRest, NodesRest DEF DeviceInv
<1> QED
  BY <1>1, <1>2, <1>3, <1>4, <1>5 DEF AdoptionNext

\* The invariant of kcn-config, the PATCHes under way, and what the lanes may
\* still record is kept by every step of lanes, agents, collectors, operators
\* and the API server.
THEOREM DeviceInvariant == AdoptionSpec => []DeviceInv
<1>1. AdoptionInit => DeviceInv
  BY InitKeeps
<1>2. DeviceInv /\ [AdoptionNext]_adoptionVars => DeviceInv'
  BY NextKeeps
<1> QED
  BY <1>1, <1>2, PTL DEF AdoptionSpec

\* For any devices, nodes, lanes, edits and failures: no PATCH of ensureDevice,
\* however late, takes away the annotation of another adoption; none registers
\* a device on a ConfigMap it was not accepted on; and a device shown as
\* available has been in kc's bridge on every node it was accepted for.
THEOREM AdoptionsAreSafe == AdoptionSpec => []DeviceSafety
<1>1. DeviceInv => DeviceSafety
  BY DEF DeviceInv, DbHalf, CfgHalf, RowGood, Standing, WasWired, Registered,
         DeviceSafety, RegistrationsAreKept, RegisteredWhereAccepted, AvailableWasWired
<1> QED
  BY <1>1, DeviceInvariant, PTL

-----------------------------------------------------------------------------
(***************************************************************************)
(* The facts of a node, for every clock, Freshness and number of PATCHes   *)
(* under way: a valid view lacks only what the informer's handler has yet  *)
(* to see, what it authorises is recent, and no late PATCH replaces a      *)
(* document by an older one.                                               *)
(*                                                                         *)
(* FactsSafety is not inductive.  What is missing:                         *)
(*   - a sample is never dated later than the links looked like it         *)
(*     (Sampled);                                                          *)
(*   - whoever holds the revision of the document holds a date at least as *)
(*     young (RoundsAdvance, RevisionsAdvance), which is why the tests on  *)
(*     UID and revision order the rounds of one collector;                 *)
(*   - the events on their way are later than the last one handled and     *)
(*     lead up to the document (EventsInOrder), so that what is collected  *)
(*     is either one of them or what the handler saw last (KeepsUp).       *)
(***************************************************************************)
Body == [at : Nat, link : Links \cup {None}, bridged : BOOLEAN]
Versions == [uid : Nat, rv : Nat, body : Body]

FactsTypeOK ==
  /\ now \in Nat
  /\ link \in Links
  /\ lastAt \in [Links -> Nat]
  /\ doc \in Versions
  /\ col \in [at : {"idle", "dated", "sampled", "read", "sent"}, body : Body,
              uid : Nat, rv : Nat, pin : Nat, round : Nat]
  /\ late \in SUBSET Versions

ServiceTypeOK ==
  /\ handled \in Versions
  /\ unseen \in SUBSET Versions
  /\ watch \in Nat
  /\ audit \in Versions
  /\ view \in Versions

\* The links looked like this when the document was dated, or later.
SeenSince(body) == body.link # None => body.at <= lastAt[body.link]

Sampled ==
  /\ lastAt[link] = now
  /\ \A l \in Links : lastAt[l] <= now
  /\ SeenSince(doc.body) /\ SeenSince(col.body)
  /\ \A p \in late : SeenSince(p.body)

Collected == SeenSince(audit.body) /\ SeenSince(view.body)

\* Every date is that of a round, and the round under way is the latest.
RoundsAdvance ==
  /\ col.round <= now
  /\ col.body.at <= col.round
  /\ col.at # "idle" => col.body.at = col.round
  /\ doc.body.at <= col.round
  /\ \A p \in late : p.body.at <= col.round

\* A PATCH that can still land carries no older document than the one it
\* would replace.
RevisionsAdvance ==
  /\ col.rv <= doc.rv
  /\ \A p \in late : /\ p.rv <= doc.rv
                     /\ p.rv = doc.rv => doc.body.at <= p.body.at

EventsInOrder ==
  /\ 0 < doc.rv
  /\ \A version \in unseen : handled.rv < version.rv /\ version.rv <= doc.rv
  /\ \A version, other \in unseen : version.rv = other.rv => version = other
  /\ doc \in unseen \/ (unseen = {} /\ handled = doc)

\* The version is on its way to the handler, or what the handler saw last.
KeepsUp(version) == watch = 0 => version \in unseen \/ Stable(version) = Stable(handled)

Covered ==
  /\ view # NoVersion => KeepsUp(view)
  /\ audit # NoVersion => KeepsUp(audit)

WorldInv   == FactsTypeOK /\ Sampled /\ RoundsAdvance /\ RevisionsAdvance
ServiceInv == ServiceTypeOK /\ Collected /\ EventsInOrder /\ Covered
FactsInv   == WorldInv /\ ServiceInv
-----------------------------------------------------------------------------
\* The initial states: nothing has been sampled or published.
LEMMA FactsInit == Init => FactsInv
  BY FactsAssumption
  DEF Init, FactsInv, WorldInv, ServiceInv, FactsTypeOK, ServiceTypeOK, Body, Versions, Sampled,
      Collected, SeenSince, RoundsAdvance, RevisionsAdvance, EventsInOrder, Covered, NoDocument,
      NoVersion

\* lastAt only grows, so that what a sample says of the past stays true.
LEMMA LaterLooksKeep ==
  ASSUME FactsTypeOK, lastAt' \in [Links -> Nat],
         \A l \in Links : lastAt[l] <= lastAt'[l],
         NEW body \in Body, SeenSince(body)
  PROVE  body.link # None => body.at <= lastAt'[body.link]
  BY DEF FactsTypeOK, Body, SeenSince

\* The invariant of the service speaks of nothing that the collector changes.
LEMMA ServiceRests ==
  ASSUME ServiceInv, FactsTypeOK, UNCHANGED <<doc, unseen, service>>,
         lastAt' \in [Links -> Nat], \A l \in Links : lastAt[l] <= lastAt'[l]
  PROVE  ServiceInv'
<1>1. ServiceTypeOK' /\ EventsInOrder' /\ Covered'
  BY DEF ServiceInv, ServiceTypeOK, EventsInOrder, Covered, KeepsUp, Stable, service
<1>2. audit.body \in Body /\ view.body \in Body
  BY DEF ServiceInv, ServiceTypeOK, Versions
<1>3. Collected'
  BY <1>2, LaterLooksKeep DEF ServiceInv, Collected, SeenSince, service
<1> QED
  BY <1>1, <1>3 DEF ServiceInv

\* That of the collector and the node speaks of nothing that the service changes.
LEMMA WorldRests ==
  ASSUME WorldInv, UNCHANGED <<now, link, lastAt, doc, col, late>>
  PROVE  WorldInv'
  BY DEF WorldInv, FactsTypeOK, Sampled, SeenSince, RoundsAdvance, RevisionsAdvance

\* A step of the collector.
LEMMA CollectorSteps ==
  ASSUME FactsInv, Date \/ Collect \/ Read \/ SendPatch \/ GiveUp
  PROVE  FactsInv'
<1> USE FactsAssumption DEF FactsInv, WorldInv
<1>1. UNCHANGED <<doc, unseen, service, lastAt>>
  BY DEF Date, Collect, Read, SendPatch, GiveUp
<1>2. \A l \in Links : lastAt[l] \in Nat /\ lastAt[l] <= lastAt[l]
  BY DEF FactsTypeOK
<1>3. ServiceInv'
  BY <1>1, <1>2, ServiceRests DEF FactsTypeOK
<1>4. CASE Date
  <2>1. FactsTypeOK'
    BY <1>4 DEF Date, FactsTypeOK, Body, Versions, NoDocument, IdentityHolds
  <2>2. Sampled'
    BY <1>4 DEF Date, FactsTypeOK, Body, Versions, Sampled, SeenSince, NoDocument, IdentityHolds
  <2>3. RoundsAdvance' /\ RevisionsAdvance'
    BY <1>4 DEF Date, FactsTypeOK, Body, Versions, RoundsAdvance, RevisionsAdvance,
                NoDocument, IdentityHolds
  <2> QED BY <1>3, <2>1, <2>2, <2>3
<1>5. CASE Collect
  <2>0. Bridged \in BOOLEAN
    BY DEF Bridged
  <2>1. FactsTypeOK'
    BY <1>5, <2>0 DEF Collect, FactsTypeOK, Body
  <2>2. Sampled'
    BY <1>5 DEF Collect, FactsTypeOK, Body, Sampled, SeenSince, RoundsAdvance
  <2>3. RoundsAdvance' /\ RevisionsAdvance'
    BY <1>5 DEF Collect, FactsTypeOK, Body, Versions, RoundsAdvance, RevisionsAdvance,
                NoDocument, IdentityHolds
  <2> QED BY <1>3, <2>1, <2>2, <2>3
<1>6. CASE Read
  <2>1. FactsTypeOK'
    BY <1>6 DEF Read, FactsTypeOK, Body, Versions, NoDocument, IdentityHolds
  <2>2. Sampled'
    BY <1>6 DEF Read, FactsTypeOK, Body, Versions, Sampled, SeenSince, NoDocument, IdentityHolds
  <2>3. RoundsAdvance' /\ RevisionsAdvance'
    BY <1>6 DEF Read, FactsTypeOK, Body, Versions, RoundsAdvance, RevisionsAdvance,
                NoDocument, IdentityHolds
  <2> QED BY <1>3, <2>1, <2>2, <2>3
<1>7. CASE SendPatch
  <2>1. FactsTypeOK'
    BY <1>7 DEF SendPatch, FactsTypeOK, Body, Versions, NoDocument, IdentityHolds
  <2>2. Sampled'
    BY <1>7 DEF SendPatch, FactsTypeOK, Body, Versions, Sampled, SeenSince, NoDocument, IdentityHolds
  <2>3. RoundsAdvance' /\ RevisionsAdvance'
    BY <1>7 DEF SendPatch, FactsTypeOK, Body, Versions, RoundsAdvance, RevisionsAdvance,
                NoDocument, IdentityHolds
  <2> QED BY <1>3, <2>1, <2>2, <2>3
<1>8. CASE GiveUp
  <2>1. FactsTypeOK'
    BY <1>8 DEF GiveUp, FactsTypeOK, Body, Versions, NoDocument, IdentityHolds
  <2>2. Sampled'
    BY <1>8 DEF GiveUp, FactsTypeOK, Body, Versions, Sampled, SeenSince, NoDocument, IdentityHolds
  <2>3. RoundsAdvance' /\ RevisionsAdvance'
    BY <1>8 DEF GiveUp, FactsTypeOK, Body, Versions, RoundsAdvance, RevisionsAdvance,
                NoDocument, IdentityHolds
  <2> QED BY <1>3, <2>1, <2>2, <2>3
<1> QED
  BY <1>4, <1>5, <1>6, <1>7, <1>8

\* A write leaves the view as it is, and is on its way to the handler.
LEMMA StoreKeeps ==
  ASSUME ServiceInv, FactsTypeOK, UNCHANGED <<lastAt, service>>,
         NEW version \in Versions, version.rv = doc.rv + 1, Store(version)
  PROVE  ServiceInv'
<1>1. doc.rv \in Nat /\ version.rv > doc.rv /\ version.rv \in Nat
  BY DEF FactsTypeOK, Versions
<1>2. ServiceTypeOK' /\ Collected'
  BY DEF ServiceInv, ServiceTypeOK, Collected, SeenSince, Store, service
<1>3. Covered'
  BY DEF ServiceInv, ServiceTypeOK, Covered, KeepsUp, Stable, Store, service
<1>4. \A other \in unseen : /\ handled.rv < other.rv /\ other.rv <= doc.rv
                            /\ other.rv \in Nat
  BY DEF ServiceInv, ServiceTypeOK, EventsInOrder, Versions
<1>5. handled.rv \in Nat /\ handled.rv <= doc.rv
  BY <1>1, <1>4 DEF ServiceInv, ServiceTypeOK, EventsInOrder, Versions
<1>6. EventsInOrder'
  <2>1. doc' = version /\ unseen' = unseen \cup {version} /\ handled' = handled
    BY DEF Store, service
  <2>2. \A other \in unseen' : handled'.rv < other.rv /\ other.rv <= doc'.rv
    BY <1>1, <1>4, <1>5, <2>1
  <2>3. \A one, other \in unseen' : one.rv = other.rv => one = other
    BY <1>1, <1>4, <2>1 DEF ServiceInv, EventsInOrder
  <2> QED
    BY <1>1, <2>1, <2>2, <2>3 DEF EventsInOrder
<1> QED
  BY <1>2, <1>3, <1>6 DEF ServiceInv

\* A PATCH lands or is refused.
LEMMA LandKeeps ==
  ASSUME FactsInv, NEW p \in late, Land(p)
  PROVE  FactsInv'
<1> USE FactsAssumption DEF FactsInv, WorldInv
<1>1. CASE Tests(p)
  <2> DEFINE version == [uid |-> doc.uid, rv |-> doc.rv + 1, body |-> p.body]
  <2>1. p \in Versions /\ p.body \in Body /\ doc.uid \in Nat /\ doc.rv \in Nat
    BY DEF FactsTypeOK, Versions
  <2>2. version = [uid |-> doc.uid, rv |-> doc.rv + 1, body |-> p.body]
    OBVIOUS
  <2>3. Store(version) /\ UNCHANGED <<lastAt, service>>
    BY <1>1 DEF Land
  <2> HIDE DEF version
  <2>4. version \in Versions /\ version.rv = doc.rv + 1
    BY <2>1, <2>2 DEF Versions
  <2>5. ServiceInv'
    BY <2>3, <2>4, StoreKeeps
  <2>6. doc' = version
    BY <2>3 DEF Store
  <2>7. FactsTypeOK'
    BY <1>1, <2>4, <2>6 DEF Land, FactsTypeOK
  <2>8. Sampled'
    BY <1>1, <2>2, <2>6 DEF Land, FactsTypeOK, Body, Versions, Sampled, SeenSince
  <2>9. RoundsAdvance'
    BY <1>1, <2>2, <2>6 DEF Land, FactsTypeOK, Body, Versions, RoundsAdvance
  <2>10. RevisionsAdvance'
    <3>1. doc'.rv = doc.rv + 1 /\ UNCHANGED col /\ late' \subseteq late
      BY <1>1, <2>2, <2>6 DEF Land
    <3>2. \A q \in late' : q.rv \in Nat /\ q.rv <= doc.rv
      BY <3>1 DEF FactsTypeOK, Versions, RevisionsAdvance
    <3> QED BY <2>1, <3>1, <3>2 DEF FactsTypeOK, RevisionsAdvance
  <2> QED BY <2>5, <2>7, <2>8, <2>9, <2>10
<1>2. CASE ~Tests(p)
  <2>1. UNCHANGED <<now, link, lastAt, doc, col, unseen, service>> /\ late' \subseteq late
    BY <1>2 DEF Land
  <2>2. WorldInv'
    BY <2>1 DEF FactsTypeOK, Sampled, SeenSince, RoundsAdvance, RevisionsAdvance
  <2>3. ServiceInv'
    BY <2>1 DEF ServiceInv, ServiceTypeOK, Collected, SeenSince, EventsInOrder, Covered, KeepsUp,
                Stable, service
  <2> QED BY <2>2, <2>3
<1> QED BY <1>1, <1>2

\* The object is deleted and created anew.
LEMMA RecreateKeeps ==
  ASSUME FactsInv, Recreate
  PROVE  FactsInv'
<1> USE FactsAssumption DEF FactsInv, WorldInv
<1> DEFINE version == [uid |-> doc.uid + 1, rv |-> doc.rv + 1, body |-> NoDocument]
<1>1. version \in Versions /\ version.rv = doc.rv + 1
  BY DEF FactsTypeOK, Versions, Body, NoDocument
<1>2. Store(version) /\ doc' = version /\ UNCHANGED <<lastAt, service>>
  BY DEF Recreate, Store
<1>3. ServiceInv'
  <2> HIDE DEF version
  <2> QED BY <1>1, <1>2, StoreKeeps
<1>4. FactsTypeOK' /\ Sampled'
  BY <1>1, <1>2 DEF Recreate, FactsTypeOK, NoDocument, Sampled, SeenSince
<1>5. RoundsAdvance' /\ RevisionsAdvance'
  BY <1>1, <1>2 DEF Recreate, FactsTypeOK, Body, Versions, NoDocument, RoundsAdvance,
                    RevisionsAdvance
<1> QED BY <1>3, <1>4, <1>5

\* The links change, or time passes.
LEMMA NodeSteps ==
  ASSUME FactsInv, Relink \/ Tick
  PROVE  FactsInv'
<1> USE FactsAssumption DEF FactsInv, WorldInv
<1>1. FactsTypeOK' /\ \A l \in Links : lastAt[l] <= lastAt'[l]
  BY DEF Relink, Tick, FactsTypeOK, Sampled
<1>2. UNCHANGED <<doc, unseen, service>>
  BY DEF Relink, Tick
<1>3. ServiceInv'
  BY <1>1, <1>2, ServiceRests DEF FactsTypeOK
<1>4. doc.body \in Body /\ col.body \in Body /\ \A p \in late : p.body \in Body
  BY DEF FactsTypeOK, Versions
<1>5. UNCHANGED <<doc, col, late>>
  BY DEF Relink, Tick
<1>6. SeenSince(doc.body)' /\ SeenSince(col.body)' /\ \A p \in late' : SeenSince(p.body)'
  BY <1>1, <1>4, <1>5, LaterLooksKeep DEF Sampled, SeenSince, FactsTypeOK
<1>7. lastAt'[link'] = now' /\ \A l \in Links : lastAt'[l] <= now'
  BY DEF Relink, Tick, FactsTypeOK, Sampled
<1>8. Sampled'
  BY <1>5, <1>6, <1>7 DEF Sampled, SeenSince
<1>9. RoundsAdvance' /\ RevisionsAdvance'
  BY <1>5 DEF Relink, Tick, FactsTypeOK, RoundsAdvance, RevisionsAdvance
<1> QED BY <1>1, <1>3, <1>8, <1>9

\* After sequence or epoch moved on, nothing that was collected is valid.
LEMMA UncoverKeeps ==
  ASSUME ServiceInv, Uncover, UNCHANGED lastAt,
         handled' \in Versions, unseen' \in SUBSET Versions, watch' \in Nat
  PROVE  ServiceTypeOK' /\ Collected' /\ Covered'
<1>1. NoVersion \in Versions /\ NoVersion.body.link = None
  BY DEF NoVersion, NoDocument, Versions, Body
<1>2. ServiceTypeOK'
  BY <1>1 DEF Uncover, ServiceTypeOK
<1>3. Collected'
  BY <1>1 DEF Uncover, Collected, SeenSince
<1> QED BY <1>2, <1>3 DEF Covered, Uncover

\* The handler sees an event: a heartbeat shows what the last event showed,
\* and any other ends the validity of what was collected.
LEMMA HandleKeeps ==
  ASSUME FactsInv, NEW version \in unseen, Handle(version)
  PROVE  FactsInv'
<1> USE DEF FactsInv, ServiceInv
<1>1. WorldInv'
  BY WorldRests DEF Handle
<1>2. /\ handled' = version /\ unseen' = unseen \ {version}
      /\ UNCHANGED <<lastAt, doc, watch>>
  BY DEF Handle
<1>3. version \in Versions
  BY DEF ServiceTypeOK
<1>4. EventsInOrder'
  <2>1. \A other \in unseen' : /\ version.rv <= other.rv /\ version.rv # other.rv
                               /\ other.rv \in Nat /\ other.rv <= doc.rv
    BY <1>2 DEF Handle, EventsInOrder, ServiceTypeOK, Versions
  <2>2. version.rv \in Nat
    BY <1>3 DEF Versions
  <2>3. \A other \in unseen' : handled'.rv < other.rv /\ other.rv <= doc'.rv
    BY <1>2, <2>1, <2>2
  <2>4. \A one, other \in unseen' : one.rv = other.rv => one = other
    BY <1>2 DEF EventsInOrder
  <2>5. doc' \in unseen' \/ (unseen' = {} /\ handled' = doc')
    <3>1. doc \in unseen
      BY DEF EventsInOrder
    <3>2. CASE version = doc
      <4>1. \A other \in unseen' : version.rv < other.rv /\ other.rv <= version.rv
        BY <1>2, <2>3, <3>2
      <4>2. unseen' = {}
        BY <2>1, <2>2, <4>1
      <4> QED BY <1>2, <3>2, <4>2
    <3> QED BY <1>2, <3>1, <3>2
  <2> QED BY <1>2, <2>3, <2>4, <2>5 DEF EventsInOrder
<1>5. CASE Renewal(handled, version)
  <2>1. UNCHANGED <<audit, view>>
    BY <1>5 DEF Handle
  <2>2. Stable(handled) = Stable(version)
    BY <1>5 DEF Renewal
  <2>3. ServiceTypeOK' /\ Collected'
    BY <1>2, <1>3, <2>1 DEF ServiceTypeOK, Collected, SeenSince
  <2>4. ASSUME NEW v, KeepsUp(v) PROVE watch' = 0 => v \in unseen' \/ Stable(v) = Stable(handled')
    BY <1>2, <2>2, <2>4 DEF KeepsUp
  <2>5. Covered'
    <3>1. view # NoVersion /\ watch' = 0 => view \in unseen' \/ Stable(view) = Stable(handled')
      BY <2>4 DEF Covered
    <3>2. audit # NoVersion /\ watch' = 0 => audit \in unseen' \/ Stable(audit) = Stable(handled')
      BY <2>4 DEF Covered
    <3> QED BY <2>1, <3>1, <3>2 DEF Covered, KeepsUp, Stable
  <2> QED BY <1>1, <1>4, <2>3, <2>5
<1>6. CASE ~Renewal(handled, version)
  <2>1. Uncover
    BY <1>6 DEF Handle
  <2>2. ServiceTypeOK' /\ Collected' /\ Covered'
    BY <1>2, <1>3, <2>1, UncoverKeeps DEF ServiceTypeOK
  <2> QED BY <1>1, <1>4, <2>2
<1> QED BY <1>5, <1>6

\* The informer lists anew, and its Watch begins.
LEMMA InformerSteps ==
  ASSUME FactsInv, Relist \/ SourceBoundary
  PROVE  FactsInv'
<1> USE DEF FactsInv, ServiceInv
<1>1. WorldInv'
  BY WorldRests DEF Relist, SourceBoundary
<1>2. doc.rv \in Nat
  BY DEF WorldInv, FactsTypeOK, Versions
<1>3. CASE Relist
  <2>1. watch' = doc.rv /\ watch' # 0 /\ UNCHANGED <<lastAt, doc, handled, audit, view>>
    BY <1>2, <1>3 DEF Relist, EventsInOrder
  <2>2. unseen' \subseteq unseen /\ doc \in unseen'
    BY <1>3 DEF Relist, EventsInOrder
  <2>3. ServiceTypeOK' /\ Collected' /\ Covered'
    BY <1>2, <2>1, <2>2 DEF ServiceTypeOK, Collected, SeenSince, Covered, KeepsUp
  <2>4. EventsInOrder'
    BY <2>1, <2>2 DEF EventsInOrder
  <2> QED BY <1>1, <2>3, <2>4
<1>4. CASE SourceBoundary
  <2>1. watch' = 0 /\ Uncover /\ UNCHANGED <<lastAt, doc, handled, unseen>>
    BY <1>4 DEF SourceBoundary
  <2>2. ServiceTypeOK' /\ Collected' /\ Covered'
    BY <2>1, UncoverKeeps DEF ServiceTypeOK
  <2>3. EventsInOrder'
    BY <2>1 DEF EventsInOrder
  <2> QED BY <1>1, <2>2, <2>3
<1> QED BY <1>3, <1>4

\* An audit lists what is published, which is on its way to the handler or was
\* seen by it last, and that stays so until it is the view.
LEMMA AuditSteps ==
  ASSUME FactsInv, AuditList \/ AuditEnd \/ AuditFails
  PROVE  FactsInv'
<1> USE DEF FactsInv, ServiceInv
<1>1. WorldInv' /\ UNCHANGED <<lastAt, doc, handled, unseen, watch>>
  BY WorldRests DEF AuditList, AuditEnd, AuditFails
<1>2. EventsInOrder'
  BY <1>1 DEF EventsInOrder
<1>3. NoVersion \in Versions /\ NoVersion.body.link = None
  BY DEF NoVersion, NoDocument, Versions, Body
<1>4. CASE AuditList
  <2>1. audit' = doc /\ view' = view
    BY <1>4 DEF AuditList
  <2>2. doc \in Versions /\ SeenSince(doc.body)
    BY DEF WorldInv, FactsTypeOK, Sampled
  <2>3. ServiceTypeOK' /\ Collected'
    BY <1>1, <2>1, <2>2 DEF ServiceTypeOK, Collected, SeenSince
  <2>4. doc \in unseen \/ Stable(doc) = Stable(handled)
    BY DEF EventsInOrder
  <2>5. Covered'
    BY <1>1, <2>1, <2>4 DEF Covered, KeepsUp, Stable
  <2> QED BY <1>1, <1>2, <2>3, <2>5
<1>5. CASE AuditEnd \/ AuditFails
  <2>1. audit' = NoVersion /\ view' \in {audit, view} /\ (view' = audit => audit # NoVersion)
    BY <1>5 DEF AuditEnd, AuditFails
  <2>2. ServiceTypeOK' /\ Collected'
    BY <1>1, <1>3, <2>1 DEF ServiceTypeOK, Collected, SeenSince
  <2>3. Covered'
    BY <1>1, <2>1 DEF Covered, KeepsUp, Stable
  <2> QED BY <1>1, <1>2, <2>2, <2>3
<1> QED BY <1>4, <1>5

\* Every step of the collector, the API server, the node, the clock and the
\* service preserves the invariant.
LEMMA FactsNext == FactsInv /\ [Next]_vars => FactsInv'
<1> SUFFICES ASSUME FactsInv, [Next]_vars
             PROVE  FactsInv'
  OBVIOUS
<1>1. CASE UNCHANGED vars
  BY <1>1
  DEF vars, service, FactsInv, WorldInv, ServiceInv, FactsTypeOK, ServiceTypeOK, Sampled, Collected,
      SeenSince, RoundsAdvance, RevisionsAdvance, EventsInOrder, Covered, KeepsUp, Stable
<1>2. CASE Next
  BY <1>2, CollectorSteps, LandKeeps, RecreateKeeps, NodeSteps, HandleKeeps, InformerSteps,
     AuditSteps DEF Next
<1> QED BY <1>1, <1>2

\* A valid view lacks only heartbeats and what the informer's handler has yet
\* to see, and what it authorises was true of the node within the last minute
\* (KCObservation.changed, collect and valid, unchangedNodeFactsRenewal,
\* FilterNodeInterfaces).
THEOREM FactsAreSafe == Spec => []FactsSafety
<1>1. FactsInv => AuthorisedIsRecent
  BY FactsAssumption
  DEF FactsInv, WorldInv, ServiceInv, FactsTypeOK, ServiceTypeOK, Versions, Body, Collected, SeenSince,
      AuthorisedIsRecent, Authorise, Valid, Recent
<1>2. FactsInv => ValidViewIsHandled
  BY DEF FactsInv, ServiceInv, EventsInOrder, Covered, KeepsUp, ValidViewIsHandled, Valid
<1> QED
  BY <1>1, <1>2, FactsInit, FactsNext, PTL DEF Spec, FactsSafety

\* A PATCH of a round that was given up never replaces the document of a later
\* round (NodeFactsCollector.Publish).
THEOREM PublishedFactsAdvance == Spec => DocumentsAdvance
<1> DEFINE Advances == doc'.uid = doc.uid => doc'.body.at >= doc.body.at
<1>1. ASSUME FactsInv, [Next]_vars PROVE [Advances]_vars
  <2>1. ASSUME NEW p \in late, Land(p) PROVE Advances
    <3>1. CASE Tests(p)
      <4>1. doc'.body = p.body /\ p.rv = doc.rv
        BY <1>1, <2>1, <3>1 DEF Land, Store, Tests, FactsInv, WorldInv, FactsTypeOK, Versions
      <4>2. doc.body.at <= p.body.at /\ doc.body.at \in Nat /\ p.body.at \in Nat
        BY <1>1, <2>1, <4>1 DEF FactsInv, WorldInv, FactsTypeOK, Body, Versions, RevisionsAdvance
      <4> QED BY <4>1, <4>2
    <3>2. CASE ~Tests(p)
      BY <1>1, <2>1, <3>2 DEF Land, FactsInv, WorldInv, FactsTypeOK, Versions, Body
    <3> QED BY <3>1, <3>2
  <2>2. CASE Recreate
    BY <1>1, <2>2 DEF Recreate, Store, FactsInv, WorldInv, FactsTypeOK, Versions
  <2>3. CASE UNCHANGED doc
    BY <1>1, <2>3 DEF FactsInv, WorldInv, FactsTypeOK, Versions, Body
  <2> QED
    BY <1>1, <2>1, <2>2, <2>3
    DEF Next, vars, Date, Collect, Read, SendPatch, GiveUp, Relink, Tick, Handle, Relist,
        SourceBoundary, AuditList, AuditEnd, AuditFails
<1> QED
  BY <1>1, FactsInit, FactsNext, PTL DEF Spec, DocumentsAdvance
=============================================================================
