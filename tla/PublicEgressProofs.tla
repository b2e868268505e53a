------------------------- MODULE PublicEgressProofs -------------------------
(***************************************************************************)
(* What a binding's row says about its EIP and its switch is true, for any *)
(* number of EIPs, bindings, lanes and failures (EgressSafety), and a late *)
(* patch never undoes a newer intent (LatePatchIsHarmless).                *)
(*                                                                         *)
(* Neither is inductive.  EgressInv adds what the code relies on:          *)
(*   - one POST at most is under way for a resource, and while it is, its  *)
(*     row says so (pending_action) and no object was made (GoodResource); *)
(*   - a binding that is neither absent nor deleted holds its EIP, and an  *)
(*     EIP that is held exists and is not being removed (GoodBinding,      *)
(*     GoodEip);                                                           *)
(*   - a patch that can still apply carries the desired position, and it   *)
(*     differs from the position of the switch: once the switch is where   *)
(*     it should be, all patches under way are stale (GoodRequest);        *)
(*   - what a lane concludes is true as long as its fences hold, and what  *)
(*     it concludes of a removal is true for good (GoodLane).              *)
(***************************************************************************)
EXTENDS PublicEgress, TLAPS

-----------------------------------------------------------------------------
(***************************************************************************)
(* The inductive invariant.                                                *)
(***************************************************************************)
LaneWork ==
  [res : Resources, state : ResourceStates, active : BOOLEAN, uid : Nat,
   pending : PendingActions \cup {"update"}, fresh : BOOLEAN, kind : Kinds,
   desired : BOOLEAN]

LaneRecord ==
  [at : LaneStates, call : Mutations \cup {"none"}, cancel : BOOLEAN,
   heard : BOOLEAN, held : SUBSET Fences, facts : Facts, work : LaneWork,
   prog : Progress]

Types ==
  /\ row \in [Resources -> EgressRow] /\ lane \in [Workers -> LaneRecord]
  /\ net \subseteq Request
  /\ obj \in [Resources -> {"absent", "live", "terminating"}]
  /\ made \in [Resources -> Nat]
  /\ target \in [Snats -> [vpc : Vpcs \cup {Nobody}, eip : Eips \cup {Nobody}]]
  /\ claim \in [Eips -> Snats \cup {LB, Nobody}]
  /\ bound \in [Eips -> Snats \cup {LB, Nobody}]
  /\ spec \in [Snats -> BOOLEAN] /\ status \in [Snats -> Facts]
  /\ rv \in [Snats -> Nat]

Ending == {"deleting", "deleted"}

\* Nothing of r is left, and nothing can come back.
Vanished(r) ==
  /\ row[r].state \in Ending /\ ~Present(r)
  /\ r \in Snats => bound[EipOf(r)] # r

GoodResource(r) ==
  /\ made[r] <= 1 /\ (Exists(r) => made[r] = 1)
  /\ row[r].uid \in {0, made[r]}
  /\ PostMayLand(r) => /\ made[r] = 0 /\ row[r].pending = "create"
                       /\ row[r].state \notin {"none", "deleted"}
  /\ made[r] = 1 => row[r].uid = 1 \/ row[r].pending = "create"
  /\ made[r] = 1 /\ row[r].state \notin Ending => obj[r] = "live"
  /\ row[r].state = "none" => row[r] = NoEgressRow
  /\ row[r].state = "deleted" => Vanished(r)

\* The switch is where the row wants it, or there is none yet.
InPlace(s) == made[s] = 1 => spec[s] = row[s].desired

\* The controller has confirmed it.
Confirmed(s, facts) ==
  /\ made[s] = 1 /\ facts = Switch(row[s].desired)
  /\ spec[s] = row[s].desired /\ status[s] = facts

GoodBinding(s) ==
  /\ row[s].state # "none" => EipOf(s) \in Eips
  /\ row[s].state \notin {"none", "deleted"} => claim[EipOf(s)] = s
  /\ Completed(s) /\ row[s].state \notin Ending => row[s].pending # "create" /\ InPlace(s)
  /\ row[s].applied # "unknown" /\ row[s].state \notin Ending => Confirmed(s, row[s].applied)

GoodEip(e) ==
  /\ claim[e] # Nobody => made[e] = 1 /\ row[e].state \notin Ending
  /\ claim[e] \in Snats => /\ EipOf(claim[e]) = e
                           /\ row[claim[e]].state \notin {"none", "deleted"}
  /\ bound[e] # Nobody => claim[e] = bound[e]

GoodRequest(q) ==
  /\ q.kind = "delete" => row[q.res].state \in Ending
  /\ q.kind = "update" =>
       /\ q.res \in Snats /\ q.rv <= rv[q.res]
       /\ PatchApplies(q) => q.enable = row[q.res].desired /\ spec[q.res] # q.enable

\* A lane's POST is about to be sent.
Posting(w) == lane[w].at = "check" /\ lane[w].call = "create"

IsPost(q, r) == q.kind = "create" /\ q.res = r

OnePost ==
  /\ \A q1, q2 \in net : q1.kind = "create" /\ IsPost(q2, q1.res) => q1 = q2
  /\ \A w \in Workers : Posting(w) =>
       /\ \A q \in net : ~IsPost(q, Res(w))
       /\ \A v \in Workers : Posting(v) /\ Res(v) = Res(w) => v = w

\* The work a lane has claimed, and how far it may be from the row.
GoodWork(w) ==
  LET r == Res(w)
      k == lane[w].work
  IN /\ row[r].state # "none" /\ k.state # "none"
     /\ k.uid \in {0, made[r]}
     /\ k.state \in Ending =>
          row[r].state \in Ending /\ (k.pending # "create" => row[r].pending # "create")
     /\ "version" \in lane[w].held =>
          /\ row[r].state = k.state /\ row[r].desired = k.desired
          /\ Active(row[r]) <=> k.active

\* Its progress: of a removal it says the truth for good.
GoodProgress(w) ==
  LET r == Res(w)
      k == lane[w].work
      p == lane[w].prog
  IN /\ p.uid \in {0, made[r]} /\ p.state # "none"
     /\ p.state \in Ending <=> k.state \in Ending
     /\ k.state = "deleted" => p.state = "deleted"
     /\ p.state = "deleted" => Vanished(r)
     /\ lane[w].at # "finish" => p.op \notin CompletedStates

\* The call it has decided on.
GoodCall(w) ==
  lane[w].at \in {"begin", "check", "sent"} =>
    /\ lane[w].call # "none"
    /\ lane[w].call = "delete" <=> lane[w].work.state \in Ending
    /\ lane[w].call = "create" => lane[w].work.active
    /\ lane[w].call # "create" => lane[w].prog.uid = 1
    /\ lane[w].call = "update" => Res(w) \in Snats

\* What holds of the row as long as both fences do: before the call, during
\* it, and of the conclusion.
GoodBefore(w) ==
  lane[w].at \in {"claimed", "begin"} =>
    row[Res(w)].pending = lane[w].work.pending /\ row[Res(w)].uid = lane[w].work.uid

GoodDuring(w) ==
  lane[w].at \in {"check", "sent"} => row[Res(w)].pending = lane[w].call

GoodAfter(w) ==
  LET r == Res(w)
      k == lane[w].work
      p == lane[w].prog
  IN lane[w].at = "finish" =>
       /\ p.clear => ~PostMayLand(r) /\ (made[r] = 1 => 1 \in {p.uid, row[r].uid})
       /\ r \in Snats /\ k.state \notin Ending =>
            /\ k.active /\ p.op \in CompletedStates =>
                 InPlace(r) /\ (p.clear \/ row[r].pending # "create")
            /\ p.observed /\ lane[w].facts # "unknown" => Confirmed(r, lane[w].facts)

GoodHold(w) == GoodBefore(w) /\ GoodDuring(w) /\ GoodAfter(w)

GoodLane(w) ==
  lane[w].at # "idle" =>
    /\ GoodWork(w) /\ GoodProgress(w) /\ GoodCall(w)
    /\ lane[w].held = Fences => GoodHold(w)

\* One lane holds the epoch of a resource.
OneHolder ==
  \A w, v \in Workers :
    "epoch" \in lane[w].held /\ "epoch" \in lane[v].held /\ Res(w) = Res(v) => w = v

EgressInv ==
  /\ Types
  /\ \A r \in Resources : GoodResource(r)
  /\ \A s \in Snats : GoodBinding(s)
  /\ \A e \in Eips : GoodEip(e)
  /\ \A q \in net : GoodRequest(q)
  /\ \A w \in Workers : GoodLane(w)
  /\ OnePost /\ OneHolder

-----------------------------------------------------------------------------
(***************************************************************************)
(* What the step's operators conclude.                                     *)
(***************************************************************************)
Sight == [exists : BOOLEAN, uid : Nat, ready : BOOLEAN, deps : BOOLEAN,
          needs : BOOLEAN, applied : Facts]

LEMMA StartFields ==
  ASSUME NEW k \in LaneWork
  PROVE  /\ StartProgress(k) \in Progress
         /\ StartProgress(k).state = k.state /\ StartProgress(k).uid = k.uid
         /\ StartProgress(k).op \in {"retrying", "none"}
         /\ ~StartProgress(k).observed /\ ~StartProgress(k).clear
<1>1. /\ k.state \in ResourceStates /\ k.uid \in Nat
      /\ (IF k.active THEN "retrying" ELSE "none") \in {"retrying", "none"}
  BY DEF LaneWork
<1> QED
  BY <1>1 DEF StartProgress, Progress, OperationStates, ActiveStates

LEMMA ObservedFields ==
  ASSUME NEW k \in LaneWork, NEW o \in Sight
  PROVE  /\ Observed(k, o) \in Progress
         /\ Observed(k, o).state = k.state
         /\ Observed(k, o).uid = IF o.exists THEN o.uid ELSE k.uid
         /\ Observed(k, o).op \in {"retrying", "none"}
         /\ Observed(k, o).clear <=> o.exists /\ k.pending = "create"
<1> DEFINE u == IF o.exists THEN o.uid ELSE k.uid
<1> PICK c \in BOOLEAN : c = (o.exists /\ k.pending = "create")
  BY DEF Sight
<1>1. u \in Nat
  BY DEF LaneWork, Sight
<1>2. Observed(k, o) = [StartProgress(k) EXCEPT !.observed = TRUE, !.uid = u, !.clear = c]
  BY DEF Observed
<1> HIDE DEF u
<1>3. PICK p \in Progress : p = StartProgress(k)
  BY StartFields
<1>4. /\ [p EXCEPT !.observed = TRUE, !.uid = u, !.clear = c] \in Progress
      /\ Observed(k, o).state = p.state /\ Observed(k, o).uid = u
      /\ Observed(k, o).op = p.op /\ Observed(k, o).clear = c
  BY <1>1, <1>2, <1>3 DEF Progress
<1> QED
  BY <1>2, <1>3, <1>4, StartFields DEF u

LEMMA ObserveFailedFields ==
  ASSUME NEW k \in LaneWork, NEW kind
  PROVE  /\ ObserveFailed(k, kind) \in Progress
         /\ ObserveFailed(k, kind).state \in {k.state, "degraded"}
         /\ ObserveFailed(k, kind).state # k.state => k.state = "available"
         /\ ObserveFailed(k, kind).uid = k.uid
         /\ ObserveFailed(k, kind).op \in {"retrying", "none", "blocked"}
         /\ ~ObserveFailed(k, kind).observed /\ ~ObserveFailed(k, kind).clear
<1>1. PICK p \in Progress : p = StartProgress(k)
  BY StartFields
<1> DEFINE o == IF k.active /\ kind = "conflict" THEN "blocked" ELSE p.op
           t == IF k.state = "available" /\ (kind = "conflict" \/ ~k.fresh)
                  THEN "degraded" ELSE p.state
<1>2. p.state = k.state /\ p.uid = k.uid /\ p.op \in {"retrying", "none"}
      /\ ~p.observed /\ ~p.clear
  BY <1>1, StartFields
<1>3. /\ o \in {"retrying", "none", "blocked"}
      /\ t \in {k.state, "degraded"} /\ (t # k.state => k.state = "available")
      /\ t \in ResourceStates
  BY <1>2 DEF LaneWork, ResourceStates
<1>4. ObserveFailed(k, kind) = [p EXCEPT !.op = o, !.state = t]
  BY <1>1 DEF ObserveFailed
<1> HIDE DEF o, t
<1> QED
  BY <1>2, <1>3, <1>4 DEF Progress, OperationStates, ActiveStates

\* Settle, for a resource that is not being removed.
LEMMA SettleFields ==
  ASSUME NEW k \in LaneWork, NEW p \in Progress, NEW ready \in BOOLEAN,
         k.state \notin Ending, k.state # "none"
  PROVE  /\ Settle(k, ready, p) \in Progress
         /\ Settle(k, ready, p).state \notin Ending \cup {"none"}
         /\ Settle(k, ready, p).uid = p.uid /\ Settle(k, ready, p).clear = p.clear
         /\ Settle(k, ready, p).observed = p.observed
         /\ ~ready => Settle(k, ready, p).op = p.op
<1>1. CASE ready
  <2> DEFINE o == IF k.active THEN "succeeded" ELSE p.op
  <2>1. Settle(k, ready, p) = [p EXCEPT !.state = "available", !.op = o]
    BY <1>1 DEF Settle
  <2>2. o \in OperationStates
    BY DEF Progress, OperationStates, CompletedStates
  <2> HIDE DEF o
  <2> QED
    BY <1>1, <2>1, <2>2 DEF Progress, ResourceStates, Ending
<1>2. CASE ~ready
  <2>1. Settle(k, ready, p) = [p EXCEPT !.state = Degrade(k.state)]
    BY <1>2 DEF Settle
  <2>2. Degrade(k.state) \in ResourceStates \ (Ending \cup {"none"})
    BY DEF Degrade, LaneWork, ResourceStates, Ending
  <2> QED
    BY <2>1, <2>2 DEF Progress
<1> QED
  BY <1>1, <1>2

\* The call a step decides on.
LEMMA CallFacts ==
  ASSUME NEW k \in LaneWork, NEW o \in Sight
  PROVE  /\ EgressCall(k, o) \in Mutations \cup {"none"}
         /\ EgressCall(k, o) = "delete" => k.state \in Ending /\ o.exists
         /\ EgressCall(k, o) = "create" => k.active /\ k.state \notin Ending /\ ~o.exists
         /\ EgressCall(k, o) = "update" => k.state \notin Ending /\ o.exists /\ o.needs
<1>1. CASE k.state \in Ending
  BY <1>1 DEF EgressCall, NextCall, Removing, NeedsDelete, Ending, Mutations
<1>2. CASE k.state \notin Ending /\ k.state = "failed"
  BY <1>2 DEF EgressCall, NextCall, Removing, Ending, Mutations
<1>3. CASE k.state \notin Ending /\ k.state # "failed"
  BY <1>3 DEF EgressCall, NextCall, Removing, NeedsCreate, Ending, Mutations
<1> QED
  BY <1>1, <1>2, <1>3

\* A step that calls the provider has only observed.
LEMMA CallingFacts ==
  ASSUME NEW k \in LaneWork, NEW o \in Sight, EgressCall(k, o) # "none"
  PROVE  EgressProgress(k, o) = Observed(k, o)
<1>1. CASE EgressCall(k, o) = "update"
  BY <1>1 DEF EgressProgress
<1>2. CASE EgressCall(k, o) # "update"
  <2>1. EgressCall(k, o) = NextCall(k, o)
    BY <1>2 DEF EgressCall
  <2>2. StepProgress(k, o) = Observed(k, o)
    BY <2>1 DEF StepProgress
  <2>3. ~(~Removing(k) /\ k.state # "failed" /\ o.exists)
    BY <1>2, CallFacts DEF Removing, Ending, Mutations
  <2> QED
    BY <1>2, <2>2, <2>3 DEF EgressProgress
<1> QED
  BY <1>1, <1>2

\* A removal without a call: the conclusion that the resource is gone needs
\* its absence, no dependencies and no POST in doubt.
LEMMA RemovingFacts ==
  ASSUME NEW k \in LaneWork, NEW o \in Sight, k.state \in Ending,
         EgressCall(k, o) = "none"
  PROVE  LET p == EgressProgress(k, o)
         IN /\ p \in Progress /\ p.uid = IF o.exists THEN o.uid ELSE k.uid
            /\ p.state \in Ending /\ (k.state = "deleted" => p.state = "deleted")
            /\ p.state = "deleted" => \/ k.state = "deleted"
                                      \/ ~o.exists /\ ~o.deps /\ k.pending # "create"
            /\ p.clear /\ ~o.exists => k.pending # "create"
<1>1. Removing(k)
  BY DEF Removing, Ending
<1>2. NextCall(k, o) = "none" /\ EgressCall(k, o) # "update"
  BY <1>1 DEF EgressCall
<1>3. ~NeedsDelete(k, o)
  BY <1>1, <1>2 DEF NextCall, Removing, NeedsDelete
<1>4. EgressProgress(k, o) = DeleteProgress(k, o)
  BY <1>1, <1>2 DEF EgressProgress, StepProgress, Removing
<1>5. PICK p \in Progress : p = Observed(k, o)
  BY ObservedFields
<1>6. /\ p.state = k.state /\ p.uid = IF o.exists THEN o.uid ELSE k.uid
      /\ p.clear <=> o.exists /\ k.pending = "create"
  BY <1>5, ObservedFields
<1>7. CASE o.deps \/ k.pending = "create"
  <2>1. EgressProgress(k, o) = [p EXCEPT !.op = "blocked"]
    BY <1>4, <1>5, <1>7 DEF DeleteProgress
  <2>2. /\ [p EXCEPT !.op = "blocked"] \in Progress
        /\ [p EXCEPT !.op = "blocked"].state = p.state
        /\ [p EXCEPT !.op = "blocked"].uid = p.uid
        /\ [p EXCEPT !.op = "blocked"].clear = p.clear
    BY DEF Progress, OperationStates, ActiveStates
  <2> QED
    BY <1>6, <2>1, <2>2
<1>8. CASE ~(o.deps \/ k.pending = "create")
  <2> DEFINE d == [p EXCEPT !.state = "deleted", !.op = "succeeded", !.clear = TRUE]
  <2>1. EgressProgress(k, o) = d
    BY <1>4, <1>5, <1>8 DEF DeleteProgress
  <2>2. d \in Progress /\ d.state = "deleted" /\ d.uid = p.uid
    BY DEF Progress, OperationStates, CompletedStates, ResourceStates
  <2>3. ~o.exists
    BY <1>3, <1>8 DEF NeedsDelete
  <2> QED
    BY <1>6, <1>8, <2>1, <2>2, <2>3 DEF Ending
<1> QED
  BY <1>7, <1>8

\* A step that ensures the resource and needs no call: it completes only what
\* it has seen ready, with the switch in its place.
LEMMA EnsuringFacts ==
  ASSUME NEW k \in LaneWork, NEW o \in Sight, k.state \notin Ending, k.state # "none",
         EgressCall(k, o) = "none"
  PROVE  LET p == EgressProgress(k, o)
         IN /\ p \in Progress /\ p.uid = IF o.exists THEN o.uid ELSE k.uid
            /\ p.state \notin Ending \cup {"none"}
            /\ p.clear => o.exists
            /\ k.active /\ p.op \in CompletedStates =>
                 o.exists /\ o.ready /\ (k.pending = "create" => p.clear)
<1>1. ~Removing(k)
  BY DEF Removing, Ending
<1>2. PICK p \in Progress : p = Observed(k, o)
  BY ObservedFields
<1>3. /\ p.state = k.state /\ p.uid = IF o.exists THEN o.uid ELSE k.uid
      /\ p.clear <=> o.exists /\ k.pending = "create"
      /\ p.op \in {"retrying", "none"}
  BY <1>2, ObservedFields
<1>4. NextCall(k, o) = "none" /\ EgressCall(k, o) # "update"
  BY DEF EgressCall
<1>5. CASE k.state = "failed"
  <2>1. EgressProgress(k, o) = p
    BY <1>2, <1>4, <1>5 DEF EgressProgress, StepProgress
  <2> QED
    BY <1>3, <1>5, <2>1 DEF Ending, CompletedStates
<1>6. CASE k.state # "failed" /\ o.exists /\ o.needs
  <2>1. EgressProgress(k, o) = [p EXCEPT !.state = "degraded"]
    BY <1>1, <1>2, <1>4, <1>6 DEF EgressProgress
  <2>2. /\ [p EXCEPT !.state = "degraded"] \in Progress
        /\ [p EXCEPT !.state = "degraded"].uid = p.uid
        /\ [p EXCEPT !.state = "degraded"].state = "degraded"
        /\ [p EXCEPT !.state = "degraded"].op = p.op
        /\ [p EXCEPT !.state = "degraded"].clear = p.clear
    BY DEF Progress, ResourceStates
  <2> QED
    BY <1>3, <2>1, <2>2 DEF Ending, CompletedStates
<1>7. CASE k.state # "failed" /\ o.exists /\ ~o.needs
  <2> DEFINE t == Settle(k, o.ready, p)
  <2>1. StepProgress(k, o) = t
    BY <1>1, <1>2, <1>4, <1>7 DEF StepProgress, EnsureProgress
  <2>2. o.ready \in BOOLEAN
    BY DEF Sight
  <2>3. /\ t \in Progress /\ t.state \notin Ending \cup {"none"}
        /\ t.uid = p.uid /\ t.clear = p.clear /\ (~o.ready => t.op = p.op)
    BY <2>2, SettleFields
  <2> HIDE DEF t
  <2>4. CASE k.pending = "update"
    <3>1. EgressProgress(k, o) = [t EXCEPT !.clear = TRUE]
      BY <1>1, <1>4, <1>7, <2>1, <2>4 DEF EgressProgress
    <3>2. /\ [t EXCEPT !.clear = TRUE] \in Progress
          /\ [t EXCEPT !.clear = TRUE].uid = t.uid
          /\ [t EXCEPT !.clear = TRUE].op = t.op
          /\ [t EXCEPT !.clear = TRUE].state = t.state
          /\ [t EXCEPT !.clear = TRUE].clear
      BY <2>3 DEF Progress
    <3> QED
      BY <1>3, <1>7, <2>2, <2>3, <3>1, <3>2 DEF CompletedStates
  <2>5. CASE k.pending # "update"
    <3>1. EgressProgress(k, o) = t
      BY <1>1, <1>4, <1>7, <2>1, <2>5 DEF EgressProgress
    <3> QED
      BY <1>3, <1>7, <2>2, <2>3, <3>1 DEF CompletedStates
  <2> QED
    BY <2>4, <2>5
<1>8. CASE k.state # "failed" /\ ~o.exists
  <2> DEFINE g == IF k.pending = "create" THEN p.state ELSE Degrade(p.state)
             b == [p EXCEPT !.op = "blocked", !.state = g]
  <2>1. EgressProgress(k, o) = b
    BY <1>1, <1>2, <1>4, <1>8 DEF EgressProgress, StepProgress, EnsureProgress
  <2>2. g \in ResourceStates \ (Ending \cup {"none"})
    BY <1>3 DEF Degrade, LaneWork, ResourceStates, Ending
  <2> HIDE DEF g
  <2>3. b \in Progress /\ b.op = "blocked" /\ b.state = g /\ b.uid = p.uid /\ b.clear = p.clear
    BY <2>2 DEF Progress, OperationStates, ActiveStates
  <2> QED
    BY <1>3, <1>8, <2>1, <2>2, <2>3 DEF CompletedStates
<1> QED
  BY <1>5, <1>6, <1>7, <1>8 DEF Sight

\* What an answer to a call leads to.
LEMMA CreateFailedFields ==
  ASSUME NEW k \in LaneWork, NEW p \in Progress, p.op \notin CompletedStates,
         NEW kind \in {"temporary", "conflict", "reject", "uncertain"}
  PROVE  LET f == CreateFailed(k, p, kind)
         IN /\ f \in Progress /\ f.uid = p.uid /\ ~f.observed
            /\ f.state \in {p.state, "failed"}
            /\ f.clear <=> kind # "uncertain"
            /\ f.op \in CompletedStates => f.clear
<1> DEFINE o == CASE kind = "reject"    -> "failed"
                  [] kind = "temporary" -> p.op
                  [] OTHER              -> "blocked"
           t == IF kind = "reject" THEN "failed" ELSE p.state
           f == CreateFailed(k, p, kind)
<1> PICK c \in BOOLEAN : c = (kind # "uncertain")
  OBVIOUS
<1>1. f = [p EXCEPT !.observed = FALSE, !.clear = c, !.state = t, !.op = o]
  BY DEF CreateFailed
<1>2. o \in OperationStates /\ (o \in CompletedStates => kind = "reject")
  BY DEF Progress, OperationStates, CompletedStates, ActiveStates
<1>3. t \in ResourceStates /\ t \in {p.state, "failed"}
  BY DEF Progress, ResourceStates
<1> HIDE DEF o, t, f
<1>4. /\ f \in Progress /\ f.uid = p.uid /\ f.observed = FALSE /\ f.clear = c
      /\ f.state = t /\ f.op = o
  BY <1>1, <1>2, <1>3 DEF Progress
<1> QED
  BY <1>2, <1>3, <1>4 DEF f

LEMMA UpdateFailedFields ==
  ASSUME NEW k \in LaneWork, NEW p \in Progress, p.op \notin CompletedStates, NEW kind
  PROVE  LET f == UpdateFailed(k, p, kind)
         IN /\ f \in Progress /\ f.uid = p.uid /\ f.state = p.state /\ ~f.observed
            /\ f.op \notin CompletedStates
<1> DEFINE o == IF kind = "conflict" THEN "blocked" ELSE p.op
           f == UpdateFailed(k, p, kind)
<1> PICK c \in BOOLEAN : c = (kind # "uncertain")
  OBVIOUS
<1>1. f = [p EXCEPT !.observed = FALSE, !.clear = c, !.op = o]
  BY DEF UpdateFailed
<1>2. o \in OperationStates \ CompletedStates
  BY DEF Progress, OperationStates, CompletedStates, ActiveStates
<1> HIDE DEF o, f
<1>3. /\ f \in Progress /\ f.uid = p.uid /\ f.state = p.state /\ f.observed = FALSE /\ f.op = o
  BY <1>1, <1>2 DEF Progress
<1> QED
  BY <1>2, <1>3 DEF f

LEMMA DeleteAnsweredFields ==
  ASSUME NEW k \in LaneWork, NEW p \in Progress, p.op \notin CompletedStates, NEW kind
  PROVE  LET f == DeleteAnswered(k, p, kind)
         IN /\ f \in Progress /\ f.uid = p.uid /\ f.state = p.state /\ ~f.clear
            /\ f.op \notin CompletedStates
<1> DEFINE o == IF kind \in {"ok", "temporary"} THEN p.op ELSE "blocked"
           f == DeleteAnswered(k, p, kind)
<1>1. f = [p EXCEPT !.clear = FALSE, !.op = o]
  BY DEF DeleteAnswered
<1>2. o \in OperationStates \ CompletedStates
  BY DEF Progress, OperationStates, CompletedStates, ActiveStates
<1> HIDE DEF o, f
<1>3. f \in Progress /\ f.uid = p.uid /\ f.state = p.state /\ f.clear = FALSE /\ f.op = o
  BY <1>1, <1>2 DEF Progress
<1> QED
  BY <1>2, <1>3 DEF f

\* A POST or a patch that was accepted, not yet observed ready or observed so.
LEMMA CreateSucceededFields ==
  ASSUME NEW k \in LaneWork, NEW p \in Progress, NEW u \in Nat,
         k.state \notin Ending, k.state # "none"
  PROVE  LET f == CreateSucceeded(k, p, u, FALSE)
         IN /\ f \in Progress /\ f.uid = u /\ f.op = p.op
            /\ f.state \notin Ending \cup {"none"}
<1>1. PICK g \in Progress : g = [p EXCEPT !.uid = u, !.clear = TRUE]
  BY DEF Progress
<1>2. g.uid = u /\ g.op = p.op
  BY <1>1 DEF Progress
<1>3. CreateSucceeded(k, p, u, FALSE) = Settle(k, FALSE, g)
  BY <1>1 DEF CreateSucceeded
<1>4. /\ Settle(k, FALSE, g) \in Progress /\ Settle(k, FALSE, g).uid = g.uid
      /\ Settle(k, FALSE, g).state \notin Ending \cup {"none"} /\ Settle(k, FALSE, g).op = g.op
  BY SettleFields
<1> QED
  BY <1>2, <1>3, <1>4

LEMMA UpdateSucceededFields ==
  ASSUME NEW k \in LaneWork, NEW p \in Progress, NEW ready \in BOOLEAN,
         k.state \notin Ending, k.state # "none"
  PROVE  LET f == UpdateSucceeded(k, p, ready, FALSE)
         IN /\ f \in Progress /\ f.uid = p.uid /\ (~ready => f.op = p.op)
            /\ f.state \notin Ending \cup {"none"}
<1>1. PICK g \in Progress : g = [p EXCEPT !.clear = TRUE]
  BY DEF Progress
<1>2. g.uid = p.uid /\ g.op = p.op
  BY <1>1 DEF Progress
<1>3. UpdateSucceeded(k, p, ready, FALSE) = Settle(k, ready, g)
  BY <1>1 DEF UpdateSucceeded
<1>4. /\ Settle(k, ready, g) \in Progress /\ Settle(k, ready, g).uid = g.uid
      /\ Settle(k, ready, g).state \notin Ending \cup {"none"} /\ (~ready => Settle(k, ready, g).op = g.op)
  BY SettleFields
<1> QED
  BY <1>2, <1>3, <1>4

-----------------------------------------------------------------------------
(***************************************************************************)
(* What a step may do to a resource without disturbing what is known of it *)
(* and of the lanes that work on it.                                       *)
(***************************************************************************)
SameRow(r) ==
  /\ row'[r].state = row[r].state /\ row'[r].uid = row[r].uid
  /\ row'[r].pending = row[r].pending /\ row'[r].desired = row[r].desired
  /\ row'[r].applied = row[r].applied
  /\ row'[r].op \in CompletedStates <=> row[r].op \in CompletedStates
  /\ row'[r].op \in ActiveStates <=> row[r].op \in ActiveStates
  /\ row[r].state = "none" => row'[r] = row[r]

\* The object may go, a switch may come to its place, and what a patch in the
\* wrong place would test moves on.
LaterObject(r) ==
  /\ made'[r] = made[r] /\ (Exists(r)' => Exists(r))
  /\ obj[r] = "live" /\ row[r].state \notin Ending => obj'[r] = "live"

LaterSwitch(s) ==
  /\ target'[s] = target[s] /\ rv'[s] >= rv[s]
  /\ spec'[s] # spec[s] => rv'[s] > rv[s] /\ spec[s] # row[s].desired
  /\ status[s] = Switch(spec[s]) => status'[s] = status[s]
  /\ EipOf(s) \in Eips /\ bound'[EipOf(s)] = s => bound[EipOf(s)] = s \/ Exists(s)

Calm(r) == SameRow(r) /\ LaterObject(r) /\ (r \in Snats => LaterSwitch(r))

Undisturbed(r) == Calm(r) /\ (PostMayLand(r)' => PostMayLand(r))

LEMMA Parts == Eips \subseteq Resources /\ Snats \subseteq Resources /\ Eips \cap Snats = {}
  BY EgressAssumption

LEMMA UndisturbedVanished ==
  ASSUME EgressInv, NEW r \in Resources, Undisturbed(r), Vanished(r)
  PROVE  Vanished(r)'
<1>1. row'[r].state \in Ending
  BY DEF Undisturbed, Calm, SameRow, Vanished
<1>2. ~PostMayLand(r)' /\ ~Exists(r)' /\ ~Exists(r)
  BY DEF Undisturbed, Calm, LaterObject, Vanished, Present
<1>3. ASSUME r \in Snats PROVE bound'[EipOf(r)'] # r
  <2>1. EipOf(r) \in Eips
    BY <1>3 DEF EgressInv, GoodBinding, Vanished, Ending
  <2>2. EipOf(r)' = EipOf(r)
    BY <1>3 DEF Undisturbed, Calm, LaterSwitch, EipOf
  <2> QED
    BY <1>2, <1>3, <2>1, <2>2 DEF Undisturbed, Calm, LaterSwitch, Vanished
<1> QED
  BY <1>1, <1>2, <1>3 DEF Vanished, Present

LEMMA UndisturbedResource ==
  ASSUME EgressInv, Types', NEW r \in Resources, Undisturbed(r)
  PROVE  GoodResource(r)'
<1>1. GoodResource(r)
  BY DEF EgressInv
<1>2. row'[r].state = "deleted" => Vanished(r)'
  BY <1>1, UndisturbedVanished DEF GoodResource, Undisturbed, Calm, SameRow
<1>3. /\ made'[r] <= 1 /\ (Exists(r)' => made'[r] = 1)
      /\ row'[r].uid \in {0, made'[r]}
      /\ made'[r] = 1 => row'[r].uid = 1 \/ row'[r].pending = "create"
  BY <1>1 DEF GoodResource, Undisturbed, Calm, SameRow, LaterObject
<1>4. PostMayLand(r)' => /\ made'[r] = 0 /\ row'[r].pending = "create"
                         /\ row'[r].state \notin {"none", "deleted"}
  BY <1>1 DEF GoodResource, Undisturbed, Calm, SameRow, LaterObject
<1>5. made'[r] = 1 /\ row'[r].state \notin Ending => obj'[r] = "live"
  BY <1>1 DEF GoodResource, Undisturbed, Calm, SameRow, LaterObject
<1>6. row'[r].state = "none" => row'[r] = NoEgressRow
  BY <1>1 DEF GoodResource, Undisturbed, Calm, SameRow
<1> QED
  BY <1>2, <1>3, <1>4, <1>5, <1>6 DEF GoodResource

LEMMA UndisturbedPlace ==
  ASSUME EgressInv, NEW s \in Snats, Undisturbed(s)
  PROVE  /\ InPlace(s) => InPlace(s)'
         /\ \A f : Confirmed(s, f) => /\ made'[s] = 1 /\ f = Switch(row'[s].desired)
                                      /\ spec'[s] = row'[s].desired /\ status'[s] = f
  BY DEF Undisturbed, Calm, SameRow, LaterObject, LaterSwitch, InPlace, Confirmed

LEMMA UndisturbedBinding ==
  ASSUME EgressInv, NEW s \in Snats, Undisturbed(s),
         EipOf(s) \in Eips /\ claim[EipOf(s)] = s => claim'[EipOf(s)] = s
  PROVE  GoodBinding(s)'
<1>1. GoodBinding(s)
  BY DEF EgressInv
<1>2. EipOf(s)' = EipOf(s)
  BY DEF Undisturbed, Calm, LaterSwitch, EipOf
<1>3. SameRow(s)
  BY DEF Undisturbed, Calm
<1>4. /\ row'[s].state # "none" => EipOf(s)' \in Eips
      /\ row'[s].state \notin {"none", "deleted"} => claim'[EipOf(s)'] = s
  BY <1>1, <1>2, <1>3 DEF GoodBinding, SameRow
<1>5. Completed(s)' /\ row'[s].state \notin Ending => row'[s].pending # "create" /\ InPlace(s)'
  BY <1>1, <1>3, UndisturbedPlace DEF GoodBinding, SameRow, Completed
<1>6. row'[s].applied # "unknown" /\ row'[s].state \notin Ending => Confirmed(s, row[s].applied)'
  <2> SUFFICES ASSUME row'[s].applied # "unknown", row'[s].state \notin Ending
               PROVE  Confirmed(s, row[s].applied)'
    OBVIOUS
  <2>1. row'[s].applied = row[s].applied /\ Confirmed(s, row[s].applied)
    BY <1>1, <1>3 DEF GoodBinding, SameRow
  <2> QED
    BY <2>1, UndisturbedPlace DEF Confirmed
<1> QED
  BY <1>4, <1>5, <1>6 DEF GoodBinding

LEMMA UndisturbedEip ==
  ASSUME EgressInv, NEW e \in Eips, Undisturbed(e), claim'[e] = claim[e],
         bound'[e] \in {bound[e], Nobody, claim[e]},
         \A s \in Snats : claim[e] = s => Undisturbed(s)
  PROVE  GoodEip(e)'
<1>1. GoodEip(e)
  BY DEF EgressInv
<1>2. claim'[e] # Nobody => made'[e] = 1 /\ row'[e].state \notin Ending
  BY <1>1 DEF GoodEip, Undisturbed, Calm, SameRow, LaterObject
<1>3. claim'[e] \in Snats => /\ EipOf(claim[e])' = e
                             /\ row'[claim'[e]].state \notin {"none", "deleted"}
  BY <1>1 DEF GoodEip, Undisturbed, Calm, SameRow, LaterSwitch, EipOf
<1>4. bound'[e] # Nobody => claim'[e] = bound'[e]
  BY <1>1 DEF GoodEip
<1> QED
  BY <1>2, <1>3, <1>4 DEF GoodEip

LEMMA UndisturbedRequest ==
  ASSUME EgressInv, Types', NEW q \in net, Undisturbed(q.res)
  PROVE  GoodRequest(q)'
<1>1. GoodRequest(q) /\ q \in Request
  BY DEF EgressInv, Types
<1>2. q.kind = "delete" => row'[q.res].state \in Ending
  BY <1>1 DEF GoodRequest, Undisturbed, Calm, SameRow
<1>3. ASSUME q.kind = "update"
      PROVE  /\ q.res \in Snats /\ q.rv <= rv'[q.res]
             /\ PatchApplies(q)' => q.enable = row'[q.res].desired /\ spec'[q.res] # q.enable
  <2>1. q.res \in Snats /\ q.rv <= rv[q.res] /\ LaterSwitch(q.res)
    BY <1>1, <1>3 DEF GoodRequest, Undisturbed, Calm
  <2>2. q.rv \in Nat /\ rv[q.res] \in Nat /\ rv'[q.res] \in Nat
    BY <1>1, <2>1 DEF EgressInv, Types, Request
  <2>3. q.rv <= rv'[q.res] /\ (q.rv = rv'[q.res] => rv'[q.res] = rv[q.res])
    BY <2>1, <2>2 DEF LaterSwitch
  <2>4. PatchApplies(q)' => PatchApplies(q) /\ spec'[q.res] = spec[q.res]
    BY <2>1, <2>2, <2>3 DEF PatchApplies, Undisturbed, Calm, LaterObject, LaterSwitch
  <2> QED
    BY <1>1, <1>3, <2>1, <2>3, <2>4 DEF GoodRequest, Undisturbed, Calm, SameRow
<1> QED
  BY <1>2, <1>3 DEF GoodRequest

-----------------------------------------------------------------------------
(***************************************************************************)
(* The lanes that a step does not move.                                    *)
(***************************************************************************)
SameStep(w) ==
  /\ lane'[w].at = lane[w].at /\ lane'[w].call = lane[w].call
  /\ lane'[w].work = lane[w].work /\ lane'[w].prog = lane[w].prog
  /\ lane'[w].facts = lane[w].facts /\ lane'[w].held \subseteq lane[w].held

LEMMA UndisturbedLane ==
  ASSUME EgressInv, Types', NEW w \in Workers, NEW r \in Resources, r = Res(w),
         SameStep(w), Undisturbed(r)
  PROVE  GoodLane(w)'
<1> SUFFICES ASSUME lane'[w].at # "idle" PROVE GoodLane(w)'
  BY DEF GoodLane
<1>1. /\ lane[w].at # "idle" /\ GoodWork(w) /\ GoodProgress(w) /\ GoodCall(w)
      /\ lane[w].held = Fences => GoodHold(w)
  BY DEF EgressInv, GoodLane, SameStep
<1>2. /\ Res(w) = r /\ Res(w)' = r /\ lane[w].held \subseteq Fences
      /\ lane[w] \in LaneRecord
  BY DEF EgressInv, Types, LaneRecord, LaneWork, SameStep, Res
<1>3. SameRow(r) /\ LaterObject(r) /\ (PostMayLand(r)' => PostMayLand(r))
  BY <1>2 DEF Undisturbed, Calm
<1>4. GoodWork(w)'
  <2>1. /\ row'[r].state # "none" /\ lane'[w].work.state # "none"
        /\ lane'[w].work.uid \in {0, made'[r]}
    BY <1>1, <1>3 DEF GoodWork, SameRow, LaterObject, SameStep
  <2>2. lane'[w].work.state \in Ending =>
          /\ row'[r].state \in Ending
          /\ lane'[w].work.pending # "create" => row'[r].pending # "create"
    BY <1>1, <1>3 DEF GoodWork, SameRow, SameStep
  <2>3. "version" \in lane'[w].held =>
          /\ row'[r].state = lane'[w].work.state /\ row'[r].desired = lane'[w].work.desired
          /\ Active(row[r])' <=> lane'[w].work.active
    BY <1>1, <1>3 DEF GoodWork, SameRow, SameStep, Active
  <2> QED
    BY <1>2, <2>1, <2>2, <2>3 DEF GoodWork
<1>5. GoodProgress(w)'
  <2>1. lane'[w].prog.state = "deleted" => Vanished(r)'
    BY <1>1, <1>2, UndisturbedVanished DEF GoodProgress, SameStep
  <2> QED
    BY <1>1, <1>2, <1>3, <2>1 DEF GoodProgress, SameStep, LaterObject
<1>6. GoodCall(w)'
  BY <1>1, <1>2 DEF GoodCall, SameStep
<1>7. ASSUME lane'[w].held = Fences PROVE GoodHold(w)'
  <2>1. GoodHold(w)
    BY <1>1, <1>2, <1>7 DEF SameStep
  <2>2. GoodBefore(w)' /\ GoodDuring(w)'
    BY <1>2, <1>3, <2>1 DEF GoodHold, GoodBefore, GoodDuring, SameStep, SameRow
  <2>3. ASSUME lane'[w].at = "finish", lane'[w].prog.clear
        PROVE  ~PostMayLand(r)' /\ (made'[r] = 1 => 1 \in {lane'[w].prog.uid, row'[r].uid})
    BY <1>3, <2>1, <2>3 DEF GoodHold, GoodAfter, SameStep, SameRow, LaterObject
  <2>4. ASSUME lane'[w].at = "finish", r \in Snats, lane'[w].work.state \notin Ending
        PROVE  /\ lane'[w].work.active /\ lane'[w].prog.op \in CompletedStates =>
                    InPlace(r)' /\ (lane'[w].prog.clear \/ row'[r].pending # "create")
               /\ lane'[w].prog.observed /\ lane'[w].facts # "unknown" =>
                    Confirmed(r, lane[w].facts)'
    <3>1. /\ lane[w].work.active /\ lane[w].prog.op \in CompletedStates =>
               InPlace(r) /\ (lane[w].prog.clear \/ row[r].pending # "create")
          /\ lane[w].prog.observed /\ lane[w].facts # "unknown" => Confirmed(r, lane[w].facts)
      BY <2>1, <2>4 DEF GoodHold, GoodAfter, SameStep
    <3>2. InPlace(r) => InPlace(r)'
      BY <2>4, UndisturbedPlace
    <3>3. Confirmed(r, lane[w].facts) => Confirmed(r, lane[w].facts)'
      BY <2>4, UndisturbedPlace DEF Confirmed, SameStep
    <3> QED
      BY <1>3, <3>1, <3>2, <3>3 DEF SameStep, SameRow
  <2>5. GoodAfter(w)'
    BY <1>2, <2>3, <2>4 DEF GoodAfter
  <2> QED
    BY <2>2, <2>5 DEF GoodHold
<1> QED
  BY <1>4, <1>5, <1>6, <1>7 DEF GoodLane

\* A lane that has lost a fence keeps what it knows for good.
Loose(r) ==
  /\ row[r].state # "none" => row'[r].state # "none"
  /\ row[r].state \in Ending =>
       row'[r].state \in Ending /\ (row[r].pending # "create" => row'[r].pending # "create")
  /\ made'[r] = made[r] \/ made[r] = 0
  /\ Vanished(r) => Vanished(r)'

SameVersion(r) ==
  /\ row'[r].state = row[r].state /\ row'[r].desired = row[r].desired
  /\ row'[r].op = row[r].op

LEMMA LooseLane ==
  ASSUME EgressInv, NEW w \in Workers, NEW r \in Resources, r = Res(w),
         SameStep(w), Loose(r), lane'[w].held # Fences,
         "version" \in lane'[w].held => SameVersion(r)
  PROVE  GoodLane(w)'
<1> SUFFICES ASSUME lane'[w].at # "idle" PROVE GoodLane(w)'
  BY DEF GoodLane
<1>1. lane[w].at # "idle" /\ GoodWork(w) /\ GoodProgress(w) /\ GoodCall(w)
  BY DEF EgressInv, GoodLane, SameStep
<1>2. Res(w) = r /\ Res(w)' = r
  BY DEF SameStep, Res
<1>3. GoodWork(w)'
  <2>1. /\ row'[r].state # "none" /\ lane'[w].work.state # "none"
        /\ lane'[w].work.uid \in {0, made'[r]}
    BY <1>1 DEF GoodWork, Loose, SameStep
  <2>2. lane'[w].work.state \in Ending =>
          /\ row'[r].state \in Ending
          /\ lane'[w].work.pending # "create" => row'[r].pending # "create"
    BY <1>1 DEF GoodWork, Loose, SameStep
  <2>3. "version" \in lane'[w].held =>
          /\ row'[r].state = lane'[w].work.state /\ row'[r].desired = lane'[w].work.desired
          /\ Active(row[r])' <=> lane'[w].work.active
    BY <1>1 DEF GoodWork, SameVersion, SameStep, Active
  <2> QED
    BY <1>2, <2>1, <2>2, <2>3 DEF GoodWork
<1>4. GoodProgress(w)'
  <2>1. lane'[w].prog.state = "deleted" => Vanished(r)'
    BY <1>1, <1>2 DEF GoodProgress, SameStep, Loose
  <2>2. lane'[w].prog.uid \in {0, made'[r]}
    BY <1>1 DEF GoodProgress, SameStep, Loose
  <2> QED
    BY <1>1, <1>2, <2>1, <2>2 DEF GoodProgress, SameStep
<1>5. GoodCall(w)'
  BY <1>1, <1>2 DEF GoodCall, SameStep
<1> QED
  BY <1>3, <1>4, <1>5 DEF GoodLane

-----------------------------------------------------------------------------
(***************************************************************************)
(* The posts, the holders, and the parts put together.                     *)
(***************************************************************************)
NoNewPost ==
  /\ \A q \in net' : q.kind = "create" => q \in net
  /\ \A w \in Workers : Posting(w)' => Posting(w) /\ Res(w)' = Res(w)

LEMMA NoNewPostFacts ==
  ASSUME EgressInv, NoNewPost
  PROVE  OnePost' /\ \A r \in Resources : PostMayLand(r)' => PostMayLand(r)
<1>1. \A r \in Resources : PostMayLand(r)' => PostMayLand(r)
  BY DEF NoNewPost, PostMayLand, Posting
<1>2. \A q1, q2 \in net' : q1.kind = "create" /\ IsPost(q2, q1.res) => q1 = q2
  BY DEF EgressInv, OnePost, NoNewPost, IsPost
<1>3. \A w \in Workers : Posting(w)' =>
       /\ \A q \in net' : ~IsPost(q, Res(w)')
       /\ \A v \in Workers : Posting(v)' /\ Res(v)' = Res(w)' => v = w
  BY DEF EgressInv, OnePost, NoNewPost, IsPost
<1>4. OnePost'
  BY <1>2, <1>3 DEF OnePost, IsPost
<1> QED
  BY <1>1, <1>4

LEMMA NoNewHolder ==
  ASSUME EgressInv,
         \A w \in Workers : "epoch" \in lane'[w].held =>
                              "epoch" \in lane[w].held /\ Res(w)' = Res(w)
  PROVE  OneHolder'
  BY DEF EgressInv, OneHolder

\* A step that disturbs at most r.
LEMMA OneDisturbed ==
  ASSUME EgressInv, Types', OnePost', OneHolder', NEW r \in Resources,
         \A x \in Resources \ {r} : Undisturbed(x),
         GoodResource(r)', r \in Snats => GoodBinding(r)',
         \A s \in Snats \ {r} : EipOf(s) \in Eips /\ claim[EipOf(s)] = s => claim'[EipOf(s)] = s,
         \A e \in Eips : GoodEip(e)',
         \A q \in net' : q \notin net \/ q.res = r => GoodRequest(q)',
         \A w \in Workers : GoodLane(w)'
  PROVE  EgressInv'
<1>1. \A x \in Resources : GoodResource(x)'
  BY UndisturbedResource
<1>2. \A s \in Snats : GoodBinding(s)'
  BY UndisturbedBinding, Parts
<1>3. \A q \in net' : GoodRequest(q)'
  BY UndisturbedRequest DEF EgressInv, Types, Request
<1> QED
  BY <1>1, <1>2, <1>3 DEF EgressInv

\* A step that disturbs nothing.
LEMMA NoneDisturbed ==
  ASSUME EgressInv, Types', OnePost', OneHolder',
         \A x \in Resources : Undisturbed(x),
         \A s \in Snats : EipOf(s) \in Eips /\ claim[EipOf(s)] = s => claim'[EipOf(s)] = s,
         \A e \in Eips : GoodEip(e)',
         \A q \in net' : q \notin net => GoodRequest(q)',
         \A w \in Workers : GoodLane(w)'
  PROVE  EgressInv'
<1>1. \A x \in Resources : GoodResource(x)'
  BY UndisturbedResource
<1>2. \A s \in Snats : GoodBinding(s)'
  BY UndisturbedBinding, Parts
<1>3. \A q \in net' : GoodRequest(q)'
  BY UndisturbedRequest DEF EgressInv, Types, Request
<1> QED
  BY <1>1, <1>2, <1>3 DEF EgressInv

\* The rest of the state does not move.
ProviderTypes ==
  /\ obj \in [Resources -> {"absent", "live", "terminating"}]
  /\ spec \in [Snats -> BOOLEAN] /\ status \in [Snats -> Facts]
  /\ rv \in [Snats -> Nat]

LEMMA StandStill ==
  ASSUME EgressInv, UNCHANGED <<row, obj, made, egressVars>>
  PROVE  /\ ProviderTypes' /\ UNCHANGED <<row, made, target, claim, bound>>
         /\ \A x \in Resources : Calm(x)
<1>1. ProviderTypes'
  BY DEF EgressInv, Types, ProviderTypes, egressVars
<1>2. ASSUME NEW x \in Resources PROVE Calm(x)
  <2>1. SameRow(x) /\ LaterObject(x)
    BY DEF SameRow, LaterObject, Exists
  <2>2. x \in Snats => rv'[x] >= rv[x]
    BY DEF EgressInv, Types, egressVars
  <2>3. x \in Snats => LaterSwitch(x)
    BY <2>2 DEF LaterSwitch, egressVars
  <2> QED
    BY <2>1, <2>3 DEF Calm
<1> QED
  BY <1>1, <1>2 DEF egressVars

\* A step of one lane, while the provider may do what disturbs nobody.
LEMMA CalmLaneMoves ==
  ASSUME EgressInv, Types', NEW w \in Workers,
         UNCHANGED <<row, made, target, claim, bound>>, \A x \in Resources : Calm(x),
         net' \subseteq net, \A v \in Workers \ {w} : lane'[v] = lane[v],
         Posting(w)' => lane'[w] = lane[w], GoodLane(w)',
         lane'[w].held \subseteq lane[w].held,
         lane'[w].held = {} \/ Res(w)' = Res(w)
  PROVE  EgressInv'
<1>1. NoNewPost
  BY DEF NoNewPost, Posting, Res
<1>2. OneHolder'
  BY NoNewHolder DEF Res
<1>3. \A x \in Resources : Undisturbed(x)
  BY <1>1, NoNewPostFacts DEF Undisturbed
<1>4. \A v \in Workers : GoodLane(v)'
  <2> SUFFICES ASSUME NEW v \in Workers, v # w PROVE GoodLane(v)'
    OBVIOUS
  <2> PICK r \in Resources : r = Res(v)
    BY DEF EgressInv, Types, LaneRecord, LaneWork, Res
  <2>1. SameStep(v)
    BY DEF SameStep
  <2> QED
    BY <1>3, <2>1, UndisturbedLane
<1>5. \A e \in Eips : GoodEip(e)'
  BY <1>3, UndisturbedEip, Parts
<1>6. \A s \in Snats : EipOf(s) \in Eips /\ claim[EipOf(s)] = s => claim'[EipOf(s)] = s
  OBVIOUS
<1> QED
  BY <1>1, <1>2, <1>3, <1>4, <1>5, <1>6, NoNewPostFacts, NoneDisturbed

\* A step of one lane that leaves the database and the provider alone.
LEMMA LaneMoves ==
  ASSUME EgressInv, Types', NEW w \in Workers,
         UNCHANGED <<row, obj, made, egressVars>>, net' \subseteq net,
         \A v \in Workers \ {w} : lane'[v] = lane[v],
         Posting(w)' => lane'[w] = lane[w], GoodLane(w)',
         lane'[w].held \subseteq lane[w].held,
         lane'[w].held = {} \/ Res(w)' = Res(w)
  PROVE  EgressInv'
  BY StandStill, CalmLaneMoves

-----------------------------------------------------------------------------
(***************************************************************************)
(* The conclusions of a lane.                                              *)
(***************************************************************************)
\* What a progress must say whatever happened since the claim.
LastingTruth(w, r, p) ==
  /\ p.uid \in {0, made[r]} /\ p.state # "none"
  /\ p.state \in Ending <=> lane[w].work.state \in Ending
  /\ lane[w].work.state = "deleted" => p.state = "deleted"
  /\ p.state = "deleted" => Vanished(r)

\* What it must say while the fences hold, with the facts f.
FencedTruth(w, r, p, f) ==
  lane[w].held = Fences =>
    /\ p.clear => ~PostMayLand(r)' /\ (made[r] = 1 => 1 \in {p.uid, row[r].uid})
    /\ r \in Snats /\ lane[w].work.state \notin Ending =>
         /\ lane[w].work.active /\ p.op \in CompletedStates =>
              InPlace(r) /\ (p.clear \/ row[r].pending # "create")
         /\ p.observed /\ f # "unknown" => Confirmed(r, f)

LEMMA CalmConcludes ==
  ASSUME EgressInv, NEW w \in Workers, NEW r \in Resources, r = Res(w),
         lane[w].at # "idle", NEW l \in LaneRecord, lane' = [lane EXCEPT ![w] = l],
         l.at = "finish", l.work = lane[w].work, l.held = lane[w].held,
         NEW p \in Progress, p = l.prog, NEW f \in Facts, f = l.facts,
         UNCHANGED <<row, made, target, claim, bound>>, \A x \in Resources : Calm(x),
         ProviderTypes', net' \subseteq net,
         LastingTruth(w, r, p), FencedTruth(w, r, p, f)
  PROVE  EgressInv'
<1>1. lane \in [Workers -> LaneRecord]
  BY DEF EgressInv, Types
<1>2. lane' \in [Workers -> LaneRecord] /\ \A v \in Workers \ {w} : lane'[v] = lane[v]
  BY <1>1
<1>3. lane'[w] = l
  BY <1>1
<1>4. /\ lane'[w].at = "finish" /\ lane'[w].prog = p /\ lane'[w].facts = f
      /\ lane'[w].work = lane[w].work /\ lane'[w].held = lane[w].held
  BY <1>3
<1>5. Types'
  BY <1>2 DEF EgressInv, Types, ProviderTypes
<1>6. ~Posting(w)' /\ Res(w)' = r /\ Res(w) = r
  BY <1>4 DEF Posting, Res
<1>7. NoNewPost
  BY <1>2, <1>6 DEF NoNewPost, Posting, Res
<1>8. Undisturbed(r)
  BY <1>7, NoNewPostFacts DEF Undisturbed
<1>9. GoodLane(w)'
  <2>1. GoodWork(w)
    BY DEF EgressInv, GoodLane
  <2>2. GoodWork(w)'
    BY <1>4, <1>6, <2>1 DEF GoodWork, Active
  <2>3. Vanished(r) => Vanished(r)'
    BY <1>8, UndisturbedVanished
  <2>4. GoodProgress(w)'
    BY <1>4, <1>6, <2>3 DEF GoodProgress, LastingTruth
  <2>5. GoodCall(w)' /\ GoodBefore(w)' /\ GoodDuring(w)'
    BY <1>4 DEF GoodCall, GoodBefore, GoodDuring
  <2>6. r \in Snats /\ InPlace(r) => InPlace(r)'
    BY <1>8, UndisturbedPlace
  <2>7. r \in Snats /\ Confirmed(r, f) => Confirmed(r, lane[w].facts)'
    BY <1>4, <1>8, UndisturbedPlace DEF Confirmed
  <2>8. ASSUME lane'[w].held = Fences PROVE GoodAfter(w)'
    <3>1. lane[w].held = Fences
      BY <1>4, <2>8
    <3>2. p.clear => ~PostMayLand(r)' /\ (made'[r] = 1 => 1 \in {p.uid, row'[r].uid})
      BY <3>1 DEF FencedTruth
    <3>3. r \in Snats /\ lane[w].work.state \notin Ending =>
            /\ lane[w].work.active /\ p.op \in CompletedStates =>
                 InPlace(r)' /\ (p.clear \/ row'[r].pending # "create")
            /\ p.observed /\ f # "unknown" => Confirmed(r, lane[w].facts)'
      BY <2>6, <2>7, <3>1 DEF FencedTruth
    <3> QED
      BY <1>4, <1>6, <3>2, <3>3 DEF GoodAfter
  <2> QED
    BY <2>2, <2>4, <2>5, <2>8 DEF GoodLane, GoodHold
<1>10. lane'[w].held \subseteq lane[w].held
  BY <1>4
<1> QED
  BY <1>2, <1>5, <1>6, <1>9, <1>10, CalmLaneMoves

LEMMA ConcludesAs ==
  ASSUME EgressInv, NEW w \in Workers, NEW r \in Resources, r = Res(w),
         lane[w].at # "idle", NEW l \in LaneRecord, lane' = [lane EXCEPT ![w] = l],
         l.at = "finish", l.work = lane[w].work, l.held = lane[w].held,
         NEW p \in Progress, p = l.prog, NEW f \in Facts, f = l.facts,
         UNCHANGED <<row, obj, made, egressVars>>, net' \subseteq net,
         LastingTruth(w, r, p), FencedTruth(w, r, p, f)
  PROVE  EgressInv'
  BY StandStill, CalmConcludes

LEMMA Concludes ==
  ASSUME EgressInv, NEW w \in Workers, NEW r \in Resources, r = Res(w),
         lane[w].at # "idle", NEW p \in Progress, NEW f \in Facts, Conclude(w, p, f),
         UNCHANGED <<row, obj, made, egressVars>>, net' \subseteq net,
         LastingTruth(w, r, p), FencedTruth(w, r, p, f)
  PROVE  EgressInv'
<1>1. PICK o \in LaneRecord : o = lane[w]
  BY DEF EgressInv, Types
<1>2. PICK l \in LaneRecord : l = [o EXCEPT !.at = "finish", !.prog = p, !.facts = f]
  BY DEF LaneRecord, LaneStates
<1>3. lane' = [lane EXCEPT ![w] = l]
  BY <1>1, <1>2 DEF Conclude
<1>4. l.at = "finish" /\ l.prog = p /\ l.facts = f /\ l.work = o.work /\ l.held = o.held
  BY <1>2 DEF LaneRecord
<1> QED
  BY <1>1, <1>3, <1>4, ConcludesAs

\* A lane gives up.
LEMMA IdleFacts == Idle \in LaneRecord /\ Idle.at = "idle" /\ Idle.held = {}
<1>1. PICK r \in Resources : r = CHOOSE x \in Resources : TRUE
  BY LaneAssumption
<1>2. PICK k \in LaneWork : k = WorkOf(r, NoEgressRow)
  <2>1. NoEgressRow.op \notin ActiveStates
    BY DEF NoEgressRow, ActiveStates
  <2>2. Active(NoEgressRow) = FALSE
    BY <2>1 DEF Active
  <2>3. WorkOf(r, NoEgressRow) =
          [res |-> r, state |-> "none", active |-> FALSE, uid |-> 0, pending |-> "",
           fresh |-> FALSE, kind |-> "create", desired |-> TRUE]
    BY <2>2 DEF WorkOf, NoEgressRow
  <2> QED
    BY <2>3 DEF LaneWork, ResourceStates, PendingActions, Kinds
<1>3. StartProgress(k) \in Progress
  BY StartFields
<1>4. Idle = [at |-> "idle", call |-> "none", cancel |-> FALSE, heard |-> FALSE,
              held |-> {}, facts |-> "unknown", work |-> k, prog |-> StartProgress(k)]
  BY <1>1, <1>2 DEF Idle
<1> QED
  BY <1>3, <1>4 DEF LaneRecord, LaneStates, Facts

LEMMA GivesUp ==
  ASSUME EgressInv, NEW w \in Workers, lane' = [lane EXCEPT ![w] = Idle],
         UNCHANGED <<row, net, obj, made, egressVars>>
  PROVE  EgressInv'
<1>1. lane \in [Workers -> LaneRecord]
  BY DEF EgressInv, Types
<1>2. lane' \in [Workers -> LaneRecord] /\ lane'[w] = Idle
  BY <1>1, IdleFacts
<1>3. \A v \in Workers \ {w} : lane'[v] = lane[v]
  BY <1>1
<1>4. Types'
  BY <1>2 DEF EgressInv, Types, egressVars
<1>5. GoodLane(w)' /\ ~Posting(w)' /\ lane'[w].held = {}
  BY <1>2, IdleFacts DEF GoodLane, Posting
<1> QED
  BY <1>3, <1>4, <1>5, LaneMoves

-----------------------------------------------------------------------------
(***************************************************************************)
(* Facts about a lane that waits for a call.                               *)
(***************************************************************************)
LEMMA CallingLane ==
  ASSUME EgressInv, NEW w \in Workers, lane[w].at \in {"begin", "check", "sent"}
  PROVE  /\ lane[w] \in LaneRecord /\ lane[w].work \in LaneWork /\ lane[w].prog \in Progress
         /\ Res(w) \in Resources /\ lane[w].prog.op \notin CompletedStates
         /\ GoodWork(w) /\ GoodProgress(w) /\ GoodCall(w)
         /\ lane[w].call \in Mutations
<1>1. lane[w] \in LaneRecord
  BY DEF EgressInv, Types
<1>2. GoodWork(w) /\ GoodProgress(w) /\ GoodCall(w)
  BY DEF EgressInv, GoodLane
<1> QED
  BY <1>1, <1>2 DEF LaneRecord, LaneWork, Res, GoodProgress, GoodCall

\* What is concluded from a failure, or from the answer to a DELETE.
LEMMA CallFailedTruth ==
  ASSUME EgressInv, NEW w \in Workers, NEW r \in Resources, r = Res(w),
         lane[w].at \in {"check", "sent"}, NEW kind,
         lane[w].call = "create" => kind \in {"temporary", "conflict", "reject", "uncertain"},
         lane[w].call = "create" /\ kind # "uncertain" => PostMayLand(r) /\ ~PostMayLand(r)',
         lane[w].call # "create" => (PostMayLand(r)' => PostMayLand(r))
  PROVE  /\ CallFailed(w, kind) \in Progress
         /\ LastingTruth(w, r, CallFailed(w, kind))
         /\ FencedTruth(w, r, CallFailed(w, kind), "unknown")
<1> DEFINE k == lane[w].work
           p == lane[w].prog
           f == CallFailed(w, kind)
<1>1. /\ k \in LaneWork /\ p \in Progress /\ p.op \notin CompletedStates
      /\ GoodWork(w) /\ GoodProgress(w) /\ GoodCall(w) /\ lane[w].call \in Mutations
  BY CallingLane
<1>2. GoodResource(r)
  BY DEF EgressInv
<1>3. /\ p.uid \in {0, made[r]} /\ p.state # "none"
      /\ p.state \in Ending <=> k.state \in Ending
      /\ k.state = "deleted" => p.state = "deleted"
      /\ p.state = "deleted" => Vanished(r)
  BY <1>1 DEF GoodProgress
<1>4. lane[w].held = Fences => row[r].pending = lane[w].call
  BY DEF EgressInv, GoodLane, GoodHold, GoodDuring
<1>5. CASE lane[w].call = "create"
  <2>1. f = CreateFailed(k, p, kind)
    BY <1>5 DEF CallFailed
  <2>2. /\ f \in Progress /\ f.uid = p.uid /\ ~f.observed
        /\ f.state \in {p.state, "failed"} /\ (f.clear <=> kind # "uncertain")
        /\ f.op \in CompletedStates => f.clear
    BY <1>1, <1>5, <2>1, CreateFailedFields
  <2>3. k.state \notin Ending
    BY <1>1, <1>5 DEF GoodCall
  <2>4. LastingTruth(w, r, f)
    BY <1>3, <2>2, <2>3 DEF LastingTruth, Ending
  <2>5. f.clear => ~PostMayLand(r)' /\ made[r] = 0
    BY <1>2, <1>5, <2>2 DEF GoodResource
  <2>6. FencedTruth(w, r, f, "unknown")
    BY <2>2, <2>5 DEF FencedTruth, InPlace
  <2> QED
    BY <2>2, <2>4, <2>6
<1>6. CASE lane[w].call = "update"
  <2>1. f = UpdateFailed(k, p, kind)
    BY <1>6 DEF CallFailed
  <2>2. /\ f \in Progress /\ f.uid = p.uid /\ f.state = p.state /\ ~f.observed
        /\ f.op \notin CompletedStates
    BY <1>1, <2>1, UpdateFailedFields
  <2>3. LastingTruth(w, r, f)
    BY <1>3, <2>2 DEF LastingTruth
  <2>4. lane[w].held = Fences => ~PostMayLand(r)' /\ (made[r] = 1 => row[r].uid = 1)
    BY <1>2, <1>4, <1>6 DEF GoodResource
  <2>5. FencedTruth(w, r, f, "unknown")
    BY <2>2, <2>4 DEF FencedTruth
  <2> QED
    BY <2>2, <2>3, <2>5
<1>7. CASE lane[w].call = "delete"
  <2>1. f = DeleteAnswered(k, p, kind)
    BY <1>7 DEF CallFailed
  <2>2. /\ f \in Progress /\ f.uid = p.uid /\ f.state = p.state /\ ~f.clear
        /\ f.op \notin CompletedStates
    BY <1>1, <2>1, DeleteAnsweredFields
  <2>3. LastingTruth(w, r, f)
    BY <1>3, <2>2 DEF LastingTruth
  <2>4. k.state \in Ending
    BY <1>1, <1>7 DEF GoodCall
  <2>5. FencedTruth(w, r, f, "unknown")
    BY <2>2, <2>4 DEF FencedTruth
  <2> QED
    BY <2>2, <2>3, <2>5
<1> QED
  BY <1>1, <1>5, <1>6, <1>7 DEF Mutations

-----------------------------------------------------------------------------
(***************************************************************************)
(* The observation.                                                        *)
(***************************************************************************)
LEMMA AppliedFacts ==
  ASSUME EgressInv, NEW s \in Snats
  PROVE  /\ SnatApplied(s) \in Facts
         /\ SnatApplied(s) # "unknown" => Confirmed(s, SnatApplied(s))
<1>1. Switch(row[s].desired) \in Facts
  BY DEF Switch, Facts
<1>2. Exists(s) => made[s] = 1
  BY Parts DEF EgressInv, GoodResource
<1>3. AppliedAs(s, row[s].desired) => Confirmed(s, Switch(row[s].desired))
  BY <1>2 DEF AppliedAs, Confirmed, Exists
<1> QED
  BY <1>1, <1>3 DEF SnatApplied, Facts

LEMMA SeenFacts ==
  ASSUME EgressInv, NEW r \in Resources
  PROVE  /\ Seen(r) \in Sight
         /\ Seen(r).exists <=> Exists(r)
         /\ Seen(r).uid = IF Exists(r) THEN made[r] ELSE 0
         /\ Seen(r).needs => r \in Snats
         /\ r \in Snats /\ Seen(r).ready => Confirmed(r, SnatApplied(r))
         /\ r \in Snats => Seen(r).applied = SnatApplied(r)
         /\ r \notin Snats => Seen(r).applied = "unknown"
         /\ r \in Snats /\ ~Seen(r).exists /\ ~Seen(r).deps => bound[EipOf(r)] # r
<1>1. PICK x \in BOOLEAN : x <=> Exists(r)
  OBVIOUS
<1>2. PICK y \in BOOLEAN : y <=> IF r \in Eips THEN EipReady(r) ELSE SnatReady(r)
  OBVIOUS
<1>3. PICK d \in BOOLEAN : d <=> IF r \in Eips THEN EipDeps(r) ELSE SnatDeps(r)
  OBVIOUS
<1>4. PICK n \in BOOLEAN : n <=> r \in Snats /\ Exists(r) /\ spec[r] # row[r].desired
  OBVIOUS
<1>5. PICK u \in Nat : u = IF Exists(r) THEN made[r] ELSE 0
  BY DEF EgressInv, Types
<1>6. PICK a \in Facts : a = IF r \in Snats THEN SnatApplied(r) ELSE "unknown"
  BY AppliedFacts DEF Facts
<1>7. /\ Exists(r) \in BOOLEAN /\ EipReady(r) \in BOOLEAN /\ SnatReady(r) \in BOOLEAN
      /\ EipDeps(r) \in BOOLEAN /\ SnatDeps(r) \in BOOLEAN
  BY Zenon DEF Exists, EipReady, SnatReady, EipDeps, SnatDeps
<1>8. Seen(r) = [exists |-> x, uid |-> u, ready |-> y, deps |-> d, needs |-> n, applied |-> a]
  <2>1. x = Exists(r)
    BY <1>1, <1>7
  <2>2. y = IF r \in Eips THEN EipReady(r) ELSE SnatReady(r)
    BY <1>2, <1>7
  <2>3. d = IF r \in Eips THEN EipDeps(r) ELSE SnatDeps(r)
    BY <1>3, <1>7
  <2>4. n = (r \in Snats /\ Exists(r) /\ spec[r] # row[r].desired)
    BY <1>4
  <2> QED
    BY <1>5, <1>6, <2>1, <2>2, <2>3, <2>4, Zenon DEF Seen
<1>9. /\ Seen(r) \in Sight /\ Seen(r).exists = x /\ Seen(r).uid = u /\ Seen(r).ready = y
      /\ Seen(r).deps = d /\ Seen(r).needs = n /\ Seen(r).applied = a
  BY <1>8 DEF Sight
<1>10. r \in Snats /\ y => Confirmed(r, SnatApplied(r))
  BY <1>2, AppliedFacts, Parts DEF SnatReady
<1>11. r \in Snats /\ ~x /\ ~d => bound[EipOf(r)] # r
  BY <1>1, <1>3, Parts, EgressAssumption DEF SnatDeps
<1> QED
  BY <1>1, <1>4, <1>5, <1>6, <1>9, <1>10, <1>11

LEMMA ClaimedLane ==
  ASSUME EgressInv, NEW w \in Workers, lane[w].at = "claimed"
  PROVE  /\ lane[w] \in LaneRecord /\ lane[w].work \in LaneWork /\ Res(w) \in Resources
         /\ GoodWork(w) /\ GoodProgress(w)
         /\ lane[w].held = Fences => GoodBefore(w)
<1>1. lane[w] \in LaneRecord
  BY DEF EgressInv, Types
<1>2. GoodWork(w) /\ GoodProgress(w) /\ (lane[w].held = Fences => GoodBefore(w))
  BY DEF EgressInv, GoodLane, GoodHold
<1> QED
  BY <1>1, <1>2 DEF LaneRecord, LaneWork, Res

LEMMA ObserveFailsStep ==
  ASSUME EgressInv, NEW w \in Workers, NEW kind, ObserveFails(w, kind), UNCHANGED egressVars
  PROVE  EgressInv'
<1> DEFINE k == lane[w].work
           p == ObserveFailed(k, kind)
<1>1. PICK r \in Resources : r = Res(w)
  BY ClaimedLane DEF ObserveFails
<1>2. lane[w].at = "claimed" /\ k \in LaneWork /\ GoodWork(w) /\ GoodProgress(w)
  BY ClaimedLane DEF ObserveFails
<1>3. /\ p \in Progress /\ p.state \in {k.state, "degraded"} /\ p.uid = k.uid
      /\ p.state # k.state => k.state = "available"
      /\ p.op \in {"retrying", "none", "blocked"} /\ ~p.observed /\ ~p.clear
  BY <1>2, ObserveFailedFields
<1> HIDE DEF p
<1>4. k.state = "deleted" => Vanished(r)
  BY <1>1, <1>2 DEF GoodProgress
<1>5. LastingTruth(w, r, p)
  BY <1>1, <1>2, <1>3, <1>4 DEF LastingTruth, GoodWork, Ending
<1>6. FencedTruth(w, r, p, "unknown")
  BY <1>3 DEF FencedTruth, CompletedStates
<1>7. Conclude(w, p, "unknown") /\ UNCHANGED <<row, net, obj, made>>
  BY DEF ObserveFails, p, kcVars
<1> QED
  BY <1>1, <1>2, <1>3, <1>5, <1>6, <1>7, Concludes DEF Facts

LEMMA DecideStep ==
  ASSUME EgressInv, NEW w \in Workers, lane[w].at = "claimed", NEW r \in Resources, r = Res(w),
         Decide(w, Seen(r)), UNCHANGED egressVars
  PROVE  EgressInv'
<1>1. PICK k \in LaneWork : k = lane[w].work
  BY ClaimedLane
<1>2. PICK o \in Sight : o = Seen(r)
  BY SeenFacts
<1>3. PICK c \in Mutations \cup {"none"} : c = EgressCall(k, o)
  BY CallFacts
<1>4. PICK m \in LaneRecord : m = lane[w]
  BY ClaimedLane
<1>5. /\ GoodWork(w) /\ GoodProgress(w) /\ (lane[w].held = Fences => GoodBefore(w))
      /\ GoodResource(r)
  BY ClaimedLane DEF EgressInv
<1>6. /\ (o.exists <=> Exists(r)) /\ o.uid = IF Exists(r) THEN made[r] ELSE 0
      /\ o.needs => r \in Snats
      /\ r \in Snats /\ o.ready => Confirmed(r, SnatApplied(r))
      /\ r \in Snats => o.applied = SnatApplied(r)
      /\ r \notin Snats => o.applied = "unknown"
      /\ r \in Snats /\ ~o.exists /\ ~o.deps => bound[EipOf(r)] # r
  BY <1>2, SeenFacts
<1>7. /\ o.exists \in BOOLEAN /\ o.applied \in Facts
  BY DEF Sight
<1>8. /\ k.state # "none" /\ k.uid \in {0, made[r]}
      /\ k.state \in Ending =>
           row[r].state \in Ending /\ (k.pending # "create" => row[r].pending # "create")
      /\ k.state = "deleted" => Vanished(r)
  BY <1>1, <1>5 DEF GoodWork, GoodProgress
<1>9. o.exists => o.uid = 1 /\ made[r] = 1 /\ ~PostMayLand(r)
  BY <1>5, <1>6 DEF GoodResource
<1>10. UNCHANGED <<row, net, obj, made>>
  BY DEF Decide, kcVars
<1>11. CASE c = "none"
  <2>0. /\ EgressProgress(k, o) \in Progress
        /\ EgressProgress(k, o).uid = IF o.exists THEN o.uid ELSE k.uid
    <3>1. CASE k.state \in Ending
      BY <1>3, <1>11, <3>1, RemovingFacts
    <3>2. CASE k.state \notin Ending
      BY <1>3, <1>8, <1>11, <3>2, EnsuringFacts
    <3> QED
      BY <3>1, <3>2
  <2>1. PICK p \in Progress : p = EgressProgress(k, o)
    BY <2>0
  <2>2. PICK l \in LaneRecord : l = [m EXCEPT !.call = c, !.prog = p, !.facts = o.applied,
                                              !.at = "finish"]
    BY <1>7 DEF LaneRecord, LaneStates
  <2>3. lane' = [lane EXCEPT ![w] = l]
    BY <1>1, <1>2, <1>3, <1>4, <1>11, <2>1, <2>2 DEF Decide
  <2>4. /\ l.at = "finish" /\ l.prog = p /\ l.facts = o.applied
        /\ l.work = m.work /\ l.held = m.held
    BY <2>2 DEF LaneRecord
  <2>5. NoNewPost
    <3>1. lane \in [Workers -> LaneRecord]
      BY DEF EgressInv, Types
    <3> QED
      BY <1>10, <2>3, <2>4, <3>1 DEF NoNewPost, Posting, Res
  <2>6. PostMayLand(r)' => PostMayLand(r)
    BY <2>5, NoNewPostFacts
  <2>7. p.uid = IF o.exists THEN o.uid ELSE k.uid
    BY <2>0, <2>1
  <2>8. p.uid \in {0, made[r]} /\ (o.exists => p.uid = 1)
    BY <1>6, <1>7, <1>8, <1>9, <2>7
  <2>9. CASE k.state \in Ending
    <3>1. /\ p.state \in Ending /\ (k.state = "deleted" => p.state = "deleted")
          /\ p.state = "deleted" => \/ k.state = "deleted"
                                    \/ ~o.exists /\ ~o.deps /\ k.pending # "create"
          /\ p.clear /\ ~o.exists => k.pending # "create"
      BY <1>3, <1>11, <2>1, <2>9, RemovingFacts
    <3>2. k.pending # "create" => ~PostMayLand(r)
      BY <1>5, <1>8, <2>9 DEF GoodResource
    <3>3. p.state = "deleted" => Vanished(r)
      <4> SUFFICES ASSUME p.state = "deleted", k.state # "deleted" PROVE Vanished(r)
        BY <1>8
      <4>1. ~o.exists /\ ~o.deps /\ k.pending # "create"
        BY <3>1
      <4>2. ~Exists(r) /\ ~PostMayLand(r) /\ (r \in Snats => bound[EipOf(r)] # r)
        BY <1>6, <3>2, <4>1
      <4>3. row[r].state \in Ending
        BY <1>8, <2>9
      <4> QED
        BY <4>2, <4>3 DEF Vanished, Present
    <3>4. LastingTruth(w, r, p)
      BY <1>1, <2>8, <2>9, <3>1, <3>3 DEF LastingTruth, Ending
    <3>5. k.pending # "create" => (made[r] = 1 => row[r].uid = 1)
      BY <1>5, <1>8, <2>9 DEF GoodResource
    <3>6. FencedTruth(w, r, p, o.applied)
      BY <1>1, <1>7, <1>9, <2>6, <2>8, <2>9, <3>1, <3>2, <3>5 DEF FencedTruth
    <3> QED
      BY <1>1, <1>4, <1>7, <1>10, <2>3, <2>4, <3>4, <3>6, ConcludesAs
  <2>10. CASE k.state \notin Ending
    <3>1. /\ p.state \notin Ending \cup {"none"}
          /\ p.clear => o.exists
          /\ k.active /\ p.op \in CompletedStates =>
               o.exists /\ o.ready /\ (k.pending = "create" => p.clear)
      BY <1>3, <1>8, <1>11, <2>1, <2>10, EnsuringFacts
    <3>2. LastingTruth(w, r, p)
      BY <1>1, <2>8, <2>10, <3>1 DEF LastingTruth, Ending
    <3>3. r \in Snats /\ o.ready => InPlace(r)
      BY <1>6 DEF Confirmed, InPlace
    <3>4. lane[w].held = Fences => row[r].pending = k.pending
      BY <1>1, <1>5 DEF GoodBefore
    <3>5. r \in Snats /\ o.applied # "unknown" => Confirmed(r, o.applied)
      BY <1>6, AppliedFacts
    <3>6. p.clear => ~PostMayLand(r)' /\ p.uid = 1
      BY <1>9, <2>6, <2>8, <3>1
    <3>7. FencedTruth(w, r, p, o.applied)
      BY <1>1, <3>1, <3>3, <3>4, <3>5, <3>6 DEF FencedTruth
    <3> QED
      BY <1>1, <1>4, <1>7, <1>10, <2>3, <2>4, <3>2, <3>7, ConcludesAs
  <2> QED
    BY <2>9, <2>10
<1>12. CASE c # "none"
  <2>1. PICK p \in Progress : p = EgressProgress(k, o)
    BY <1>3, <1>12, CallingFacts, ObservedFields
  <2>2. /\ p.state = k.state /\ p.uid = (IF o.exists THEN o.uid ELSE k.uid)
        /\ p.op \in {"retrying", "none"}
    BY <1>3, <1>12, <2>1, CallingFacts, ObservedFields
  <2>3. PICK l \in LaneRecord : l = [m EXCEPT !.call = c, !.prog = p, !.facts = o.applied,
                                              !.at = "begin"]
    BY <1>7 DEF LaneRecord, LaneStates
  <2>4. lane' = [lane EXCEPT ![w] = l]
    BY <1>1, <1>2, <1>3, <1>4, <1>12, <2>1, <2>3 DEF Decide
  <2>5. /\ l.at = "begin" /\ l.prog = p /\ l.call = c
        /\ l.work = m.work /\ l.held = m.held
    BY <2>3 DEF LaneRecord
  <2>6. lane \in [Workers -> LaneRecord]
    BY DEF EgressInv, Types
  <2>7. /\ lane'[w] = l /\ lane' \in [Workers -> LaneRecord]
        /\ \A v \in Workers \ {w} : lane'[v] = lane[v]
    BY <2>4, <2>6
  <2>8. Types'
    BY <1>10, <2>7 DEF EgressInv, Types, egressVars
  <2>9. lane'[w].work = k /\ Res(w)' = r /\ lane'[w].held = lane[w].held
    BY <1>1, <1>4, <2>5, <2>7 DEF Res
  <2>10. NoNewPost
    BY <1>10, <2>5, <2>7 DEF NoNewPost, Posting, Res
  <2>11. Vanished(r) => Vanished(r)'
    BY <1>10, <2>10, NoNewPostFacts DEF Vanished, Present, Exists, EipOf, egressVars
  <2>12. GoodWork(w)'
    BY <1>1, <1>5, <1>10, <2>9 DEF GoodWork, Active
  <2>13. GoodProgress(w)'
    <3>1. p.uid \in {0, made[r]}
      BY <1>6, <1>7, <1>8, <1>9, <2>2
    <3> QED
      BY <1>8, <1>10, <2>2, <2>5, <2>7, <2>9, <2>11, <3>1 DEF GoodProgress, CompletedStates
  <2>14. GoodCall(w)'
    <3>1. /\ c = "delete" => k.state \in Ending /\ o.exists
          /\ c = "create" => k.active /\ k.state \notin Ending
          /\ c = "update" => k.state \notin Ending /\ o.exists /\ r \in Snats
      BY <1>3, <1>6, CallFacts
    <3>2. c \in Mutations
      BY <1>12
    <3>3. c # "create" => p.uid = 1
      BY <1>9, <2>2, <3>1, <3>2 DEF Mutations
    <3> QED
      BY <1>12, <2>5, <2>7, <2>9, <3>1, <3>2, <3>3 DEF GoodCall, Mutations
  <2>15. lane'[w].held = Fences => GoodHold(w)'
    BY <1>1, <1>5, <1>10, <2>5, <2>7, <2>9 DEF GoodHold, GoodBefore, GoodDuring, GoodAfter
  <2>16. GoodLane(w)'
    BY <2>12, <2>13, <2>14, <2>15 DEF GoodLane
  <2>17. ~Posting(w)'
    BY <2>5, <2>7 DEF Posting
  <2> QED
    BY <1>10, <2>7, <2>8, <2>9, <2>16, <2>17, LaneMoves
<1> QED
  BY <1>11, <1>12

LEMMA ObserveKeeps ==
  ASSUME EgressInv, NEW w \in Workers, Observe(w)
  PROVE  EgressInv'
<1>1. lane[w].at = "claimed" /\ UNCHANGED egressVars
  BY DEF Observe
<1>2. PICK r \in Resources : r = Res(w)
  BY <1>1, ClaimedLane
<1>3. ObserveFails(w, "conflict") \/ Decide(w, Seen(r))
  BY <1>2 DEF Observe
<1> QED
  BY <1>1, <1>2, <1>3, ObserveFailsStep, DecideStep

-----------------------------------------------------------------------------
(***************************************************************************)
(* The preflight and the request.                                          *)
(***************************************************************************)
\* A lane that was about to post and does not leaves no POST behind.
LEMMA PostWithdrawn ==
  ASSUME EgressInv, NEW w \in Workers, NEW r \in Resources, r = Res(w), Posting(w),
         ~Posting(w)', \A v \in Workers \ {w} : lane'[v] = lane[v], net' \subseteq net
  PROVE  PostMayLand(r) /\ ~PostMayLand(r)'
<1>1. PostMayLand(r)
  BY DEF PostMayLand, Posting
<1>2. \A q \in net' : ~IsPost(q, r)
  BY DEF EgressInv, OnePost
<1>3. \A v \in Workers : ~(Posting(v)' /\ Res(v)' = r)
  BY DEF EgressInv, OnePost, Posting, Res
<1> QED
  BY <1>1, <1>2, <1>3 DEF PostMayLand, IsPost, Posting

\* Nor does a POST that was answered.
LEMMA PostAnswered ==
  ASSUME EgressInv, NEW q \in net, NEW r \in Resources, IsPost(q, r), net' = net \ {q},
         \A v \in Workers : Posting(v)' => Posting(v) /\ Res(v)' = Res(v)
  PROVE  PostMayLand(r) /\ ~PostMayLand(r)'
<1>1. PostMayLand(r)
  BY DEF PostMayLand, IsPost
<1>2. \A x \in net' : ~IsPost(x, r)
  BY DEF EgressInv, OnePost, IsPost
<1>3. \A v \in Workers : ~(Posting(v)' /\ Res(v)' = r)
  BY DEF EgressInv, OnePost
<1> QED
  BY <1>1, <1>2, <1>3 DEF PostMayLand, IsPost, Posting

LEMMA SendStep ==
  ASSUME EgressInv, NEW w \in Workers, NEW r \in Resources, r = Res(w),
         lane[w].at = "check", NEW u \in Nat, NEW n \in Nat, Send(w, u, n),
         UNCHANGED egressVars,
         lane[w].call = "update" => /\ n <= rv[r] /\ lane[w].work.desired = row[r].desired
                                    /\ spec[r] # row[r].desired
  PROVE  EgressInv'
<1>1. /\ lane[w] \in LaneRecord /\ lane[w].work \in LaneWork /\ lane[w].call \in Mutations
      /\ GoodWork(w) /\ GoodProgress(w) /\ GoodCall(w)
  BY CallingLane
<1>2. PICK d \in BOOLEAN : d = lane[w].work.desired
  BY <1>1 DEF LaneWork
<1>3. PICK c \in Mutations : c = lane[w].call
  BY <1>1
<1>4. PICK q \in Request : q = [from |-> w, kind |-> c, res |-> r, uid |-> u, rv |-> n,
                                enable |-> d]
  BY DEF Request
<1>5. net' = net \cup {q} /\ UNCHANGED <<row, obj, made>>
  BY <1>2, <1>3, <1>4 DEF Send
<1>6. PICK m \in LaneRecord : m = lane[w]
  BY <1>1
<1>7. PICK l \in LaneRecord : l = [m EXCEPT !.at = "sent"]
  BY DEF LaneRecord, LaneStates
<1>8. lane \in [Workers -> LaneRecord]
  BY DEF EgressInv, Types
<1>9. /\ lane'[w] = l /\ lane' \in [Workers -> LaneRecord]
      /\ \A v \in Workers \ {w} : lane'[v] = lane[v]
  BY <1>6, <1>7, <1>8 DEF Send
<1>10. /\ lane'[w].at = "sent" /\ lane'[w].call = c /\ lane'[w].work = lane[w].work
       /\ lane'[w].prog = lane[w].prog /\ lane'[w].held = lane[w].held
  BY <1>3, <1>6, <1>7, <1>9 DEF LaneRecord
<1>11. Types'
  BY <1>5, <1>9 DEF EgressInv, Types, egressVars
<1>12. Res(w)' = r /\ ~Posting(w)' /\ (c = "create" => Posting(w))
  BY <1>3, <1>10 DEF Res, Posting
<1>13. \A x \in Resources : PostMayLand(x)' => PostMayLand(x)
  <2> SUFFICES ASSUME NEW x \in Resources, PostMayLand(x)' PROVE PostMayLand(x)
    OBVIOUS
  <2>1. CASE \E y \in net' : y.kind = "create" /\ y.res = x
    BY <1>3, <1>4, <1>5, <1>12, <2>1 DEF PostMayLand, Posting
  <2>2. CASE \E v \in Workers : Posting(v)' /\ Res(v)' = x
    BY <1>9, <1>12, <2>2 DEF PostMayLand, Posting, Res
  <2> QED
    BY <2>1, <2>2 DEF PostMayLand, Posting
<1>14. OnePost'
  <2>1. \A y \in net' : y.kind = "create" => y \in net \/ (y = q /\ Posting(w))
    BY <1>4, <1>5, <1>12
  <2>2. \A v \in Workers : Posting(v)' => v # w /\ Posting(v) /\ Res(v)' = Res(v)
    BY <1>9, <1>12 DEF Posting, Res
  <2>3. \A q1, q2 \in net' : q1.kind = "create" /\ IsPost(q2, q1.res) => q1 = q2
    BY <1>4, <2>1 DEF EgressInv, OnePost, IsPost
  <2>4. \A v \in Workers : Posting(v)' =>
       /\ \A y \in net' : ~IsPost(y, Res(v)')
       /\ \A x \in Workers : Posting(x)' /\ Res(x)' = Res(v)' => x = v
    <3> SUFFICES ASSUME NEW v \in Workers, Posting(v)'
                 PROVE  /\ \A y \in net' : ~IsPost(y, Res(v)')
                        /\ \A x \in Workers : Posting(x)' /\ Res(x)' = Res(v)' => x = v
      OBVIOUS
    <3>1. v # w /\ Posting(v) /\ Res(v)' = Res(v)
      BY <2>2
    <3>2. \A y \in net : ~IsPost(y, Res(v))
      BY <3>1 DEF EgressInv, OnePost
    <3>3. Posting(w) => Res(v) # r
      BY <3>1 DEF EgressInv, OnePost
    <3>4. \A y \in net' : ~IsPost(y, Res(v)')
      BY <1>4, <1>5, <2>1, <3>1, <3>2, <3>3 DEF IsPost
    <3>5. \A x \in Workers : Posting(x)' /\ Res(x)' = Res(v)' => x = v
      BY <2>2, <3>1 DEF EgressInv, OnePost
    <3> QED
      BY <3>4, <3>5
  <2> QED
    BY <2>3, <2>4 DEF OnePost, IsPost
<1>15. OneHolder'
  <2>1. \A v \in Workers : "epoch" \in lane'[v].held =>
                             "epoch" \in lane[v].held /\ Res(v)' = Res(v)
    BY <1>9, <1>10, <1>12 DEF Res
  <2> QED
    BY <2>1, NoNewHolder
<1>16. \A x \in Resources : Undisturbed(x)
  <2> TAKE x \in Resources
  <2>1. SameRow(x) /\ LaterObject(x)
    BY <1>5 DEF SameRow, LaterObject, Exists
  <2>2. x \in Snats => rv'[x] >= rv[x]
    BY DEF EgressInv, Types, egressVars
  <2>3. x \in Snats => LaterSwitch(x)
    BY <2>2 DEF LaterSwitch, egressVars
  <2> QED
    BY <1>13, <2>1, <2>3 DEF Undisturbed, Calm
<1>17. \A v \in Workers : GoodLane(v)'
  <2>1. ASSUME NEW v \in Workers, v # w PROVE GoodLane(v)'
    <3> PICK x \in Resources : x = Res(v)
      BY DEF EgressInv, Types, LaneRecord, LaneWork, Res
    <3>1. SameStep(v)
      BY <1>9, <2>1 DEF SameStep
    <3> QED
      BY <1>11, <1>16, <3>1, UndisturbedLane
  <2>2. Vanished(r) => Vanished(r)'
    BY <1>16, UndisturbedVanished
  <2>3. GoodWork(w)'
    BY <1>1, <1>5, <1>10, <1>12 DEF GoodWork, Active
  <2>4. GoodProgress(w)'
    BY <1>1, <1>5, <1>10, <1>12, <2>2 DEF GoodProgress
  <2>5. GoodCall(w)'
    BY <1>1, <1>3, <1>10, <1>12 DEF GoodCall
  <2>6. lane'[w].held = Fences => GoodHold(w)'
    <3>1. lane[w].held = Fences => GoodDuring(w)
      BY DEF EgressInv, GoodLane, GoodHold
    <3> QED
      BY <1>3, <1>5, <1>10, <1>12, <3>1 DEF GoodHold, GoodBefore, GoodDuring, GoodAfter
  <2>7. GoodLane(w)'
    BY <2>3, <2>4, <2>5, <2>6 DEF GoodLane
  <2> QED
    BY <2>1, <2>7
<1>18. \A e \in Eips : GoodEip(e)'
  BY <1>16, UndisturbedEip, Parts DEF egressVars
<1>19. \A y \in net' : y \notin net => GoodRequest(y)'
  <2>1. c = "delete" => row'[r].state \in Ending
    BY <1>1, <1>3, <1>5 DEF GoodCall, GoodWork
  <2>2. c = "update" => /\ r \in Snats /\ n <= rv'[r]
                        /\ d = row'[r].desired /\ spec'[r] # d
    BY <1>1, <1>2, <1>3, <1>5 DEF GoodCall, egressVars
  <2>3. q.kind = c /\ q.res = r /\ q.rv = n /\ q.enable = d
    BY <1>4
  <2>4. GoodRequest(q)'
    BY <2>1, <2>2, <2>3 DEF GoodRequest
  <2> QED
    BY <1>5, <2>4
<1>20. \A s \in Snats : EipOf(s) \in Eips /\ claim[EipOf(s)] = s => claim'[EipOf(s)] = s
  BY DEF egressVars
<1> QED
  BY <1>11, <1>14, <1>15, <1>16, <1>17, <1>18, <1>19, <1>20, NoneDisturbed

\* The preflight ends the call: what CallFailed concludes is sound.
LEMMA CheckFailsStep ==
  ASSUME EgressInv, NEW w \in Workers, lane[w].at = "check", NEW kind,
         lane[w].call = "create" => kind \in {"temporary", "conflict", "reject", "uncertain"},
         Conclude(w, CallFailed(w, kind), "unknown"), UNCHANGED <<row, kcVars, egressVars>>
  PROVE  EgressInv'
<1>1. PICK r \in Resources : r = Res(w)
  BY CallingLane
<1>2. lane \in [Workers -> LaneRecord]
  BY DEF EgressInv, Types
<1>3. lane'[w].at = "finish" /\ \A v \in Workers \ {w} : lane'[v] = lane[v]
  BY <1>2 DEF Conclude, LaneRecord
<1>4. UNCHANGED <<net, obj, made>>
  BY DEF kcVars
<1>5. ~Posting(w)' /\ NoNewPost
  BY <1>3, <1>4 DEF Posting, NoNewPost, Res
<1>6. lane[w].call = "create" => PostMayLand(r) /\ ~PostMayLand(r)'
  BY <1>1, <1>3, <1>4, <1>5, PostWithdrawn DEF Posting
<1>7. PostMayLand(r)' => PostMayLand(r)
  BY <1>5, NoNewPostFacts
<1>8. PICK p : p = CallFailed(w, kind)
  OBVIOUS
<1>9. p \in Progress /\ LastingTruth(w, r, p) /\ FencedTruth(w, r, p, "unknown")
  BY <1>1, <1>6, <1>7, <1>8, CallFailedTruth
<1> QED
  BY <1>1, <1>4, <1>8, <1>9, Concludes DEF Facts

LEMMA CheckCreateKeeps ==
  ASSUME EgressInv, NEW w \in Workers, CheckCreate(w)
  PROVE  EgressInv'
<1>1. lane[w].at = "check" /\ lane[w].call = "create" /\ UNCHANGED egressVars
  BY DEF CheckCreate
<1>2. PICK r \in Resources : r = Res(w)
  BY <1>1, CallingLane
<1>3. ~Exists(r)
  BY <1>1, <1>2 DEF EgressInv, GoodResource, PostMayLand
<1>4. \A kind : CreateFailed(lane[w].work, lane[w].prog, kind) = CallFailed(w, kind)
  BY <1>1 DEF CallFailed
<1>5. \/ \E kind \in {"conflict", "temporary"} : Answered(w, CallFailed(w, kind), "unknown")
      \/ Send(w, 0, 0)
  BY <1>2, <1>3, <1>4 DEF CheckCreate
<1>6. ASSUME NEW kind \in {"conflict", "temporary"}, Answered(w, CallFailed(w, kind), "unknown")
      PROVE  EgressInv'
  BY <1>1, <1>6, CheckFailsStep DEF Answered
<1>7. CASE Send(w, 0, 0)
  BY <1>1, <1>2, <1>7, SendStep
<1> QED
  BY <1>5, <1>6, <1>7

LEMMA CheckDeleteKeeps ==
  ASSUME EgressInv, NEW w \in Workers, CheckDelete(w)
  PROVE  EgressInv'
<1>1. lane[w].at = "check" /\ lane[w].call = "delete" /\ UNCHANGED egressVars
  BY DEF CheckDelete
<1>2. PICK r \in Resources : r = Res(w)
  BY <1>1, CallingLane
<1>3. \A kind : DeleteAnswered(lane[w].work, lane[w].prog, kind) = CallFailed(w, kind)
  BY <1>1 DEF CallFailed
<1>4. PICK u \in Nat : u = lane[w].prog.uid
  BY <1>1, CallingLane DEF Progress
<1>5. PICK n \in Nat : n = IF r \in Snats THEN rv[r] ELSE 0
  BY DEF EgressInv, Types
<1>6. \/ \E kind : Answered(w, CallFailed(w, kind), "unknown")
      \/ Send(w, u, n)
  BY <1>2, <1>3, <1>4, <1>5 DEF CheckDelete
<1>7. ASSUME NEW kind, Answered(w, CallFailed(w, kind), "unknown")
      PROVE  EgressInv'
  BY <1>1, <1>7, CheckFailsStep DEF Answered
<1>8. CASE Send(w, u, n)
  BY <1>1, <1>2, <1>8, SendStep
<1> QED
  BY <1>6, <1>7, <1>8

LEMMA CheckUpdateKeeps ==
  ASSUME EgressInv, NEW w \in Workers, CheckUpdate(w)
  PROVE  EgressInv'
<1>1. lane[w].at = "check" /\ lane[w].call = "update" /\ UNCHANGED egressVars
  BY DEF CheckUpdate
<1>2. /\ lane[w].work \in LaneWork /\ lane[w].prog \in Progress
      /\ GoodWork(w) /\ GoodProgress(w) /\ GoodCall(w)
  BY <1>1, CallingLane
<1>3. PICK r \in Snats : r = Res(w)
  BY <1>1, <1>2 DEF GoodCall
<1>4. r \in Resources
  BY Parts
<1>5. \A kind : UpdateFailed(lane[w].work, lane[w].prog, kind) = CallFailed(w, kind)
  BY <1>1 DEF CallFailed
<1>6. CASE Unresolved(w) \/ (Exists(r) /\ made[r] # lane[w].prog.uid)
  <2>1. Answered(w, CallFailed(w, "conflict"), "unknown")
    BY <1>3, <1>5, <1>6 DEF CheckUpdate
  <2> QED
    BY <1>1, <2>1, CheckFailsStep DEF Answered
<1> DEFINE closed == ~Exists(r) \/ (lane[w].work.desired /\ ~spec[r] /\ ~MayEnable(r))
<1>7. CASE ~(Unresolved(w) \/ (Exists(r) /\ made[r] # lane[w].prog.uid)) /\ closed
  <2>1. Answered(w, CallFailed(w, "temporary"), "unknown")
    BY <1>3, <1>5, <1>7 DEF CheckUpdate
  <2> QED
    BY <1>1, <2>1, CheckFailsStep DEF Answered
<1>8. CASE /\ ~(Unresolved(w) \/ (Exists(r) /\ made[r] # lane[w].prog.uid))
           /\ ~closed /\ spec[r] # lane[w].work.desired
  <2>1. PICK u \in Nat : u = lane[w].prog.uid
    BY <1>2 DEF Progress
  <2>2. PICK n \in Nat : n = rv[r]
    BY DEF EgressInv, Types
  <2>3. Send(w, u, n)
    BY <1>3, <1>8, <2>1, <2>2 DEF CheckUpdate
  <2>4. lane[w].work.desired = row[r].desired
    BY <1>3, <1>8 DEF Unresolved
  <2> QED
    BY <1>1, <1>3, <1>4, <1>8, <2>2, <2>3, <2>4, SendStep
<1>9. CASE /\ ~(Unresolved(w) \/ (Exists(r) /\ made[r] # lane[w].prog.uid))
           /\ ~closed /\ spec[r] = lane[w].work.desired
  <2>1. PICK ready \in BOOLEAN : ready = SnatReady(r)
    BY DEF SnatReady
  <2>2. lane[w].work.state \notin Ending /\ lane[w].work.state # "none"
    BY <1>1, <1>2 DEF GoodCall, GoodWork
  <2>3. PICK p \in Progress : p = UpdateSucceeded(lane[w].work, lane[w].prog, ready, FALSE)
    BY <1>2, <2>2, UpdateSucceededFields
  <2>4. /\ p.uid = lane[w].prog.uid /\ p.state \notin Ending \cup {"none"}
        /\ ~ready => p.op = lane[w].prog.op
    BY <1>2, <2>2, <2>3, UpdateSucceededFields
  <2>5. PICK f \in Facts : f = SnatApplied(r)
    BY AppliedFacts
  <2>6. Answered(w, p, f)
    BY <1>3, <1>9, <2>1, <2>3, <2>5 DEF CheckUpdate
  <2>7. f # "unknown" => Confirmed(r, f)
    BY <2>5, AppliedFacts
  <2>8. ready => InPlace(r)
    BY <2>1, <2>5, <2>7 DEF SnatReady, Confirmed, InPlace
  <2>9. LastingTruth(w, r, p)
    BY <1>2, <1>3, <2>2, <2>4 DEF LastingTruth, GoodProgress, Ending
  <2>10. UNCHANGED <<row, net, obj, made>> /\ Conclude(w, p, f)
    BY <2>6 DEF Answered, kcVars
  <2>11. lane[w].held = Fences => row[r].pending = "update"
    BY <1>1, <1>3 DEF EgressInv, GoodLane, GoodHold, GoodDuring
  <2>12. lane[w].held = Fences => ~PostMayLand(r) /\ (made[r] = 1 => row[r].uid = 1)
    BY <1>4, <2>11 DEF EgressInv, GoodResource
  <2>13. PostMayLand(r)' => PostMayLand(r)
    <3>1. lane \in [Workers -> LaneRecord]
      BY DEF EgressInv, Types
    <3>2. NoNewPost
      BY <2>10, <3>1 DEF NoNewPost, Posting, Res, Conclude, LaneRecord
    <3> QED
      BY <1>4, <3>2, NoNewPostFacts
  <2>14. lane[w].prog.op \notin CompletedStates
    BY <1>1, <1>2 DEF GoodProgress
  <2>15. FencedTruth(w, r, p, f)
    BY <2>4, <2>7, <2>8, <2>11, <2>12, <2>13, <2>14 DEF FencedTruth
  <2> QED
    BY <1>1, <1>3, <1>4, <2>9, <2>10, <2>15, Concludes
<1> QED
  BY <1>6, <1>7, <1>8, <1>9

LEMMA TroubleKeeps ==
  ASSUME EgressInv, NEW w \in Workers, LeaseLost(w) \/ CheckFails(w) \/ CallTimesOut(w) \/ Crash(w),
         UNCHANGED egressVars
  PROVE  EgressInv'
<1>1. CASE LeaseLost(w) \/ Crash(w)
  BY <1>1, GivesUp DEF LeaseLost, Crash, kcVars
<1>2. CASE CheckFails(w)
  <2>1. PICK kind \in {"temporary", "conflict"} : Conclude(w, CallFailed(w, kind), "unknown")
    BY <1>2 DEF CheckFails
  <2> QED
    BY <1>2, <2>1, CheckFailsStep DEF CheckFails
<1>3. CASE CallTimesOut(w)
  <2>1. lane[w].at = "sent" /\ UNCHANGED <<row, net, obj, made>>
    BY <1>3 DEF CallTimesOut, kcVars
  <2>2. PICK r \in Resources : r = Res(w)
    BY <2>1, CallingLane
  <2>3. lane \in [Workers -> LaneRecord]
    BY DEF EgressInv, Types
  <2>4. NoNewPost
    BY <1>3, <2>1, <2>3 DEF CallTimesOut, NoNewPost, Posting, Res, Conclude, LaneRecord
  <2>5. PICK p : p = CallFailed(w, "uncertain")
    OBVIOUS
  <2>6. p \in Progress /\ LastingTruth(w, r, p) /\ FencedTruth(w, r, p, "unknown")
    BY <2>1, <2>2, <2>4, <2>5, NoNewPostFacts, CallFailedTruth
  <2> QED
    BY <1>3, <2>1, <2>2, <2>5, <2>6, Concludes DEF Facts, CallTimesOut
<1> QED
  BY <1>1, <1>2, <1>3

-----------------------------------------------------------------------------
(***************************************************************************)
(* The answers of the provider.                                            *)
(***************************************************************************)
LEMMA CalmAnswer ==
  ASSUME EgressInv, NEW q \in net, NEW r \in Resources, r = q.res, NEW p,
         Answer(q, p, "unknown"),
         UNCHANGED <<made, target, claim, bound>>, \A x \in Resources : Calm(x),
         ProviderTypes',
         Waits(q) => /\ p \in Progress /\ LastingTruth(q.from, r, p)
                     /\ FencedTruth(q.from, r, p, "unknown")
  PROVE  EgressInv'
<1>1. q \in Request /\ q.from \in Workers
  BY DEF EgressInv, Types, Request
<1>2. PICK w \in Workers : w = q.from
  BY <1>1
<1>3. net' = net \ {q} /\ row' = row
  BY DEF Answer
<1>4. CASE Waits(q)
  <2>1. lane[w].at = "sent" /\ Res(w) = r
    BY <1>2, <1>4 DEF Waits, Res
  <2>2. PICK o \in LaneRecord : o = lane[w]
    BY DEF EgressInv, Types
  <2>3. p \in Progress /\ LastingTruth(w, r, p) /\ FencedTruth(w, r, p, "unknown")
    BY <1>2, <1>4
  <2>4. PICK l \in LaneRecord :
          l = [o EXCEPT !.at = "finish", !.prog = p, !.facts = "unknown"]
    BY <2>3 DEF LaneRecord, LaneStates, Facts
  <2>5. lane' = [lane EXCEPT ![w] = l]
    BY <1>2, <1>4, <2>2, <2>4 DEF Answer, Conclude
  <2>6. /\ l.at = "finish" /\ l.prog = p /\ l.facts = "unknown"
        /\ l.work = o.work /\ l.held = o.held
    BY <2>3, <2>4 DEF LaneRecord
  <2>7. "unknown" \in Facts
    BY DEF Facts
  <2> QED
    BY <1>3, <2>1, <2>2, <2>3, <2>5, <2>6, <2>7, CalmConcludes
<1>5. CASE ~Waits(q)
  <2>1. lane' = lane
    BY <1>5 DEF Answer
  <2>2. Types'
    BY <1>3, <2>1 DEF EgressInv, Types, ProviderTypes
  <2>3. NoNewPost
    BY <1>3, <2>1 DEF NoNewPost, Posting, Res
  <2>4. GoodLane(w)'
    <3> PICK x \in Resources : x = Res(w)
      BY DEF EgressInv, Types, LaneRecord, LaneWork, Res
    <3>1. Undisturbed(x)
      BY <2>3, NoNewPostFacts DEF Undisturbed
    <3>2. SameStep(w)
      BY <2>1 DEF SameStep
    <3> QED
      BY <2>2, <3>1, <3>2, UndisturbedLane
  <2> QED
    BY <1>3, <2>1, <2>2, <2>4, CalmLaneMoves DEF Res
<1> QED
  BY <1>4, <1>5

\* What the lane concludes from an answer that makes no object.
LEMMA AnswerTruth ==
  ASSUME EgressInv, NEW q \in net, NEW r \in Resources, r = q.res, NEW kind, NEW p,
         Answer(q, p, "unknown"), Waits(q),
         q.kind = "create" => kind \in {"temporary", "conflict", "reject", "uncertain"}
  PROVE  /\ CallFailed(q.from, kind) \in Progress
         /\ LastingTruth(q.from, r, CallFailed(q.from, kind))
         /\ FencedTruth(q.from, r, CallFailed(q.from, kind), "unknown")
<1>1. PICK w \in Workers : w = q.from
  BY DEF EgressInv, Types, Request
<1>2. lane[w].at = "sent" /\ lane[w].call = q.kind /\ r = Res(w)
  BY <1>1 DEF Waits, Res
<1>3. lane \in [Workers -> LaneRecord]
  BY DEF EgressInv, Types
<1>4. net' = net \ {q}
  BY DEF Answer
<1>5. NoNewPost
  BY <1>1, <1>3, <1>4 DEF NoNewPost, Posting, Res, Answer, Conclude, LaneRecord
<1>6. q.kind = "create" => PostMayLand(r) /\ ~PostMayLand(r)'
  BY <1>4, <1>5, PostAnswered DEF IsPost, NoNewPost
<1> QED
  BY <1>1, <1>2, <1>5, <1>6, NoNewPostFacts, CallFailedTruth

LEMMA RefusedKeeps ==
  ASSUME EgressInv, NEW q \in net, Refuse(q) \/ Lose(q), UNCHANGED egressVars
  PROVE  EgressInv'
<1>1. PICK r \in Resources : r = q.res
  BY DEF EgressInv, Types, Request
<1>2. PICK kind \in {"temporary", "conflict", "reject", "uncertain"} :
        Answer(q, CallFailed(q.from, kind), "unknown")
  BY DEF Refuse, Lose
<1>3. UNCHANGED <<row, obj, made>>
  BY DEF Refuse, Lose, Answer
<1>4. PICK p : p = CallFailed(q.from, kind)
  OBVIOUS
<1>5. Waits(q) => /\ p \in Progress /\ LastingTruth(q.from, r, p)
                  /\ FencedTruth(q.from, r, p, "unknown")
  BY <1>1, <1>2, <1>4, AnswerTruth
<1> QED
  BY <1>1, <1>2, <1>3, <1>4, <1>5, StandStill, CalmAnswer

LEMMA DeleteKeeps ==
  ASSUME EgressInv, NEW q \in net, q.kind = "delete", Delete(q)
  PROVE  EgressInv'
<1>1. PICK r \in Resources : r = q.res
  BY DEF EgressInv, Types, Request
<1>2. /\ UNCHANGED egressVars /\ made' = made
      /\ \/ obj' = obj
         \/ Exists(r) /\ obj' = [obj EXCEPT ![r] = "terminating"]
  BY <1>1 DEF Delete, ApplyDelete
<1>3. PICK kind : Answer(q, DeleteAnswered(lane[q.from].work, lane[q.from].prog, kind),
                         "unknown")
  BY DEF Delete, ApplyDelete
<1>4. PICK p : p = DeleteAnswered(lane[q.from].work, lane[q.from].prog, kind)
  OBVIOUS
<1>5. Waits(q) => p = CallFailed(q.from, kind)
  BY <1>4 DEF Waits, CallFailed
<1>6. Waits(q) => /\ p \in Progress /\ LastingTruth(q.from, r, p)
                  /\ FencedTruth(q.from, r, p, "unknown")
  BY <1>1, <1>3, <1>4, <1>5, AnswerTruth
<1>7. row' = row
  BY <1>3 DEF Answer
<1>8. ProviderTypes'
  BY <1>2 DEF EgressInv, Types, ProviderTypes, egressVars
<1>9. ASSUME NEW x \in Resources PROVE Calm(x)
  <2>1. SameRow(x)
    BY <1>7 DEF SameRow
  <2>2. row[r].state \in Ending
    BY <1>1 DEF EgressInv, GoodRequest
  <2>3. obj \in [Resources -> {"absent", "live", "terminating"}]
    BY DEF EgressInv, Types
  <2>4. LaterObject(x)
    BY <1>2, <2>2, <2>3 DEF LaterObject, Exists
  <2>5. x \in Snats => rv'[x] >= rv[x]
    BY <1>2 DEF EgressInv, Types, egressVars
  <2>6. x \in Snats => LaterSwitch(x)
    BY <1>2, <1>7, <2>5 DEF LaterSwitch, egressVars
  <2> QED
    BY <2>1, <2>4, <2>6 DEF Calm
<1> QED
  BY <1>1, <1>2, <1>3, <1>4, <1>6, <1>8, <1>9, CalmAnswer DEF egressVars

LEMMA UpdateKeeps ==
  ASSUME EgressInv, NEW q \in net, Update(q)
  PROVE  EgressInv'
<1>1. PICK r \in Snats : r = q.res
  BY DEF EgressInv, GoodRequest, Update
<1>2. r \in Resources /\ q.kind = "update" /\ q \in Request
  BY Parts DEF Update, EgressInv, Types
<1>3. UNCHANGED <<obj, made, target, claim, bound, status>> /\ row' = row
  BY DEF Update, Answer
<1>4. CASE ~PatchApplies(q)
  <2>1. spec' = spec /\ rv' = rv
    BY <1>4 DEF Update
  <2>2. PICK kind : Answer(q, UpdateFailed(lane[q.from].work, lane[q.from].prog, kind),
                           "unknown")
    BY <1>4 DEF Update
  <2>3. PICK p : p = UpdateFailed(lane[q.from].work, lane[q.from].prog, kind)
    OBVIOUS
  <2>4. Waits(q) => p = CallFailed(q.from, kind)
    BY <1>2, <2>3 DEF Waits, CallFailed
  <2>5. Waits(q) => /\ p \in Progress /\ LastingTruth(q.from, r, p)
                    /\ FencedTruth(q.from, r, p, "unknown")
    BY <1>1, <1>2, <2>2, <2>3, <2>4, AnswerTruth
  <2>6. ProviderTypes'
    BY <1>3, <2>1 DEF EgressInv, Types, ProviderTypes
  <2>7. ASSUME NEW x \in Resources PROVE Calm(x)
    <3>1. SameRow(x) /\ LaterObject(x)
      BY <1>3 DEF SameRow, LaterObject, Exists
    <3>2. x \in Snats => rv'[x] >= rv[x]
      BY <2>1 DEF EgressInv, Types
    <3>3. x \in Snats => LaterSwitch(x)
      BY <1>3, <2>1, <3>2 DEF LaterSwitch
    <3> QED
      BY <3>1, <3>3 DEF Calm
  <2> QED
    BY <1>1, <1>2, <1>3, <2>2, <2>3, <2>5, <2>6, <2>7, CalmAnswer
<1>5. CASE PatchApplies(q)
  <2>1. spec' = [spec EXCEPT ![r] = q.enable] /\ rv' = [rv EXCEPT ![r] = @ + 1]
    BY <1>1, <1>5 DEF Update
  <2>2. spec \in [Snats -> BOOLEAN] /\ rv \in [Snats -> Nat]
    BY DEF EgressInv, Types
  <2>3. q.enable = row[r].desired /\ spec[r] # q.enable
    BY <1>1, <1>2, <1>5 DEF EgressInv, GoodRequest
  <2>4. ProviderTypes'
    BY <1>2, <1>3, <2>1, <2>2 DEF EgressInv, Types, ProviderTypes, Request
  <2>5. ASSUME NEW x \in Resources PROVE Calm(x)
    <3>1. SameRow(x) /\ LaterObject(x)
      BY <1>3 DEF SameRow, LaterObject, Exists
    <3>2. x \in Snats => rv'[x] >= rv[x] /\ (x = r => rv'[x] > rv[x])
      BY <2>1, <2>2
    <3>3. x \in Snats => (spec'[x] # spec[x] => x = r /\ spec[x] # row[x].desired)
      BY <2>1, <2>2, <2>3
    <3>4. x \in Snats => LaterSwitch(x)
      BY <1>3, <3>2, <3>3 DEF LaterSwitch
    <3> QED
      BY <3>1, <3>4 DEF Calm
  <2>6. PICK p : p = UpdateSucceeded(lane[q.from].work, lane[q.from].prog, FALSE, FALSE)
    OBVIOUS
  <2>7. Answer(q, p, "unknown")
    BY <1>5, <2>6 DEF Update
  <2>8. ASSUME Waits(q)
        PROVE  /\ p \in Progress /\ LastingTruth(q.from, r, p)
               /\ FencedTruth(q.from, r, p, "unknown")
    <3>1. PICK w \in Workers : w = q.from
      BY <1>2 DEF Request
    <3>2. lane[w].at = "sent" /\ lane[w].call = "update" /\ r = Res(w)
      BY <1>1, <1>2, <2>8, <3>1 DEF Waits, Res
    <3>3. /\ lane[w].work \in LaneWork /\ lane[w].prog \in Progress
          /\ GoodWork(w) /\ GoodProgress(w) /\ GoodCall(w)
          /\ lane[w].prog.op \notin CompletedStates
      BY <3>2, CallingLane
    <3>4. lane[w].work.state \notin Ending /\ lane[w].work.state # "none"
      BY <3>2, <3>3 DEF GoodCall, GoodWork
    <3>5. /\ p \in Progress /\ p.uid = lane[w].prog.uid /\ p.op = lane[w].prog.op
          /\ p.state \notin Ending \cup {"none"}
      BY <2>6, <3>1, <3>3, <3>4, UpdateSucceededFields
    <3>6. LastingTruth(w, r, p)
      BY <3>2, <3>3, <3>4, <3>5 DEF LastingTruth, GoodProgress, Ending
    <3>7. lane[w].held = Fences => row[r].pending = "update"
      BY <3>2 DEF EgressInv, GoodLane, GoodHold, GoodDuring
    <3>8. lane[w].held = Fences => ~PostMayLand(r) /\ (made[r] = 1 => row[r].uid = 1)
      BY <1>2, <3>7 DEF EgressInv, GoodResource
    <3>9. PostMayLand(r)' => PostMayLand(r)
      <4>1. lane \in [Workers -> LaneRecord]
        BY DEF EgressInv, Types
      <4>2. NoNewPost
        BY <2>7, <3>1, <4>1 DEF NoNewPost, Posting, Res, Answer, Conclude, LaneRecord
      <4> QED
        BY <1>2, <4>2, NoNewPostFacts
    <3>10. FencedTruth(w, r, p, "unknown")
      BY <3>3, <3>5, <3>8, <3>9 DEF FencedTruth
    <3> QED
      BY <3>1, <3>5, <3>6, <3>10
  <2> QED
    BY <1>1, <1>2, <1>3, <2>4, <2>5, <2>7, <2>8, CalmAnswer
<1> QED
  BY <1>4, <1>5

-----------------------------------------------------------------------------
(***************************************************************************)
(* Steps that move no lane and no request.                                 *)
(***************************************************************************)
LEMMA LanesRest ==
  ASSUME EgressInv, UNCHANGED <<lane, net>>, Types', \A x \in Resources : Calm(x),
         \A s \in Snats : EipOf(s) \in Eips /\ claim[EipOf(s)] = s => claim'[EipOf(s)] = s,
         \A e \in Eips : \/ claim'[e] = claim[e] /\ bound'[e] \in {bound[e], Nobody, claim[e]}
                         \/ GoodEip(e)'
  PROVE  EgressInv'
<1>1. NoNewPost
  BY DEF NoNewPost, Posting, Res
<1>2. OneHolder'
  BY NoNewHolder DEF Res
<1>3. \A x \in Resources : Undisturbed(x)
  BY <1>1, NoNewPostFacts DEF Undisturbed
<1>4. \A v \in Workers : GoodLane(v)'
  <2> TAKE v \in Workers
  <2> PICK r \in Resources : r = Res(v)
    BY DEF EgressInv, Types, LaneRecord, LaneWork, Res
  <2>1. SameStep(v)
    BY DEF SameStep
  <2> QED
    BY <1>3, <2>1, UndisturbedLane
<1>5. \A e \in Eips : GoodEip(e)'
  BY <1>3, UndisturbedEip, Parts
<1> QED
  BY <1>1, <1>2, <1>3, <1>4, <1>5, NoNewPostFacts, NoneDisturbed

LEMMA TimeKeeps ==
  ASSUME EgressInv, NEW r \in Resources, LeaseExpires(r) \/ ObservationAges(r),
         UNCHANGED egressVars
  PROVE  EgressInv'
<1>1. row \in [Resources -> EgressRow]
  BY DEF EgressInv, Types
<1>2. PICK k \in EgressRow : k = row[r]
  BY <1>1
<1>3. PICK n \in EgressRow : /\ n = [k EXCEPT !.lease = FALSE] \/ n = [k EXCEPT !.fresh = FALSE]
                             /\ row' = [row EXCEPT ![r] = n]
  <2>1. [k EXCEPT !.lease = FALSE] \in EgressRow /\ [k EXCEPT !.fresh = FALSE] \in EgressRow
    BY DEF EgressRow
  <2>2. \/ row' = [row EXCEPT ![r] = [k EXCEPT !.lease = FALSE]]
        \/ row' = [row EXCEPT ![r] = [k EXCEPT !.fresh = FALSE]]
    BY <1>2 DEF LeaseExpires, ObservationAges
  <2> QED
    BY <2>1, <2>2
<1>4. /\ n.state = k.state /\ n.op = k.op /\ n.uid = k.uid /\ n.pending = k.pending
      /\ n.desired = k.desired /\ n.applied = k.applied
  BY <1>3 DEF EgressRow
<1>5. k.state # "none"
  <2>1. k.lease \/ k.fresh
    BY <1>2 DEF LeaseExpires, ObservationAges
  <2>2. k.state = "none" => k = NoEgressRow
    BY <1>2 DEF EgressInv, GoodResource
  <2>3. NoEgressRow.lease = FALSE /\ NoEgressRow.fresh = FALSE
    BY DEF NoEgressRow
  <2> QED
    BY <2>1, <2>2, <2>3
<1>6. row' \in [Resources -> EgressRow] /\ row'[r] = n
      /\ \A x \in Resources \ {r} : row'[x] = row[x]
  BY <1>1, <1>3
<1>7. UNCHANGED <<lane, net, obj, made>>
  BY DEF LeaseExpires, ObservationAges, kcVars
<1>8. Types'
  BY <1>6, <1>7 DEF EgressInv, Types, egressVars
<1>9. ASSUME NEW x \in Resources PROVE Calm(x)
  <2>1. SameRow(x)
    BY <1>2, <1>4, <1>5, <1>6 DEF SameRow
  <2>2. LaterObject(x)
    BY <1>7 DEF LaterObject, Exists
  <2>3. x \in Snats => rv'[x] >= rv[x]
    BY DEF EgressInv, Types, egressVars
  <2>4. x \in Snats => LaterSwitch(x)
    BY <1>7, <2>3 DEF LaterSwitch, egressVars
  <2> QED
    BY <2>1, <2>2, <2>4 DEF Calm
<1> QED
  BY <1>7, <1>8, <1>9, LanesRest DEF egressVars

\* Allocation and the exit.
LEMMA ExitKeeps ==
  ASSUME EgressInv,
         UNCHANGED <<row, lane, net, obj, made, target, claim, bound, spec, status, rv>>
  PROVE  EgressInv'
<1>1. Types'
  BY DEF EgressInv, Types
<1>2. ASSUME NEW x \in Resources PROVE Calm(x)
  <2>1. SameRow(x) /\ LaterObject(x)
    BY DEF SameRow, LaterObject, Exists
  <2>2. x \in Snats => rv'[x] >= rv[x]
    BY DEF EgressInv, Types
  <2>3. x \in Snats => LaterSwitch(x)
    BY <2>2 DEF LaterSwitch
  <2> QED
    BY <2>1, <2>3 DEF Calm
<1> QED
  BY <1>1, <1>2, LanesRest

LEMMA GoneKeeps ==
  ASSUME EgressInv, NEW r \in Resources, Gone(r)
  PROVE  EgressInv'
<1>1. /\ obj[r] = "terminating" /\ obj' = [obj EXCEPT ![r] = "absent"]
      /\ UNCHANGED <<row, lane, net, made, target, claim, bound, spec, status, rv>>
  BY DEF Gone, Finalize, dbVars
<1>2. obj \in [Resources -> {"absent", "live", "terminating"}]
  BY DEF EgressInv, Types
<1>3. obj' \in [Resources -> {"absent", "live", "terminating"}]
  BY <1>1, <1>2
<1>4. Types'
  BY <1>1, <1>3 DEF EgressInv, Types
<1>5. ASSUME NEW x \in Resources PROVE Calm(x)
  <2>1. SameRow(x)
    BY <1>1 DEF SameRow
  <2>2. LaterObject(x)
    BY <1>1, <1>2 DEF LaterObject, Exists
  <2>3. x \in Snats => rv'[x] >= rv[x]
    BY <1>1 DEF EgressInv, Types
  <2>4. x \in Snats => LaterSwitch(x)
    BY <1>1, <2>3 DEF LaterSwitch
  <2> QED
    BY <2>1, <2>2, <2>4 DEF Calm
<1> QED
  BY <1>1, <1>4, <1>5, LanesRest

LEMMA ApplyKeeps ==
  ASSUME EgressInv, NEW s \in Snats, Apply(s)
  PROVE  EgressInv'
<1>1. /\ status[s] # Switch(spec[s]) /\ status' = [status EXCEPT ![s] = Switch(spec[s])]
      /\ rv' = [rv EXCEPT ![s] = @ + 1]
      /\ UNCHANGED <<row, lane, net, obj, made, target, claim, bound, spec>>
  BY DEF Apply, coreVars
<1>2. status \in [Snats -> Facts] /\ rv \in [Snats -> Nat] /\ Switch(spec[s]) \in Facts
  BY DEF EgressInv, Types, Switch, Facts
<1>3. status' \in [Snats -> Facts] /\ rv' \in [Snats -> Nat]
  BY <1>1, <1>2
<1>4. Types'
  BY <1>1, <1>3 DEF EgressInv, Types
<1>5. ASSUME NEW x \in Resources PROVE Calm(x)
  <2>1. SameRow(x) /\ LaterObject(x)
    BY <1>1 DEF SameRow, LaterObject, Exists
  <2>2. x \in Snats => rv'[x] >= rv[x]
    BY <1>1, <1>2
  <2>3. x \in Snats => (status[x] = Switch(spec[x]) => status'[x] = status[x])
    BY <1>1, <1>2
  <2>4. x \in Snats => LaterSwitch(x)
    BY <1>1, <2>2, <2>3 DEF LaterSwitch
  <2> QED
    BY <2>1, <2>4 DEF Calm
<1> QED
  BY <1>1, <1>4, <1>5, LanesRest

\* One binding changes: to the holder of the claim, or to nobody.
LEMMA BindingKeeps ==
  ASSUME EgressInv, NEW e \in Eips, NEW b \in Snats \cup {LB, Nobody},
         bound' = [bound EXCEPT ![e] = b], b \in {Nobody, claim[e]},
         \A s \in Snats : b = s => Exists(s),
         UNCHANGED <<row, lane, net, obj, made, target, claim, spec, status, rv>>
  PROVE  EgressInv'
<1>1. bound \in [Eips -> Snats \cup {LB, Nobody}]
  BY DEF EgressInv, Types
<1>2. bound' \in [Eips -> Snats \cup {LB, Nobody}]
  BY <1>1
<1>3. Types'
  BY <1>2 DEF EgressInv, Types
<1>4. ASSUME NEW x \in Resources PROVE Calm(x)
  <2>1. SameRow(x) /\ LaterObject(x)
    BY DEF SameRow, LaterObject, Exists
  <2>2. x \in Snats => rv'[x] >= rv[x]
    BY DEF EgressInv, Types
  <2>3. x \in Snats => (EipOf(x) \in Eips /\ bound'[EipOf(x)] = x => bound[EipOf(x)] = x \/ Exists(x))
    BY <1>1
  <2>4. x \in Snats => LaterSwitch(x)
    BY <2>2, <2>3 DEF LaterSwitch
  <2> QED
    BY <2>1, <2>4 DEF Calm
<1>5. \A y \in Eips : claim'[y] = claim[y] /\ bound'[y] \in {bound[y], Nobody, claim[y]}
  BY <1>1
<1> QED
  BY <1>3, <1>4, <1>5, LanesRest

LEMMA BindKeeps ==
  ASSUME EgressInv, NEW s \in Snats, Bind(s) \/ Unbind(s)
  PROVE  EgressInv'
<1>1. UNCHANGED <<row, lane, net, obj, made, target, claim, spec, status, rv>>
  BY DEF Bind, Unbind, coreVars
<1>2. GoodBinding(s) /\ GoodResource(s) /\ EipOf(s) \in Eips \cup {Nobody}
  BY Parts DEF EgressInv, Types, EipOf
<1>3. CASE Bind(s)
  <2>1. Exists(s) /\ bound' = [bound EXCEPT ![EipOf(s)] = s]
    BY <1>3 DEF Bind, Exists
  <2>2. row[s].state \notin {"none", "deleted"}
    <3>1. made[s] = 1
      BY <1>2, <2>1 DEF GoodResource
    <3>2. NoEgressRow.uid # 1 /\ NoEgressRow.pending # "create"
      BY DEF NoEgressRow
    <3>3. row[s].state # "none"
      <4> SUFFICES ASSUME row[s].state = "none" PROVE FALSE
        OBVIOUS
      <4>1. row[s] = NoEgressRow /\ (row[s].uid = 1 \/ row[s].pending = "create")
        BY <1>2, <3>1 DEF GoodResource
      <4> QED
        BY <3>2, <4>1, Zenon
    <3>4. row[s].state # "deleted"
      BY <1>2, <2>1 DEF GoodResource, Vanished, Present
    <3> QED
      BY <3>3, <3>4
  <2>3. EipOf(s) \in Eips /\ claim[EipOf(s)] = s
    BY <1>2, <2>2 DEF GoodBinding
  <2>4. PICK e \in Eips : e = EipOf(s)
    BY <2>3
  <2> QED
    BY <1>1, <2>1, <2>3, <2>4, BindingKeeps
<1>4. CASE Unbind(s)
  <2>1. PICK e \in Eips : e = EipOf(s) /\ bound' = [bound EXCEPT ![e] = Nobody]
    BY <1>2, <1>4 DEF Unbind
  <2>2. Nobody \notin Snats
    BY Parts, EgressAssumption
  <2> QED
    BY <1>1, <2>1, <2>2, BindingKeeps
<1> QED
  BY <1>3, <1>4

LEMMA LBKeeps ==
  ASSUME EgressInv, NEW e \in Eips,
         LBClaims(e) \/ LBBinds(e) \/ LBUnbinds(e) \/ LBReleases(e)
  PROVE  EgressInv'
<1>1. UNCHANGED <<row, lane, net, obj, made, target, spec, status, rv>>
  BY DEF LBClaims, LBBinds, LBUnbinds, LBReleases, coreVars
<1>2. LB \notin Snats /\ Nobody \notin Snats /\ LB # Nobody
  BY Parts, EgressAssumption DEF LB, Nobody
<1>3. CASE LBBinds(e) \/ LBUnbinds(e)
  <2>1. PICK b \in {LB, Nobody} : bound' = [bound EXCEPT ![e] = b] /\ b \in {Nobody, claim[e]}
    BY <1>3 DEF LBBinds, LBUnbinds
  <2>2. claim' = claim
    BY <1>3 DEF LBBinds, LBUnbinds
  <2> QED
    BY <1>1, <1>2, <2>1, <2>2, BindingKeeps
<1>4. CASE LBClaims(e) \/ LBReleases(e)
  <2>1. PICK b \in {LB, Nobody} : claim' = [claim EXCEPT ![e] = b]
    BY <1>4 DEF LBClaims, LBReleases
  <2>2. bound' = bound /\ claim[e] \in {LB, Nobody}
    BY <1>4 DEF LBClaims, LBReleases, EipTaken
  <2>3. claim \in [Eips -> Snats \cup {LB, Nobody}]
    BY DEF EgressInv, Types
  <2>4. claim' \in [Eips -> Snats \cup {LB, Nobody}] /\ claim'[e] = b
        /\ \A y \in Eips \ {e} : claim'[y] = claim[y]
    BY <2>1, <2>3
  <2>5. Types'
    BY <1>1, <2>2, <2>4 DEF EgressInv, Types
  <2>6. ASSUME NEW x \in Resources PROVE Calm(x)
    <3>1. SameRow(x) /\ LaterObject(x)
      BY <1>1 DEF SameRow, LaterObject, Exists
    <3>2. x \in Snats => rv'[x] >= rv[x]
      BY <1>1 DEF EgressInv, Types
    <3>3. x \in Snats => LaterSwitch(x)
      BY <1>1, <2>2, <3>2 DEF LaterSwitch
    <3> QED
      BY <3>1, <3>3 DEF Calm
  <2>7. \A s \in Snats : EipOf(s) \in Eips /\ claim[EipOf(s)] = s => claim'[EipOf(s)] = s
    BY <1>2, <2>2, <2>4
  <2>8. GoodEip(e)'
    <3>1. GoodEip(e) /\ e \in Resources /\ GoodResource(e)
      BY Parts DEF EgressInv
    <3>2. CASE LBClaims(e)
      <4>1. /\ claim[e] = Nobody /\ row[e].state = "available" /\ row[e].uid # 0
            /\ claim'[e] = LB
        BY <2>3, <3>2 DEF LBClaims, EipTaken, Fresh
      <4>2. made[e] = 1
        <5>1. made[e] \in Nat /\ made[e] <= 1 /\ made[e] # 0
          BY <3>1, <4>1 DEF GoodResource, EgressInv, Types
        <5> QED
          BY <5>1
      <4>3. bound'[e] = Nobody
        BY <2>2, <3>1, <4>1 DEF GoodEip
      <4> QED
        BY <1>1, <1>2, <4>1, <4>2, <4>3 DEF GoodEip, Ending
    <3>3. CASE LBReleases(e)
      <4>1. claim'[e] = Nobody /\ bound'[e] = Nobody
        BY <2>2, <2>3, <3>3 DEF LBReleases
      <4> QED
        BY <1>2, <4>1 DEF GoodEip
    <3> QED
      BY <1>4, <3>2, <3>3
  <2> QED
    BY <1>1, <2>2, <2>4, <2>5, <2>6, <2>7, <2>8, LanesRest
<1> QED
  BY <1>3, <1>4

-----------------------------------------------------------------------------
(***************************************************************************)
(* Admission: a row changes, and the lanes that work on it lose their      *)
(* fences.                                                                 *)
(***************************************************************************)
LEMMA SameStepsPost ==
  ASSUME EgressInv, \A w \in Workers : SameStep(w), net' = net
  PROVE  NoNewPost
  BY DEF NoNewPost, SameStep, Posting, Res

LEMMA BumpFacts ==
  ASSUME EgressInv, NEW r, NEW fs, lane' = Bump(lane, r, fs)
  PROVE  /\ lane' \in [Workers -> LaneRecord]
         /\ \A w \in Workers : /\ SameStep(w)
                               /\ Res(w) = r => lane'[w].held = lane[w].held \ fs
<1>1. \A w \in Workers :
        lane'[w] = IF Res(w) = r THEN [lane[w] EXCEPT !.held = @ \ fs] ELSE lane[w]
  BY DEF Bump, Res
<1>2. ASSUME NEW w \in Workers
      PROVE  /\ lane'[w] \in LaneRecord /\ SameStep(w)
             /\ Res(w) = r => lane'[w].held = lane[w].held \ fs
  <2>1. PICK l \in LaneRecord : l = lane[w]
    BY DEF EgressInv, Types
  <2>2. PICK m : m = [l EXCEPT !.held = @ \ fs]
    OBVIOUS
  <2>3. /\ m \in LaneRecord /\ m.held = l.held \ fs /\ m.at = l.at /\ m.call = l.call
        /\ m.work = l.work /\ m.prog = l.prog /\ m.facts = l.facts
    BY <2>2 DEF LaneRecord
  <2>4. lane'[w] = IF Res(w) = r THEN m ELSE l
    BY <1>1, <2>1, <2>2
  <2> QED
    BY <2>1, <2>3, <2>4 DEF SameStep
<1>3. lane' = [w \in Workers |-> lane'[w]]
  BY DEF Bump
<1> QED
  BY <1>2, <1>3

LEMMA Elsewhere ==
  ASSUME EgressInv, NEW r \in Resources, \A x \in Resources \ {r} : row'[x] = row[x],
         UNCHANGED <<obj, made, bound, spec, status, rv>>,
         \A s \in Snats \ {r} : target'[s] = target[s], NoNewPost
  PROVE  \A x \in Resources \ {r} : Undisturbed(x)
<1> TAKE x \in Resources \ {r}
<1>1. SameRow(x) /\ LaterObject(x)
  BY DEF SameRow, LaterObject, Exists
<1>2. x \in Snats => rv'[x] >= rv[x]
  BY DEF EgressInv, Types
<1>3. x \in Snats => LaterSwitch(x)
  BY <1>2 DEF LaterSwitch
<1> QED
  BY <1>1, <1>3, NoNewPostFacts DEF Undisturbed, Calm

LEMMA RowMoves ==
  ASSUME EgressInv, NEW r \in Resources, NEW n \in EgressRow, row' = [row EXCEPT ![r] = n],
         UNCHANGED <<net, obj, made, bound, spec, status, rv>>,
         target' \in [Snats -> [vpc : Vpcs \cup {Nobody}, eip : Eips \cup {Nobody}]],
         claim' \in [Eips -> Snats \cup {LB, Nobody}],
         \A s \in Snats \ {r} : target'[s] = target[s],
         \A s \in Snats \ {r} : EipOf(s) \in Eips /\ claim[EipOf(s)] = s => claim'[EipOf(s)] = s,
         lane' \in [Workers -> LaneRecord], \A w \in Workers : SameStep(w),
         \A w \in Workers : Res(w) = r /\ lane[w].at # "idle" => lane'[w].held = {},
         Loose(r), GoodResource(r)', r \in Snats => GoodBinding(r)',
         \A e \in Eips : e = r \/ claim[e] = r \/ claim'[e] # claim[e] => GoodEip(e)',
         \A q \in net : q.res = r => GoodRequest(q)'
  PROVE  EgressInv'
<1>1. row \in [Resources -> EgressRow]
  BY DEF EgressInv, Types
<1>2. row' \in [Resources -> EgressRow] /\ \A x \in Resources \ {r} : row'[x] = row[x]
  BY <1>1
<1>3. Types'
  BY <1>2 DEF EgressInv, Types
<1>4. NoNewPost
  BY SameStepsPost
<1>5. \A x \in Resources \ {r} : Undisturbed(x)
  BY <1>2, <1>4, Elsewhere
<1>6. \A w \in Workers : GoodLane(w)'
  <2> TAKE w \in Workers
  <2>1. PICK x \in Resources : x = Res(w)
    BY DEF EgressInv, Types, LaneRecord, LaneWork, Res
  <2>2. CASE lane[w].at = "idle"
    BY <2>2 DEF GoodLane, SameStep
  <2>3. CASE lane[w].at # "idle" /\ x = r
    BY <2>1, <2>3, LooseLane DEF Fences
  <2>4. CASE x # r
    BY <1>3, <1>5, <2>1, <2>4, UndisturbedLane
  <2> QED
    BY <2>2, <2>3, <2>4
<1>7. \A e \in Eips : GoodEip(e)'
  <2> SUFFICES ASSUME NEW e \in Eips, e # r, claim[e] # r, claim'[e] = claim[e]
               PROVE  GoodEip(e)'
    OBVIOUS
  <2>1. Undisturbed(e) /\ \A s \in Snats : claim[e] = s => Undisturbed(s)
    BY <1>5, Parts
  <2> QED
    BY <2>1, UndisturbedEip
<1>8. OneHolder'
  BY NoNewHolder DEF SameStep, Res
<1> QED
  BY <1>3, <1>4, <1>5, <1>6, <1>7, <1>8, NoNewPostFacts, OneDisturbed

\* A resource nobody has asked for.
LEMMA AbsentFacts ==
  ASSUME EgressInv, NEW r \in Resources, row[r].state = "none"
  PROVE  /\ made[r] = 0 /\ ~Exists(r) /\ ~PostMayLand(r)
         /\ \A w \in Workers : Res(w) = r => lane[w].at = "idle"
         /\ \A q \in net : q.res = r => q.kind = "create" \/ q.kind = "update"
<1>1. GoodResource(r)
  BY DEF EgressInv
<1>2. row[r] = NoEgressRow
  BY <1>1 DEF GoodResource
<1>3. NoEgressRow.uid # 1 /\ NoEgressRow.pending # "create"
  BY DEF NoEgressRow
<1>4. row[r].uid # 1 /\ row[r].pending # "create"
  BY <1>2, <1>3, Zenon
<1>5. made[r] \in Nat /\ made[r] # 1 /\ made[r] <= 1
  BY <1>1, <1>4 DEF GoodResource, EgressInv, Types
<1>6. made[r] = 0
  BY <1>5
<1>7. ~Exists(r) /\ ~PostMayLand(r)
  BY <1>1, <1>4, <1>6 DEF GoodResource
<1>8. \A w \in Workers : Res(w) = r => lane[w].at = "idle"
  BY DEF EgressInv, GoodLane, GoodWork
<1>9. \A q \in net : q.res = r => q.kind = "create" \/ q.kind = "update"
  BY DEF EgressInv, GoodRequest, Types, Request, Mutations, Ending
<1> QED
  BY <1>6, <1>7, <1>8, <1>9

LEMMA AcceptedFields ==
  /\ AcceptedEgress \in EgressRow /\ AcceptedEgress.state = "provisioning"
  /\ AcceptedEgress.op = "queued" /\ AcceptedEgress.uid = 0
  /\ AcceptedEgress.pending = "" /\ AcceptedEgress.applied = "unknown"
<1>1. NoEgressRow \in EgressRow
  BY DEF NoEgressRow, EgressRow, ResourceStates, OperationStates, PendingActions, Kinds, Facts
<1> QED
  BY <1>1 DEF AcceptedEgress, NoEgressRow, EgressRow, ResourceStates, OperationStates,
              ActiveStates

\* The row of a new resource.
LEMMA AcceptedRow ==
  ASSUME EgressInv, NEW r \in Resources, row[r].state = "none",
         row' = [row EXCEPT ![r] = AcceptedEgress], UNCHANGED <<net, obj, made, lane, rv>>
  PROVE  /\ Loose(r) /\ GoodResource(r)'
         /\ \A q \in net : q.res = r => GoodRequest(q)'
         /\ row'[r] = AcceptedEgress
<1>1. row'[r] = AcceptedEgress
  BY DEF EgressInv, Types
<1>2. made[r] = 0 /\ ~Exists(r) /\ ~PostMayLand(r)
  BY AbsentFacts
<1>3. ~Exists(r)' /\ ~PostMayLand(r)'
  BY <1>2 DEF Exists, PostMayLand, Res
<1>4. /\ row'[r].state = "provisioning" /\ row'[r].uid = 0
  BY <1>1, AcceptedFields
<1>5. Loose(r)
  BY <1>4 DEF Loose, Vanished, Ending
<1>6. GoodResource(r)'
  BY <1>2, <1>3, <1>4 DEF GoodResource
<1>7. \A q \in net : q.res = r => GoodRequest(q)'
  <2> SUFFICES ASSUME NEW q \in net, q.res = r PROVE GoodRequest(q)'
    OBVIOUS
  <2>1. GoodRequest(q) /\ q.kind \in {"create", "update"}
    BY AbsentFacts DEF EgressInv
  <2>2. ~PatchApplies(q)'
    BY <1>3 DEF PatchApplies
  <2> QED
    BY <2>1, <2>2 DEF GoodRequest
<1> QED
  BY <1>1, <1>5, <1>6, <1>7

LEMMA AcceptEIPKeeps ==
  ASSUME EgressInv, NEW e \in Eips, AcceptEIP(e)
  PROVE  EgressInv'
<1>1. /\ row[e].state = "none" /\ row' = [row EXCEPT ![e] = AcceptedEgress]
      /\ UNCHANGED <<lane, net, obj, made, target, claim, bound, spec, status, rv>>
  BY DEF AcceptEIP, kcVars, egressVars
<1>2. e \in Resources /\ e \notin Snats
  BY Parts
<1>3. /\ Loose(e) /\ GoodResource(e)' /\ row'[e] = AcceptedEgress
      /\ \A q \in net : q.res = e => GoodRequest(q)'
  BY <1>1, <1>2, AcceptedRow
<1>4. /\ target' \in [Snats -> [vpc : Vpcs \cup {Nobody}, eip : Eips \cup {Nobody}]]
      /\ claim' \in [Eips -> Snats \cup {LB, Nobody}] /\ lane' \in [Workers -> LaneRecord]
  BY <1>1 DEF EgressInv, Types
<1>5. \A w \in Workers : SameStep(w)
  BY <1>1 DEF SameStep
<1>6. claim[e] = Nobody
  BY <1>1, <1>2, AbsentFacts DEF EgressInv, GoodEip
<1>7. GoodEip(e)'
  <2>1. bound[e] = Nobody /\ Nobody \notin Snats
    BY <1>6, Parts, EgressAssumption DEF EgressInv, GoodEip
  <2> QED
    BY <1>1, <1>6, <2>1 DEF GoodEip
<1>8. \A y \in Eips : claim[y] # e
  <2>1. Nobody # e /\ LB # e
    BY Parts, EgressAssumption
  <2> QED
    BY <1>2, <2>1 DEF EgressInv, Types
<1>9. \A w \in Workers : ~(Res(w) = e /\ lane[w].at # "idle")
  BY <1>1, <1>2, AbsentFacts
<1> QED
  BY <1>1, <1>2, <1>3, <1>4, <1>5, <1>7, <1>8, <1>9, AcceptedFields, RowMoves

LEMMA AcceptSnatKeeps ==
  ASSUME EgressInv, NEW s \in Snats, NEW v \in Vpcs, NEW e \in Eips, AcceptSnat(s, v, e)
  PROVE  EgressInv'
<1>1. /\ row[s].state = "none" /\ row' = [row EXCEPT ![s] = AcceptedEgress]
      /\ UNCHANGED <<lane, net, obj, made, bound, spec, status, rv>>
      /\ target' = [target EXCEPT ![s] = [vpc |-> v, eip |-> e]]
      /\ claim' = [claim EXCEPT ![e] = s]
      /\ claim[e] = Nobody /\ row[e].state = "available" /\ row[e].uid # 0
  BY DEF AcceptSnat, kcVars, EipTaken, Fresh
<1>2. s \in Resources /\ e \in Resources /\ s # e /\ s # Nobody /\ Nobody \notin Snats
  BY Parts, EgressAssumption
<1>3. /\ Loose(s) /\ GoodResource(s)' /\ row'[s] = AcceptedEgress
      /\ \A q \in net : q.res = s => GoodRequest(q)'
  BY <1>1, <1>2, AcceptedRow
<1>4. /\ target \in [Snats -> [vpc : Vpcs \cup {Nobody}, eip : Eips \cup {Nobody}]]
      /\ claim \in [Eips -> Snats \cup {LB, Nobody}] /\ lane' \in [Workers -> LaneRecord]
      /\ row \in [Resources -> EgressRow]
  BY <1>1 DEF EgressInv, Types
<1>5. /\ target' \in [Snats -> [vpc : Vpcs \cup {Nobody}, eip : Eips \cup {Nobody}]]
      /\ target'[s].eip = e /\ \A x \in Snats \ {s} : target'[x] = target[x]
  BY <1>1, <1>4
<1>6. /\ claim' \in [Eips -> Snats \cup {LB, Nobody}]
      /\ claim'[e] = s /\ \A y \in Eips \ {e} : claim'[y] = claim[y]
  BY <1>1, <1>4
<1>7. \A x \in Snats \ {s} : EipOf(x) \in Eips /\ claim[EipOf(x)] = x => claim'[EipOf(x)] = x
  BY <1>1, <1>2, <1>6
<1>8. \A w \in Workers : SameStep(w) /\ ~(Res(w) = s /\ lane[w].at # "idle")
  BY <1>1, <1>2, AbsentFacts DEF SameStep
<1>9. GoodBinding(s)'
  <2>1. EipOf(s)' = e
    BY <1>5 DEF EipOf
  <2>2. ~Completed(s)' /\ row'[s].applied = "unknown"
    BY <1>3, AcceptedFields DEF Completed, CompletedStates
  <2> QED
    BY <1>6, <2>1, <2>2 DEF GoodBinding
<1>10. GoodEip(e)'
  <2>1. made[e] \in Nat /\ made[e] <= 1 /\ made[e] # 0
    BY <1>1, <1>2 DEF EgressInv, GoodResource, Types
  <2>2. made'[e] = 1
    BY <1>1, <2>1
  <2>3. row'[e].state = "available" /\ row'[s].state = "provisioning"
    BY <1>1, <1>2, <1>3, <1>4, AcceptedFields
  <2>4. bound'[e] = Nobody
    BY <1>1 DEF EgressInv, GoodEip
  <2>5. EipOf(s)' = e
    BY <1>5 DEF EipOf
  <2> QED
    BY <1>6, <2>2, <2>3, <2>4, <2>5 DEF GoodEip, Ending
<1>11. \A y \in Eips : y = s \/ claim[y] = s \/ claim'[y] # claim[y] => GoodEip(y)'
  <2>1. \A y \in Eips : claim[y] # s
    BY <1>1 DEF EgressInv, GoodEip
  <2>2. \A y \in Eips : y # s
    BY Parts
  <2> QED
    BY <1>6, <1>10, <2>1, <2>2
<1> QED
  BY <1>1, <1>2, <1>3, <1>4, <1>5, <1>6, <1>7, <1>8, <1>9, <1>11, AcceptedFields, RowMoves

LEMMA BumpAll ==
  ASSUME EgressInv, NEW r \in Resources, lane' = Bump(lane, r, Fences)
  PROVE  /\ lane' \in [Workers -> LaneRecord]
         /\ \A w \in Workers : SameStep(w) /\ (Res(w) = r => lane'[w].held = {})
<1>1. \A w \in Workers : lane[w].held \subseteq Fences
  BY DEF EgressInv, Types, LaneRecord
<1> QED
  BY <1>1, BumpFacts

LEMMA IntentFields ==
  ASSUME NEW k \in EgressRow, NEW b \in BOOLEAN
  PROVE  /\ SetIntent(k, b) \in EgressRow /\ SetIntent(k, b).state = "provisioning"
         /\ SetIntent(k, b).op = "queued" /\ SetIntent(k, b).uid = k.uid
         /\ SetIntent(k, b).pending = k.pending /\ SetIntent(k, b).desired = b
         /\ SetIntent(k, b).applied = "unknown"
  BY DEF SetIntent, EgressRow, ResourceStates, OperationStates, ActiveStates, Facts, Kinds

LEMMA RemovalFields ==
  ASSUME NEW k \in EgressRow
  PROVE  /\ AdmitRemoval(k) \in EgressRow /\ AdmitRemoval(k).state = "deleting"
         /\ AdmitRemoval(k).op = "queued" /\ AdmitRemoval(k).uid = k.uid
         /\ AdmitRemoval(k).pending = k.pending /\ AdmitRemoval(k).desired = k.desired
         /\ AdmitRemoval(k).applied = "unknown"
  BY DEF AdmitRemoval, AdmitDeletion, EgressRow, ResourceStates, OperationStates,
         ActiveStates, Facts, Kinds

LEMMA SetIntentKeeps ==
  ASSUME EgressInv, NEW s \in Snats, NEW b \in BOOLEAN, SetVPCSnatEnabled(s, b)
  PROVE  EgressInv'
<1>1. /\ row[s].state \notin {"none", "deleting", "deleted"} /\ Completed(s)
      /\ row' = [row EXCEPT ![s] = SetIntent(@, b)] /\ lane' = Bump(lane, s, Fences)
      /\ UNCHANGED <<net, obj, made, target, claim, bound, spec, status, rv>>
  BY DEF SetVPCSnatEnabled, kcVars
<1>2. s \in Resources /\ s \notin Eips
  BY Parts
<1>3. PICK n \in EgressRow : n = SetIntent(row[s], b)
  BY <1>2, IntentFields DEF EgressInv, Types
<1>4. row' = [row EXCEPT ![s] = n] /\ row'[s] = n
  BY <1>1, <1>2, <1>3 DEF EgressInv, Types
<1>5. /\ row'[s].state = "provisioning" /\ row'[s].op = "queued"
      /\ row'[s].uid = row[s].uid /\ row'[s].pending = row[s].pending
      /\ row'[s].applied = "unknown"
  BY <1>2, <1>3, <1>4, IntentFields DEF EgressInv, Types
<1>6. /\ lane' \in [Workers -> LaneRecord]
      /\ \A w \in Workers : SameStep(w) /\ (Res(w) = s => lane'[w].held = {})
  BY <1>1, <1>2, BumpAll
<1>7. GoodBinding(s) /\ GoodResource(s)
  BY <1>2 DEF EgressInv
<1>8. row[s].pending # "create" /\ InPlace(s) /\ claim[EipOf(s)] = s /\ EipOf(s) \in Eips
  BY <1>1, <1>7 DEF GoodBinding, Ending
<1>9. ~PostMayLand(s) /\ ~PostMayLand(s)'
  <2>1. ~PostMayLand(s)
    BY <1>7, <1>8 DEF GoodResource
  <2> QED
    BY <1>1, <1>2, <1>6, <2>1, SameStepsPost, NoNewPostFacts
<1>10. Loose(s)
  BY <1>1, <1>5 DEF Loose, Ending, Vanished
<1>11. GoodResource(s)'
  <2>1. Exists(s)' <=> Exists(s)
    BY <1>1 DEF Exists
  <2>2. made[s] = 1 => obj[s] = "live"
    BY <1>1, <1>7 DEF GoodResource, Ending
  <2> QED
    BY <1>1, <1>5, <1>7, <1>9, <2>1, <2>2 DEF GoodResource
<1>12. GoodBinding(s)'
  <2>1. EipOf(s)' = EipOf(s) /\ ~Completed(s)'
    BY <1>1, <1>5 DEF EipOf, Completed, CompletedStates
  <2> QED
    BY <1>1, <1>5, <1>8, <2>1 DEF GoodBinding
<1>13. \A q \in net : q.res = s => GoodRequest(q)'
  <2> SUFFICES ASSUME NEW q \in net, q.res = s PROVE GoodRequest(q)'
    OBVIOUS
  <2>1. GoodRequest(q)
    BY DEF EgressInv
  <2>2. q.kind # "delete"
    BY <1>1, <2>1 DEF GoodRequest, Ending
  <2>3. q.kind = "update" => ~PatchApplies(q)
    <3>1. PatchApplies(q) => spec[s] = row[s].desired
      BY <1>7, <1>8 DEF PatchApplies, InPlace, GoodResource
    <3> QED
      BY <2>1, <3>1 DEF GoodRequest
  <2>4. PatchApplies(q)' <=> PatchApplies(q)
    BY <1>1 DEF PatchApplies, Exists
  <2> QED
    BY <1>1, <2>1, <2>2, <2>3, <2>4 DEF GoodRequest
<1>14. \A e \in Eips : claim[e] = s => GoodEip(e)'
  <2> SUFFICES ASSUME NEW e \in Eips, claim[e] = s PROVE GoodEip(e)'
    OBVIOUS
  <2>1. GoodEip(e) /\ e # s /\ e \in Resources
    BY <1>2, Parts DEF EgressInv
  <2>2. row'[e] = row[e]
    BY <1>1, <2>1 DEF EgressInv, Types
  <2>3. EipOf(s)' = EipOf(s)
    BY <1>1 DEF EipOf
  <2>4. /\ claim'[e] = s /\ bound'[e] = bound[e] /\ made'[e] = made[e]
    BY <1>1
  <2> QED
    BY <1>5, <2>1, <2>2, <2>3, <2>4 DEF GoodEip
<1>15. /\ target' \in [Snats -> [vpc : Vpcs \cup {Nobody}, eip : Eips \cup {Nobody}]]
       /\ claim' \in [Eips -> Snats \cup {LB, Nobody}]
  BY <1>1 DEF EgressInv, Types
<1> QED
  BY <1>1, <1>2, <1>4, <1>6, <1>10, <1>11, <1>12, <1>13, <1>14, <1>15, RowMoves

LEMMA RemoveKeeps ==
  ASSUME EgressInv, NEW r \in Resources, Remove(r), r \in Eips => claim[r] = Nobody
  PROVE  EgressInv'
<1>1. /\ row[r].state \notin {"none", "deleting", "deleted"} /\ Completed(r)
      /\ row' = [row EXCEPT ![r] = AdmitRemoval(@)] /\ lane' = Bump(lane, r, Fences)
      /\ UNCHANGED <<net, obj, made, target, claim, bound, spec, status, rv>>
  BY DEF Remove, kcVars, egressVars
<1>2. PICK n \in EgressRow : n = AdmitRemoval(row[r])
  BY RemovalFields DEF EgressInv, Types
<1>3. row' = [row EXCEPT ![r] = n] /\ row'[r] = n
  BY <1>1, <1>2 DEF EgressInv, Types
<1>4. /\ row'[r].state = "deleting" /\ row'[r].op = "queued"
      /\ row'[r].uid = row[r].uid /\ row'[r].pending = row[r].pending
      /\ row'[r].applied = "unknown" /\ row'[r].desired = row[r].desired
  BY <1>2, <1>3, RemovalFields DEF EgressInv, Types
<1>5. /\ lane' \in [Workers -> LaneRecord]
      /\ \A w \in Workers : SameStep(w) /\ (Res(w) = r => lane'[w].held = {})
  BY <1>1, BumpAll
<1>6. GoodResource(r)
  BY DEF EgressInv
<1>7. PostMayLand(r)' => PostMayLand(r)
  BY <1>1, <1>5, SameStepsPost, NoNewPostFacts
<1>8. Loose(r)
  BY <1>1, <1>4 DEF Loose, Ending, Vanished
<1>9. GoodResource(r)'
  <2>1. Exists(r)' <=> Exists(r)
    BY <1>1 DEF Exists
  <2> QED
    BY <1>1, <1>4, <1>6, <1>7, <2>1 DEF GoodResource, Ending
<1>10. r \in Snats => GoodBinding(r)'
  <2> SUFFICES ASSUME r \in Snats PROVE GoodBinding(r)'
    OBVIOUS
  <2>1. GoodBinding(r)
    BY DEF EgressInv
  <2>2. EipOf(r)' = EipOf(r)
    BY <1>1 DEF EipOf
  <2> QED
    BY <1>1, <1>4, <2>1, <2>2 DEF GoodBinding, Ending
<1>11. \A q \in net : q.res = r => GoodRequest(q)'
  <2> SUFFICES ASSUME NEW q \in net, q.res = r PROVE GoodRequest(q)'
    OBVIOUS
  <2>1. GoodRequest(q)
    BY DEF EgressInv
  <2>2. PatchApplies(q)' <=> PatchApplies(q)
    BY <1>1 DEF PatchApplies, Exists
  <2> QED
    BY <1>1, <1>4, <2>1, <2>2 DEF GoodRequest, Ending
<1>12. \A e \in Eips : e = r \/ claim[e] = r => GoodEip(e)'
  <2> SUFFICES ASSUME NEW e \in Eips, e = r \/ claim[e] = r PROVE GoodEip(e)'
    OBVIOUS
  <2>1. GoodEip(e) /\ e \in Resources /\ Nobody \notin Snats /\ r # Nobody
    BY Parts, EgressAssumption DEF EgressInv
  <2>2. claim'[e] = claim[e] /\ bound'[e] = bound[e] /\ made'[e] = made[e]
    BY <1>1
  <2>3. CASE e = r
    BY <2>1, <2>2, <2>3 DEF GoodEip
  <2>4. CASE e # r /\ claim[e] = r
    <3>1. row'[e] = row[e]
      BY <1>1, <2>1, <2>4 DEF EgressInv, Types
    <3>2. EipOf(r)' = EipOf(r)
      BY <1>1 DEF EipOf
    <3> QED
      BY <1>4, <2>1, <2>2, <2>4, <3>1, <3>2 DEF GoodEip
  <2> QED
    BY <2>3, <2>4
<1>13. /\ target' \in [Snats -> [vpc : Vpcs \cup {Nobody}, eip : Eips \cup {Nobody}]]
       /\ claim' \in [Eips -> Snats \cup {LB, Nobody}]
  BY <1>1 DEF EgressInv, Types
<1> QED
  BY <1>1, <1>3, <1>5, <1>8, <1>9, <1>10, <1>11, <1>12, <1>13, RowMoves

-----------------------------------------------------------------------------
(***************************************************************************)
(* Claim.                                                                  *)
(***************************************************************************)
LEMMA WorkFields ==
  ASSUME NEW k \in EgressRow, NEW r \in Resources
  PROVE  /\ WorkOf(r, k) \in LaneWork
         /\ WorkOf(r, k).res = r /\ WorkOf(r, k).state = k.state /\ WorkOf(r, k).uid = k.uid
         /\ WorkOf(r, k).pending = k.pending /\ WorkOf(r, k).desired = k.desired
         /\ WorkOf(r, k).active <=> Active(k)
<1>0. Active(k) \in BOOLEAN
  BY DEF Active
<1>1. PICK a \in BOOLEAN : a = Active(k)
  BY <1>0
<1>2. WorkOf(r, k) = [res |-> r, state |-> k.state, active |-> a, uid |-> k.uid,
                      pending |-> k.pending, fresh |-> k.fresh, kind |-> k.kind,
                      desired |-> k.desired]
  BY <1>1 DEF WorkOf
<1> QED
  BY <1>1, <1>2 DEF EgressRow, LaneWork

LEMMA LeaseFields ==
  ASSUME NEW k \in EgressRow
  PROVE  /\ AcquireLease(k) \in EgressRow /\ AcquireLease(k).state = k.state
         /\ AcquireLease(k).uid = k.uid /\ AcquireLease(k).pending = k.pending
         /\ AcquireLease(k).desired = k.desired /\ AcquireLease(k).applied = k.applied
         /\ AcquireLease(k).op \in ActiveStates <=> k.op \in ActiveStates
         /\ AcquireLease(k).op \in CompletedStates <=> k.op \in CompletedStates
<1> DEFINE o == IF Active(k) THEN "running" ELSE k.op
<1>1. /\ o \in OperationStates /\ (o \in ActiveStates <=> k.op \in ActiveStates)
      /\ o \in CompletedStates <=> k.op \in CompletedStates
  BY DEF Active, OperationStates, ActiveStates, CompletedStates, EgressRow
<1>2. AcquireLease(k) = [k EXCEPT !.lease = TRUE, !.op = o]
  BY DEF AcquireLease
<1> HIDE DEF o
<1> QED
  BY <1>1, <1>2 DEF EgressRow

LEMMA ClaimKeeps ==
  ASSUME EgressInv, NEW w \in Workers, NEW r \in Resources, Claim(w, r)
  PROVE  EgressInv'
<1>1. /\ lane[w].at = "idle" /\ row[r].state # "none"
      /\ row' = [row EXCEPT ![r] = AcquireLease(@)]
      /\ lane' = Taken(lane, w, r, FALSE, FALSE)
      /\ UNCHANGED <<net, obj, made, target, claim, bound, spec, status, rv>>
  BY DEF Claim, Claimable, kcVars, egressVars
<1>2. PICK k \in EgressRow : k = row[r]
  BY DEF EgressInv, Types
<1>3. PICK n \in EgressRow : n = AcquireLease(k)
  BY LeaseFields
<1>4. /\ row' = [row EXCEPT ![r] = n] /\ row'[r] = n /\ row' \in [Resources -> EgressRow]
      /\ \A x \in Resources \ {r} : row'[x] = row[x]
  BY <1>1, <1>2, <1>3 DEF EgressInv, Types
<1>5. \A x \in Resources : SameRow(x)
  BY <1>1, <1>2, <1>3, <1>4, LeaseFields DEF SameRow
<1>6. PICK j \in LaneWork : j = WorkOf(r, k)
  BY WorkFields
<1>7. PICK p \in Progress : p = StartProgress(j)
  BY StartFields
<1>8. /\ p.state = j.state /\ p.uid = j.uid /\ p.op \in {"retrying", "none"}
  BY <1>7, StartFields
<1>9. /\ j.res = r /\ j.state = k.state /\ j.uid = k.uid /\ j.pending = k.pending
      /\ j.desired = k.desired /\ (j.active <=> Active(k))
  BY <1>6, WorkFields
<1>10. PICK i \in LaneRecord : i = Idle
  BY IdleFacts
<1>11. PICK l : l = [i EXCEPT !.at = "claimed", !.cancel = FALSE, !.heard = TRUE,
                              !.held = Fences, !.work = j, !.prog = p]
  OBVIOUS
<1>12. l \in LaneRecord /\ l.at = "claimed" /\ l.held = Fences /\ l.work = j /\ l.prog = p
  BY <1>11 DEF LaneRecord, LaneStates
<1>13. PICK ll \in [Workers -> LaneRecord] :
         /\ lane' = [ll EXCEPT ![w] = l]
         /\ \A v \in Workers :
              ll[v] = IF Res(v) = r THEN [lane[v] EXCEPT !.held = @ \ {"epoch"}] ELSE lane[v]
  <2> DEFINE ll == Bump(lane, r, {"epoch"})
  <2>1. \A v \in Workers :
          ll[v] = IF Res(v) = r THEN [lane[v] EXCEPT !.held = @ \ {"epoch"}] ELSE lane[v]
    BY DEF Bump, Res
  <2>2. ASSUME NEW v \in Workers PROVE ll[v] \in LaneRecord
    <3>1. PICK o \in LaneRecord : o = lane[v]
      BY DEF EgressInv, Types
    <3>2. [o EXCEPT !.held = @ \ {"epoch"}] \in LaneRecord
      BY DEF LaneRecord
    <3> QED
      BY <2>1, <3>1, <3>2
  <2>3. ll = [v \in Workers |-> ll[v]]
    BY DEF Bump
  <2>4. ll \in [Workers -> LaneRecord]
    BY <2>2, <2>3
  <2>5. lane' = [ll EXCEPT ![w] = l]
    BY <1>1, <1>2, <1>6, <1>7, <1>10, <1>11 DEF Taken
  <2> QED
    BY <2>1, <2>4, <2>5
<1>14. lane'[w] = l /\ lane' \in [Workers -> LaneRecord]
  BY <1>12, <1>13
<1>15. ASSUME NEW v \in Workers, v # w
       PROVE  SameStep(v) /\ (Res(v) = r => "epoch" \notin lane'[v].held)
  <2>1. PICK o \in LaneRecord : o = lane[v]
    BY DEF EgressInv, Types
  <2>2. PICK m : m = [o EXCEPT !.held = @ \ {"epoch"}]
    OBVIOUS
  <2>3. /\ m.held = o.held \ {"epoch"} /\ m.at = o.at /\ m.call = o.call
        /\ m.work = o.work /\ m.prog = o.prog /\ m.facts = o.facts
    BY <2>2 DEF LaneRecord
  <2>4. lane'[v] = IF Res(v) = r THEN m ELSE o
    BY <1>13, <1>15, <2>1, <2>2
  <2> QED
    BY <2>1, <2>3, <2>4 DEF SameStep
<1>16. Types'
  BY <1>1, <1>4, <1>14 DEF EgressInv, Types
<1>17. NoNewPost
  BY <1>1, <1>12, <1>14, <1>15 DEF NoNewPost, Posting, Res, SameStep
<1>18. \A x \in Resources : Undisturbed(x)
  <2> TAKE x \in Resources
  <2>1. LaterObject(x)
    BY <1>1 DEF LaterObject, Exists
  <2>2. x \in Snats => rv'[x] >= rv[x]
    BY <1>1 DEF EgressInv, Types
  <2>3. x \in Snats => LaterSwitch(x)
    BY <1>1, <2>2 DEF LaterSwitch
  <2> QED
    BY <1>5, <1>17, <2>1, <2>3, NoNewPostFacts DEF Undisturbed, Calm
<1>19. OneHolder'
  <2> SUFFICES ASSUME NEW v \in Workers, NEW u \in Workers, "epoch" \in lane'[v].held,
                      "epoch" \in lane'[u].held, Res(v)' = Res(u)'
               PROVE  v = u
    BY DEF OneHolder
  <2>1. Res(w)' = r
    BY <1>9, <1>12, <1>14 DEF Res
  <2>2. \A x \in Workers \ {w} : "epoch" \in lane'[x].held =>
          "epoch" \in lane[x].held /\ Res(x)' = Res(x) /\ Res(x) # r
    BY <1>15 DEF SameStep, Res
  <2> QED
    BY <2>1, <2>2 DEF EgressInv, OneHolder
<1>20. GoodLane(w)'
  <2>1. Res(w)' = r /\ lane'[w].work = j /\ lane'[w].prog = p /\ lane'[w].at = "claimed"
    BY <1>9, <1>12, <1>14 DEF Res
  <2>2. GoodResource(r)
    BY DEF EgressInv
  <2>3. SameRow(r)
    BY <1>5
  <2>4. GoodWork(w)'
    <3>1. row'[r].state # "none" /\ j.state # "none"
      BY <1>1, <1>2, <1>9, <2>3 DEF SameRow
    <3>2. j.uid \in {0, made'[r]}
      BY <1>1, <1>2, <1>9, <2>2 DEF GoodResource
    <3>3. row'[r].state = j.state /\ row'[r].desired = j.desired /\ row'[r].pending = j.pending
      BY <1>2, <1>9, <2>3 DEF SameRow
    <3>4. Active(row[r])' <=> j.active
      BY <1>2, <1>9, <2>3 DEF SameRow, Active
    <3> QED
      BY <2>1, <3>1, <3>2, <3>3, <3>4 DEF GoodWork
  <2>5. GoodProgress(w)'
    <3>1. j.uid \in {0, made'[r]} /\ j.state # "none"
      BY <1>1, <1>2, <1>9, <2>2 DEF GoodResource
    <3>2. j.state = "deleted" => Vanished(r)'
      BY <1>2, <1>9, <1>18, <2>2, UndisturbedVanished DEF GoodResource
    <3> QED
      BY <1>8, <2>1, <3>1, <3>2 DEF GoodProgress, CompletedStates
  <2>6. GoodCall(w)' /\ GoodDuring(w)' /\ GoodAfter(w)'
    BY <2>1 DEF GoodCall, GoodDuring, GoodAfter
  <2>7. GoodBefore(w)'
    BY <1>2, <1>9, <2>1, <2>3 DEF GoodBefore, SameRow
  <2> QED
    BY <2>4, <2>5, <2>6, <2>7 DEF GoodLane, GoodHold
<1>21. \A v \in Workers : GoodLane(v)'
  <2> SUFFICES ASSUME NEW v \in Workers, v # w PROVE GoodLane(v)'
    BY <1>20
  <2> PICK x \in Resources : x = Res(v)
    BY DEF EgressInv, Types, LaneRecord, LaneWork, Res
  <2>1. SameStep(v)
    BY <1>15
  <2> QED
    BY <1>16, <1>18, <2>1, UndisturbedLane
<1>22. \A e \in Eips : GoodEip(e)'
  BY <1>1, <1>18, UndisturbedEip, Parts
<1>23. \A s \in Snats : EipOf(s) \in Eips /\ claim[EipOf(s)] = s => claim'[EipOf(s)] = s
  BY <1>1
<1> QED
  BY <1>1, <1>16, <1>17, <1>18, <1>19, <1>21, <1>22, <1>23, NoNewPostFacts, NoneDisturbed

-----------------------------------------------------------------------------
(***************************************************************************)
(* BeginMutation: a POST begins only where none is under way and no object *)
(* was ever made.                                                          *)
(***************************************************************************)
LEMMA BeginFields ==
  ASSUME NEW k \in EgressRow, NEW c \in Mutations, NEW u \in Nat
  PROVE  /\ BeginEgress(k, c, u) \in EgressRow /\ BeginEgress(k, c, u).pending = c
         /\ BeginEgress(k, c, u).uid = IF k.uid = 0 THEN u ELSE k.uid
         /\ BeginEgress(k, c, u).state = k.state /\ BeginEgress(k, c, u).op = k.op
         /\ BeginEgress(k, c, u).desired = k.desired
         /\ BeginEgress(k, c, u).applied = k.applied
<1> DEFINE i == IF k.uid = 0 THEN u ELSE k.uid
<1>1. PICK b \in BOOLEAN : b = (k.sent \/ c = "create")
  BY DEF EgressRow
<1>2. i \in Nat /\ c \in PendingActions \cup {"update"}
  BY DEF EgressRow, Mutations, PendingActions
<1> HIDE DEF i
<1>3. PICK m \in EgressRow : m = [k EXCEPT !.pending = c, !.uid = i]
  BY <1>2 DEF EgressRow
<1>4. /\ m.pending = c /\ m.uid = i /\ m.state = k.state /\ m.op = k.op /\ m.desired = k.desired
      /\ m.applied = k.applied /\ m.sent = k.sent
  BY <1>3 DEF EgressRow
<1>5. BeginEgress(k, c, u) = [m EXCEPT !.sent = b]
  <2>1. BeginProviderMutation(k, c, u) = m
    BY <1>3 DEF BeginProviderMutation, i
  <2> QED
    BY <1>1, <1>4, <2>1 DEF BeginEgress
<1>6. /\ [m EXCEPT !.sent = b] \in EgressRow /\ [m EXCEPT !.sent = b].pending = m.pending
      /\ [m EXCEPT !.sent = b].uid = m.uid /\ [m EXCEPT !.sent = b].state = m.state
      /\ [m EXCEPT !.sent = b].op = m.op /\ [m EXCEPT !.sent = b].desired = m.desired
      /\ [m EXCEPT !.sent = b].applied = m.applied
  BY DEF EgressRow
<1> QED
  BY <1>4, <1>5, <1>6 DEF i

LEMMA BeginKeeps ==
  ASSUME EgressInv, NEW w \in Workers, Begin(w)
  PROVE  EgressInv'
<1>1. /\ lane[w].at = "begin" /\ UNCHANGED <<net, obj, made, egressVars>>
  BY DEF Begin, BeginMutation, kcVars
<1>2. /\ lane[w] \in LaneRecord /\ lane[w].prog \in Progress /\ lane[w].call \in Mutations
      /\ GoodWork(w) /\ GoodProgress(w) /\ GoodCall(w)
  BY <1>1, CallingLane
<1>3. PICK r \in Resources : r = Res(w)
  BY <1>1, CallingLane
<1>4. PICK c \in Mutations : c = lane[w].call
  BY <1>2
<1>5. PICK u \in Nat : u = IF c = "create" THEN 0 ELSE lane[w].prog.uid
  BY <1>2 DEF Progress
<1>6. PICK k \in EgressRow : k = row[r]
  BY DEF EgressInv, Types
<1> DEFINE ok == Fenced(w) /\ MayBeginEgress(k, c, u)
<1>7. CASE lane' = [lane EXCEPT ![w] = Idle] /\ row' = row
  BY <1>1, <1>7, GivesUp
<1>8. ASSUME ok, row' = [row EXCEPT ![r] = BeginEgress(@, c, u)],
             lane' = [lane EXCEPT ![w].at = "check"]
      PROVE  EgressInv'
  <2>1. PICK n \in EgressRow : n = BeginEgress(k, c, u)
    BY BeginFields
  <2>2. /\ row' = [row EXCEPT ![r] = n] /\ row'[r] = n /\ row' \in [Resources -> EgressRow]
        /\ \A x \in Resources \ {r} : row'[x] = row[x]
    BY <1>6, <1>8, <2>1 DEF EgressInv, Types
  <2>3. /\ row'[r].pending = c /\ row'[r].uid = (IF row[r].uid = 0 THEN u ELSE row[r].uid)
        /\ row'[r].state = row[r].state /\ row'[r].op = row[r].op
        /\ row'[r].desired = row[r].desired /\ row'[r].applied = row[r].applied
    BY <1>6, <2>1, <2>2, BeginFields
  <2>4. PICK m \in LaneRecord : m = lane[w]
    BY <1>2
  <2>5. PICK l \in LaneRecord : l = [m EXCEPT !.at = "check"]
    BY DEF LaneRecord, LaneStates
  <2>6. /\ l.at = "check" /\ l.call = m.call /\ l.work = m.work /\ l.prog = m.prog
        /\ l.held = m.held
    BY <2>5 DEF LaneRecord
  <2>7. /\ lane'[w] = l /\ lane' \in [Workers -> LaneRecord]
        /\ \A v \in Workers \ {w} : lane'[v] = lane[v]
    BY <1>8, <2>4, <2>5 DEF EgressInv, Types
  <2>8. lane[w].held = Fences /\ lane'[w].held = Fences /\ Res(w)' = r
    BY <1>3, <1>8, <2>4, <2>6, <2>7 DEF Fenced, Res
  <2>9. GoodResource(r) /\ made[r] \in Nat
    BY DEF EgressInv, Types
  <2>10. row[r].state # "none" /\ row[r].state = lane[w].work.state
    BY <1>2, <1>3, <2>8 DEF GoodWork, Fences
  <2>11. c = "create" => /\ made[r] = 0 /\ ~PostMayLand(r) /\ row'[r].uid = 0
                         /\ row[r].state \notin Ending /\ Active(row[r])
    <3> SUFFICES ASSUME c = "create"
                 PROVE  /\ made[r] = 0 /\ ~PostMayLand(r) /\ row'[r].uid = 0
                        /\ row[r].state \notin Ending /\ Active(row[r])
      OBVIOUS
    <3>1. u = 0 /\ row[r].uid = 0 /\ row[r].pending = ""
      BY <1>5, <1>6, <1>8 DEF MayBeginEgress, MayBegin
    <3>2. row[r].pending # "create"
      BY <3>1
    <3>3. made[r] = 0
      <4>1. made[r] <= 1 /\ (made[r] = 1 => row[r].uid = 1)
        BY <2>9, <3>2 DEF GoodResource
      <4>2. ASSUME made[r] = 1 PROVE FALSE
        <5>1. row[r].uid = 1
          BY <4>1, <4>2
        <5>2. 0 # 1
          OBVIOUS
        <5> QED
          BY <3>1, <5>1, <5>2, Zenon
      <4> QED
        BY <2>9, <4>1, <4>2
    <3>4. ~PostMayLand(r)
      BY <2>9, <3>2 DEF GoodResource
    <3>5. row[r].state \notin Ending /\ Active(row[r])
      BY <1>1, <1>2, <1>3, <1>4, <2>8, <2>10 DEF GoodCall, GoodWork, Fences
    <3> QED
      BY <2>3, <3>1, <3>3, <3>4, <3>5
  <2>12. c # "create" => /\ made[r] = 1 /\ ~PostMayLand(r) /\ u = 1
    <3>1. c # "create" => lane[w].prog.uid = 1 /\ lane[w].prog.uid \in {0, made[r]}
      BY <1>1, <1>2, <1>3, <1>4 DEF GoodCall, GoodProgress
    <3> QED
      BY <1>5, <2>9, <3>1 DEF GoodResource
  <2>13. Posting(w)' <=> c = "create"
    BY <1>4, <2>4, <2>6, <2>7 DEF Posting
  <2>14. \A v \in Workers \ {w} : Posting(v)' => Posting(v) /\ Res(v)' = Res(v)
    BY <2>7 DEF Posting, Res
  <2>15. \A x \in Resources \ {r} : PostMayLand(x)' => PostMayLand(x)
    BY <1>1, <2>8, <2>14 DEF PostMayLand, Posting
  <2>16. PostMayLand(r)' => c = "create"
    <3> SUFFICES ASSUME c # "create" PROVE ~PostMayLand(r)'
      OBVIOUS
    <3>1. NoNewPost
      BY <1>1, <2>13, <2>14 DEF NoNewPost
    <3> QED
      BY <2>12, <3>1, NoNewPostFacts
  <2>17. OnePost'
    <3>1. \A q1, q2 \in net' : q1.kind = "create" /\ IsPost(q2, q1.res) => q1 = q2
      BY <1>1 DEF EgressInv, OnePost
    <3>2. ASSUME NEW v \in Workers, Posting(v)', v # w
          PROVE  /\ \A q \in net' : ~IsPost(q, Res(v)')
                 /\ \A x \in Workers : Posting(x)' /\ Res(x)' = Res(v)' => x = v
      <4>1. Posting(v) /\ Res(v)' = Res(v)
        BY <2>14, <3>2
      <4>2. Posting(w)' => Res(v) # r
        BY <2>11, <2>13, <4>1 DEF PostMayLand, Posting
      <4> QED
        BY <1>1, <2>8, <2>14, <4>1, <4>2 DEF EgressInv, OnePost
    <3>3. ASSUME Posting(w)'
          PROVE  /\ \A q \in net' : ~IsPost(q, Res(w)')
                 /\ \A x \in Workers : Posting(x)' /\ Res(x)' = Res(w)' => x = w
      <4>1. ~PostMayLand(r)
        BY <2>11, <2>13, <3>3
      <4>2. \A q \in net' : ~IsPost(q, r)
        BY <1>1, <4>1 DEF PostMayLand, IsPost
      <4>3. \A x \in Workers \ {w} : ~(Posting(x)' /\ Res(x)' = r)
        BY <2>14, <4>1 DEF PostMayLand, Posting
      <4> QED
        BY <2>8, <4>2, <4>3
    <3> QED
      BY <3>1, <3>2, <3>3 DEF OnePost, IsPost
  <2>18. OneHolder'
    <3>1. \A v \in Workers : "epoch" \in lane'[v].held =>
                               "epoch" \in lane[v].held /\ Res(v)' = Res(v)
      BY <1>3, <2>7, <2>8 DEF Res
    <3> QED
      BY <3>1, NoNewHolder
  <2>19. \A x \in Resources \ {r} : Undisturbed(x)
    <3> TAKE x \in Resources \ {r}
    <3>1. SameRow(x) /\ LaterObject(x)
      BY <1>1, <2>2 DEF SameRow, LaterObject, Exists
    <3>2. x \in Snats => rv'[x] >= rv[x]
      BY <1>1 DEF EgressInv, Types, egressVars
    <3>3. x \in Snats => LaterSwitch(x)
      BY <1>1, <2>2, <3>2 DEF LaterSwitch, egressVars
    <3> QED
      BY <2>15, <3>1, <3>3 DEF Undisturbed, Calm
  <2>20. Types'
    BY <1>1, <2>2, <2>7 DEF EgressInv, Types, egressVars
  <2>21. Vanished(r) => Vanished(r)'
    BY <1>1, <2>3, <2>11, <2>16 DEF Vanished, Present, Exists, EipOf, egressVars
  <2>22. GoodResource(r)'
    <3>1. Exists(r)' <=> Exists(r)
      BY <1>1 DEF Exists
    <3>2. row'[r].uid \in {0, made'[r]}
      BY <1>1, <2>3, <2>9, <2>11, <2>12 DEF GoodResource
    <3>3. PostMayLand(r)' => /\ made'[r] = 0 /\ row'[r].pending = "create"
                             /\ row'[r].state \notin {"none", "deleted"}
      BY <1>1, <2>3, <2>10, <2>11, <2>16 DEF Ending
    <3>4. made'[r] = 1 => row'[r].uid = 1 \/ row'[r].pending = "create"
      BY <1>1, <2>3, <2>9, <2>11, <2>12 DEF GoodResource
    <3>5. row'[r].state = "deleted" => Vanished(r)'
      BY <2>3, <2>9, <2>21 DEF GoodResource
    <3> QED
      BY <1>1, <2>3, <2>9, <2>10, <3>1, <3>2, <3>3, <3>4, <3>5 DEF GoodResource
  <2>23. r \in Snats => GoodBinding(r)'
    <3> SUFFICES ASSUME r \in Snats PROVE GoodBinding(r)'
      OBVIOUS
    <3>1. GoodBinding(r)
      BY DEF EgressInv
    <3>2. EipOf(r)' = EipOf(r) /\ (InPlace(r) => InPlace(r)') /\ (Completed(r)' <=> Completed(r))
      BY <1>1, <2>3 DEF EipOf, InPlace, Completed, egressVars
    <3>3. Confirmed(r, row[r].applied) => Confirmed(r, row[r].applied)'
      BY <1>1, <2>3 DEF Confirmed, egressVars
    <3>4. Completed(r) => c # "create"
      BY <2>11 DEF Completed, Active, ActiveStates, CompletedStates
    <3> QED
      BY <1>1, <2>3, <3>1, <3>2, <3>3, <3>4 DEF GoodBinding, egressVars
  <2>24. \A e \in Eips : GoodEip(e)'
    <3> TAKE e \in Eips
    <3>1. GoodEip(e)
      BY DEF EgressInv
    <3>2. \A x \in Resources : row'[x].state = row[x].state
      BY <2>2, <2>3
    <3>3. claim[e] \in Snats => EipOf(claim[e])' = EipOf(claim[e])
      BY <1>1 DEF EipOf, egressVars
    <3> QED
      BY <1>1, <3>1, <3>2, <3>3, Parts DEF GoodEip, egressVars
  <2>25. \A q \in net' : q.res = r => GoodRequest(q)'
    <3> SUFFICES ASSUME NEW q \in net, q.res = r PROVE GoodRequest(q)'
      BY <1>1
    <3>1. GoodRequest(q)
      BY DEF EgressInv
    <3>2. PatchApplies(q)' <=> PatchApplies(q)
      BY <1>1 DEF PatchApplies, Exists, egressVars
    <3> QED
      BY <1>1, <2>3, <3>1, <3>2 DEF GoodRequest, egressVars
  <2>26. ASSUME NEW v \in Workers, v # w PROVE GoodLane(v)'
    <3>1. PICK x \in Resources : x = Res(v)
      BY DEF EgressInv, Types, LaneRecord, LaneWork, Res
    <3>2. SameStep(v)
      BY <2>7, <2>26 DEF SameStep
    <3>3. CASE x # r
      BY <2>19, <2>20, <3>1, <3>2, <3>3, UndisturbedLane
    <3>4. CASE x = r
      <4>1. lane'[v].held # Fences
        <5>1. "epoch" \notin lane[v].held
          BY <1>3, <2>8, <2>26, <3>1, <3>4 DEF EgressInv, OneHolder, Fences
        <5> QED
          BY <2>7, <2>26, <5>1 DEF Fences
      <4>2. SameVersion(r)
        BY <2>3 DEF SameVersion
      <4>3. row[r].state \in Ending => c # "create"
        BY <2>11
      <4>4. Loose(r)
        BY <1>1, <2>3, <2>21, <4>3 DEF Loose
      <4> QED
        BY <3>1, <3>2, <3>4, <4>1, <4>2, <4>4, LooseLane
    <3> QED
      BY <3>3, <3>4
  <2>27. GoodLane(w)'
    <3>1. lane'[w].at = "check" /\ lane'[w].call = c /\ lane'[w].work = lane[w].work
          /\ lane'[w].prog = lane[w].prog
      BY <1>4, <2>4, <2>6, <2>7
    <3>2. lane[w].work.state \in Ending => c = "delete"
      BY <1>1, <1>2, <1>4 DEF GoodCall
    <3>3. GoodWork(w)'
      <4>1. /\ row'[r].state # "none" /\ lane'[w].work.state # "none"
            /\ lane'[w].work.uid \in {0, made'[r]}
        BY <1>1, <1>2, <1>3, <2>3, <3>1 DEF GoodWork
      <4>2. lane'[w].work.state \in Ending => row'[r].state \in Ending /\ row'[r].pending # "create"
        BY <1>2, <1>3, <2>3, <3>1, <3>2 DEF GoodWork
      <4>3. /\ row'[r].state = lane'[w].work.state /\ row'[r].desired = lane'[w].work.desired
            /\ Active(row[r])' <=> lane'[w].work.active
        BY <1>2, <1>3, <2>3, <2>8, <3>1 DEF GoodWork, Fences, Active
      <4> QED
        BY <2>8, <4>1, <4>2, <4>3 DEF GoodWork
    <3>4. GoodProgress(w)'
      BY <1>1, <1>2, <1>3, <2>8, <2>21, <3>1 DEF GoodProgress
    <3>5. GoodCall(w)'
      BY <1>1, <1>2, <1>3, <1>4, <2>8, <3>1 DEF GoodCall
    <3>6. GoodHold(w)'
      BY <2>3, <2>8, <3>1 DEF GoodHold, GoodBefore, GoodDuring, GoodAfter
    <3> QED
      BY <3>3, <3>4, <3>5, <3>6 DEF GoodLane
  <2>28. \A s \in Snats \ {r} : EipOf(s) \in Eips /\ claim[EipOf(s)] = s => claim'[EipOf(s)] = s
    BY <1>1 DEF egressVars
  <2>29. \A v \in Workers : GoodLane(v)'
    BY <2>26, <2>27
  <2> QED
    BY <1>1, <2>17, <2>18, <2>19, <2>20, <2>22, <2>23, <2>24, <2>25, <2>28, <2>29, OneDisturbed
<1>9. \/ lane' = [lane EXCEPT ![w] = Idle] /\ row' = row
      \/ /\ ok /\ row' = [row EXCEPT ![r] = BeginEgress(@, c, u)]
         /\ lane' = [lane EXCEPT ![w].at = "check"]
  BY <1>3, <1>4, <1>5, <1>6 DEF Begin, BeginMutation
<1> QED
  BY <1>7, <1>8, <1>9

\* A POST arrives: no object was ever made, the row still says that one may be
\* under way, and every patch under way is stale.
LEMMA CreateKeeps ==
  ASSUME EgressInv, NEW q \in net, Create(q)
  PROVE  EgressInv'
<1>1. PICK r \in Resources : r = q.res
  BY DEF EgressInv, Types, Request
<1>2. IsPost(q, r) /\ q \in Request
  BY <1>1 DEF Create, ApplyCreate, IsPost, EgressInv, Types
<1>3. GoodResource(r) /\ made[r] \in Nat
  BY DEF EgressInv, Types
<1>4. PostMayLand(r)
  BY <1>2 DEF PostMayLand, IsPost
<1>5. /\ made[r] = 0 /\ row[r].pending = "create" /\ row[r].state \notin {"none", "deleted"}
      /\ ~Exists(r)
  <2>1. /\ made[r] = 0 /\ row[r].pending = "create"
        /\ row[r].state \notin {"none", "deleted"} /\ (Exists(r) => made[r] = 1)
    BY <1>3, <1>4 DEF GoodResource
  <2>2. 0 # 1
    OBVIOUS
  <2>3. made[r] # 1
    BY <2>1, <2>2, Zenon
  <2> QED
    BY <2>1, <2>3
<1>6. /\ obj' = [obj EXCEPT ![r] = "live"] /\ made' = [made EXCEPT ![r] = @ + 1]
      /\ UNCHANGED <<target, claim, bound>>
      /\ r \notin Snats => UNCHANGED <<spec, status, rv>>
      /\ r \in Snats => /\ spec' = [spec EXCEPT ![r] = q.enable]
                        /\ status' = [status EXCEPT ![r] = "unknown"]
                        /\ rv' = [rv EXCEPT ![r] = @ + 1]
  BY <1>1, <1>5 DEF Create, ApplyCreate
<1>7. /\ made'[r] = 1 /\ obj'[r] = "live" /\ Exists(r)'
      /\ made' \in [Resources -> Nat] /\ obj' \in [Resources -> {"absent", "live", "terminating"}]
      /\ \A x \in Resources \ {r} : made'[x] = made[x] /\ obj'[x] = obj[x]
  BY <1>5, <1>6 DEF EgressInv, Types, Exists
<1>8. Answer(q, CreateSucceeded(lane[q.from].work, lane[q.from].prog, made'[r], FALSE), "unknown")
  BY <1>1, <1>5 DEF Create, ApplyCreate
<1>9. net' = net \ {q} /\ row' = row
  BY <1>8 DEF Answer
<1>10. PICK w \in Workers : w = q.from
  BY <1>2 DEF Request
<1>11. PICK k \in LaneWork : k = lane[w].work
  BY DEF EgressInv, Types, LaneRecord
<1>12. PICK o \in Progress : o = lane[w].prog
  BY DEF EgressInv, Types, LaneRecord
<1>13. PICK p : p = CreateSucceeded(k, o, 1, FALSE)
  OBVIOUS
<1>14. Answer(q, p, "unknown")
  BY <1>7, <1>8, <1>10, <1>11, <1>12, <1>13
<1>15. Waits(q) => /\ lane[w].at = "sent" /\ lane[w].call = "create" /\ Res(w) = r
                   /\ GoodWork(w) /\ GoodProgress(w) /\ k.state \notin Ending \cup {"none"}
                   /\ o.op \notin CompletedStates
  <2> SUFFICES ASSUME Waits(q)
               PROVE  /\ lane[w].at = "sent" /\ lane[w].call = "create" /\ Res(w) = r
                      /\ GoodWork(w) /\ GoodProgress(w) /\ k.state \notin Ending \cup {"none"}
                      /\ o.op \notin CompletedStates
    OBVIOUS
  <2>1. lane[w].at = "sent" /\ lane[w].call = "create" /\ Res(w) = r
    BY <1>1, <1>2, <1>10 DEF Waits, IsPost, Res
  <2>2. GoodWork(w) /\ GoodProgress(w) /\ GoodCall(w) /\ lane[w].prog.op \notin CompletedStates
    BY <2>1, CallingLane
  <2> QED
    BY <1>11, <1>12, <2>1, <2>2 DEF GoodWork, GoodCall
<1>16. Waits(q) => /\ p \in Progress /\ p.uid = 1 /\ p.op \notin CompletedStates
                   /\ p.state \notin Ending \cup {"none"}
  <2> SUFFICES ASSUME Waits(q)
               PROVE  /\ p \in Progress /\ p.uid = 1 /\ p.op \notin CompletedStates
                      /\ p.state \notin Ending \cup {"none"}
    OBVIOUS
  <2> QED
    BY <1>13, <1>15, CreateSucceededFields
<1>17. Waits(q) => /\ lane'[w].at = "finish" /\ lane'[w].prog = p /\ lane'[w].facts = "unknown"
                   /\ lane'[w].work = lane[w].work /\ lane'[w].held = lane[w].held
                   /\ lane'[w] \in LaneRecord
  <2> SUFFICES ASSUME Waits(q)
               PROVE  /\ lane'[w].at = "finish" /\ lane'[w].prog = p
                      /\ lane'[w].facts = "unknown"
                      /\ lane'[w].work = lane[w].work /\ lane'[w].held = lane[w].held
                      /\ lane'[w] \in LaneRecord
    OBVIOUS
  <2>1. PICK m \in LaneRecord : m = lane[w]
    BY DEF EgressInv, Types
  <2>2. PICK l \in LaneRecord : l = [m EXCEPT !.at = "finish", !.prog = p, !.facts = "unknown"]
    BY <1>16 DEF LaneRecord, LaneStates, Facts
  <2>3. /\ l.at = "finish" /\ l.prog = p /\ l.facts = "unknown"
        /\ l.work = m.work /\ l.held = m.held
    BY <2>2 DEF LaneRecord
  <2>4. lane'[w] = l
    BY <1>10, <1>14, <2>1, <2>2 DEF Answer, Conclude, EgressInv, Types
  <2> QED
    BY <2>1, <2>3, <2>4
<1>18. /\ \A v \in Workers : v # w \/ ~Waits(q) => lane'[v] = lane[v]
       /\ lane' \in [Workers -> LaneRecord]
  <2>1. CASE Waits(q)
    BY <1>10, <1>14, <1>17, <2>1 DEF Answer, Conclude, EgressInv, Types
  <2>2. CASE ~Waits(q)
    BY <1>14, <2>2 DEF Answer, EgressInv, Types
  <2> QED
    BY <2>1, <2>2
<1>19. \A v \in Workers : Posting(v)' => Posting(v) /\ Res(v)' = Res(v)
  BY <1>17, <1>18 DEF Posting, Res
<1>20. NoNewPost
  BY <1>9, <1>19 DEF NoNewPost
<1>21. ~PostMayLand(r)'
  BY <1>2, <1>9, <1>19, PostAnswered
<1>22. OneHolder'
  <2>1. \A v \in Workers : "epoch" \in lane'[v].held =>
                             "epoch" \in lane[v].held /\ Res(v)' = Res(v)
    BY <1>17, <1>18 DEF Res
  <2> QED
    BY <2>1, NoNewHolder
<1>23. r \in Snats => /\ rv'[r] = rv[r] + 1 /\ rv[r] \in Nat /\ rv'[r] > rv[r]
  BY <1>6 DEF EgressInv, Types
<1>24. Types'
  <2>1. spec' \in [Snats -> BOOLEAN] /\ status' \in [Snats -> Facts] /\ rv' \in [Snats -> Nat]
    <3>1. spec \in [Snats -> BOOLEAN] /\ status \in [Snats -> Facts] /\ rv \in [Snats -> Nat]
      BY DEF EgressInv, Types
    <3>2. q.enable \in BOOLEAN /\ "unknown" \in Facts
      BY <1>2 DEF Request, Facts
    <3>3. CASE r \in Snats
      <4>1. spec' \in [Snats -> BOOLEAN]
        BY <1>6, <3>1, <3>2, <3>3
      <4>2. status' \in [Snats -> Facts]
        BY <1>6, <3>1, <3>2, <3>3
      <4>3. rv' \in [Snats -> Nat]
        BY <1>6, <3>1, <3>3
      <4> QED
        BY <4>1, <4>2, <4>3
    <3>4. CASE r \notin Snats
      BY <1>6, <3>1, <3>4
    <3> QED
      BY <3>3, <3>4
  <2> QED
    BY <1>6, <1>7, <1>9, <1>18, <2>1 DEF EgressInv, Types
<1>25. ASSUME NEW x \in Resources \ {r} PROVE Undisturbed(x)
  <2>1. SameRow(x) /\ LaterObject(x)
    BY <1>7, <1>9 DEF SameRow, LaterObject, Exists
  <2>2. x \in Snats => /\ spec'[x] = spec[x] /\ status'[x] = status[x] /\ rv'[x] = rv[x]
                       /\ rv[x] \in Nat
    BY <1>6 DEF EgressInv, Types
  <2>3. x \in Snats => LaterSwitch(x)
    BY <1>6, <2>2 DEF LaterSwitch
  <2> QED
    BY <1>20, <2>1, <2>3, NoNewPostFacts DEF Undisturbed, Calm
<1>26. GoodResource(r)'
  <2>1. row'[r].uid \in {0, made'[r]}
    BY <1>3, <1>5, <1>7, <1>9 DEF GoodResource
  <2> QED
    BY <1>5, <1>7, <1>9, <1>21, <2>1 DEF GoodResource
<1>27. made[r] # 1
  <2>1. 0 # 1
    OBVIOUS
  <2> QED
    BY <1>5, <2>1, Zenon
<1>28. ~Vanished(r)
  BY <1>4 DEF Vanished, Present
<1>29. r \in Snats => GoodBinding(r)'
  <2> SUFFICES ASSUME r \in Snats PROVE GoodBinding(r)'
    OBVIOUS
  <2>1. GoodBinding(r)
    BY DEF EgressInv
  <2>2. EipOf(r)' = EipOf(r)
    BY <1>6 DEF EipOf
  <2>3. ~(Completed(r) /\ row[r].state \notin Ending)
    BY <1>5, <2>1 DEF GoodBinding
  <2>4. ~(row[r].applied # "unknown" /\ row[r].state \notin Ending)
    BY <1>27, <2>1 DEF GoodBinding, Confirmed
  <2> QED
    BY <1>6, <1>9, <2>1, <2>2, <2>3, <2>4 DEF GoodBinding, Completed
<1>30. \A e \in Eips : GoodEip(e)'
  <2> TAKE e \in Eips
  <2>1. GoodEip(e)
    BY DEF EgressInv
  <2>2. claim[e] # Nobody => made'[e] = 1
    BY <1>7, <1>27, <2>1, Parts DEF GoodEip
  <2>3. claim[e] \in Snats => EipOf(claim[e])' = EipOf(claim[e])
    BY <1>6 DEF EipOf
  <2> QED
    BY <1>6, <1>9, <2>1, <2>2, <2>3 DEF GoodEip
<1>31. \A q2 \in net' : q2 \notin net \/ q2.res = r => GoodRequest(q2)'
  <2> SUFFICES ASSUME NEW q2 \in net, q2.res = r PROVE GoodRequest(q2)'
    BY <1>9
  <2>1. GoodRequest(q2) /\ q2.rv \in Nat
    BY DEF EgressInv, Types, Request
  <2>2. CASE q2.kind = "update"
    <3>1. r \in Snats /\ q2.rv <= rv[r]
      BY <2>1, <2>2 DEF GoodRequest
    <3>2. q2.rv <= rv'[r] /\ rv'[r] # q2.rv
      BY <1>23, <2>1, <3>1
    <3>3. ~PatchApplies(q2)'
      BY <3>2 DEF PatchApplies
    <3> QED
      BY <2>2, <3>1, <3>2, <3>3 DEF GoodRequest
  <2>3. CASE q2.kind # "update"
    BY <1>9, <2>1, <2>3 DEF GoodRequest
  <2> QED
    BY <2>2, <2>3
<1>32. ASSUME NEW v \in Workers, v # w \/ ~Waits(q) PROVE GoodLane(v)'
  <2>1. PICK x \in Resources : x = Res(v)
    BY DEF EgressInv, Types, LaneRecord, LaneWork, Res
  <2>2. lane'[v] = lane[v]
    BY <1>18, <1>32
  <2>3. CASE x # r
    <3>1. SameStep(v)
      BY <2>2 DEF SameStep
    <3> QED
      BY <1>24, <1>25, <2>1, <2>3, <3>1, UndisturbedLane
  <2>4. CASE x = r
    <3> SUFFICES ASSUME lane[v].at # "idle" PROVE GoodLane(v)'
      BY <2>2 DEF GoodLane
    <3>1. GoodLane(v) /\ GoodWork(v) /\ GoodProgress(v) /\ GoodCall(v) /\ Res(v)' = r
      BY <2>1, <2>2, <2>4 DEF EgressInv, GoodLane, Res
    <3>2. GoodWork(v)'
      <4>1. lane'[v].work.uid \in {0, made'[r]}
        BY <1>5, <2>1, <2>2, <2>4, <3>1 DEF GoodWork
      <4> QED
        BY <1>9, <2>1, <2>2, <2>4, <3>1, <4>1 DEF GoodWork, Active
    <3>3. GoodProgress(v)'
      <4>1. lane'[v].prog.uid \in {0, made'[r]}
        BY <1>5, <2>1, <2>2, <2>4, <3>1 DEF GoodProgress
      <4>2. lane[v].prog.state # "deleted"
        BY <1>28, <2>1, <2>4, <3>1 DEF GoodProgress
      <4> QED
        BY <2>1, <2>2, <2>4, <3>1, <4>1, <4>2 DEF GoodProgress
    <3>4. GoodCall(v)'
      BY <2>1, <2>2, <2>4, <3>1 DEF GoodCall
    <3>5. ASSUME lane[v].held = Fences PROVE GoodHold(v)'
      <4>1. GoodBefore(v) /\ GoodDuring(v) /\ GoodAfter(v)
        BY <3>1, <3>5 DEF GoodLane, GoodHold
      <4>2. GoodBefore(v)' /\ GoodDuring(v)'
        BY <1>9, <2>1, <2>2, <2>4, <3>1, <4>1 DEF GoodBefore, GoodDuring
      <4>3. lane[v].at = "finish" => ~lane[v].prog.clear
        BY <1>4, <2>1, <2>4, <4>1 DEF GoodAfter
      <4>4. lane[v].at = "finish" /\ r \in Snats /\ lane[v].work.state \notin Ending =>
              /\ ~(lane[v].work.active /\ lane[v].prog.op \in CompletedStates)
              /\ ~(lane[v].prog.observed /\ lane[v].facts # "unknown")
        BY <1>5, <1>27, <2>1, <2>4, <4>1, <4>3 DEF GoodAfter, Confirmed
      <4>5. GoodAfter(v)'
        BY <2>2, <3>1, <4>3, <4>4 DEF GoodAfter
      <4> QED
        BY <4>2, <4>5 DEF GoodHold
    <3> QED
      BY <2>2, <3>2, <3>3, <3>4, <3>5 DEF GoodLane
  <2> QED
    BY <2>3, <2>4
<1>33. ASSUME Waits(q) PROVE GoodLane(w)'
  <2>1. Res(w)' = r /\ Res(w) = r /\ lane'[w].prog.uid = 1 /\ lane'[w].prog.state # "none"
        /\ lane'[w].prog.state \notin Ending
    BY <1>15, <1>16, <1>17, <1>33 DEF Res
  <2>2. lane'[w].work.state \notin Ending /\ lane'[w].work.state # "none"
    BY <1>11, <1>15, <1>17, <1>33
  <2>3. GoodWork(w)'
    <3>1. lane'[w].work.uid \in {0, made'[r]}
      BY <1>5, <1>15, <1>17, <1>33 DEF GoodWork
    <3> QED
      BY <1>9, <1>15, <1>17, <1>33, <2>1, <2>2, <3>1 DEF GoodWork, Active
  <2>4. GoodProgress(w)'
    BY <1>7, <1>17, <1>33, <2>1, <2>2 DEF GoodProgress, Ending
  <2>5. GoodCall(w)' /\ GoodBefore(w)' /\ GoodDuring(w)'
    BY <1>17, <1>33 DEF GoodCall, GoodBefore, GoodDuring
  <2>6. GoodAfter(w)'
    BY <1>16, <1>17, <1>21, <1>33, <2>1 DEF GoodAfter
  <2> QED
    BY <2>3, <2>4, <2>5, <2>6 DEF GoodLane, GoodHold
<1>34. \A v \in Workers : GoodLane(v)'
  BY <1>32, <1>33
<1>35. OnePost'
  BY <1>20, NoNewPostFacts
<1>36. \A s \in Snats \ {r} : EipOf(s) \in Eips /\ claim[EipOf(s)] = s => claim'[EipOf(s)] = s
  BY <1>6
<1> QED
  BY <1>22, <1>24, <1>25, <1>26, <1>29, <1>30, <1>31, <1>34, <1>35, <1>36, OneDisturbed

-----------------------------------------------------------------------------
(***************************************************************************)
(* Finish.                                                                 *)
(***************************************************************************)
\* The row n that a completion with the progress p and the facts f leaves of k.
LeftAs(n, k, a, p, f) ==
  /\ n.state = p.state /\ n.desired = k.desired
  /\ n.op = (IF a THEN p.op ELSE k.op)
  /\ n.uid = (IF k.uid = 0 THEN p.uid ELSE k.uid)
  /\ n.pending = (IF p.clear THEN "" ELSE k.pending)
  /\ n.applied = (IF p.observed THEN f ELSE "unknown")

LEMMA FinishFields ==
  ASSUME NEW k \in EgressRow, NEW a \in BOOLEAN, NEW p \in Progress, NEW f \in Facts,
         NEW h \in BOOLEAN, NEW c \in BOOLEAN, NEW n, n = FinishEgress(k, a, p, f, h, c)
  PROVE  n \in EgressRow /\ LeftAs(n, k, a, p, f)
<1> DEFINE o == IF a THEN p.op ELSE k.op
           u == IF k.uid = 0 THEN p.uid ELSE k.uid
           d == IF p.clear THEN "" ELSE k.pending
           s == IF p.observed THEN f ELSE "unknown"
           t == IF c THEN FALSE ELSE IF p.observed THEN ~h ELSE k.told
<1>1. /\ p.state \in ResourceStates /\ o \in OperationStates /\ u \in Nat
      /\ d \in PendingActions \cup {"update"} /\ s \in Facts
  BY DEF EgressRow, Progress, PendingActions, Facts
<1>2. t \in BOOLEAN
  BY DEF EgressRow, Progress
<1>3. PICK b \in BOOLEAN : b = (p.observed \/ k.fresh)
  BY DEF EgressRow, Progress
<1>4. PICK m : m = [k EXCEPT !.state = p.state, !.fresh = b, !.op = o, !.uid = u,
                             !.pending = d, !.lease = FALSE]
  OBVIOUS
<1>5. FinishRow(k, a, p) = m
  BY <1>3, <1>4 DEF FinishRow
<1> HIDE DEF o, u, d
<1>6. /\ m \in EgressRow /\ m.state = p.state /\ m.desired = k.desired
      /\ m.op = o /\ m.uid = u /\ m.pending = d /\ m.told = k.told
  BY <1>1, <1>4 DEF EgressRow
<1>7. FinishEgress(k, a, p, f, h, c) = [m EXCEPT !.applied = s, !.told = t, !.retired = c]
  BY <1>5, <1>6 DEF FinishEgress
<1> HIDE DEF s, t
<1>8. n = [m EXCEPT !.applied = s, !.told = t, !.retired = c]
  BY <1>7
<1>9. /\ n \in EgressRow /\ n.state = m.state /\ n.desired = m.desired
      /\ n.op = m.op /\ n.uid = m.uid /\ n.pending = m.pending /\ n.applied = s
  BY <1>1, <1>2, <1>6, <1>8 DEF EgressRow
<1> QED
  BY <1>6, <1>9 DEF LeftAs, o, u, d, s

\* With both fences the lane's conclusions are true, and they become the row's.
LEMMA FinishKeeps ==
  ASSUME EgressInv, NEW w \in Workers, Finish(w)
  PROVE  EgressInv'
<1>1. /\ lane[w].at = "finish" /\ lane[w].held = Fences
      /\ UNCHANGED <<net, obj, made, target, bound, spec, status, rv>>
  BY DEF Finish, Accepts, Fenced, kcVars
<1>2. lane[w] \in LaneRecord /\ GoodWork(w) /\ GoodProgress(w) /\ GoodAfter(w)
  BY <1>1 DEF EgressInv, Types, GoodLane, GoodHold
<1>3. PICK r \in Resources : r = Res(w)
  BY <1>2 DEF LaneRecord, LaneWork, Res
<1>4. PICK k \in LaneWork : k = lane[w].work
  BY <1>2 DEF LaneRecord
<1>5. PICK p \in Progress : p = lane[w].prog
  BY <1>2 DEF LaneRecord
<1>6. PICK f \in Facts : f = lane[w].facts
  BY <1>2 DEF LaneRecord
<1>7. PICK o \in EgressRow : o = row[r]
  BY DEF EgressInv, Types
<1>8. k.active \in BOOLEAN /\ lane[w].heard \in BOOLEAN /\ lane[w].cancel \in BOOLEAN
  BY <1>2, <1>4 DEF LaneRecord, LaneWork
<1>9. PICK a \in BOOLEAN, h \in BOOLEAN, c \in BOOLEAN :
        a = k.active /\ h = lane[w].heard /\ c = lane[w].cancel
  BY <1>8
<1>10. PICK n : n = FinishEgress(o, a, p, f, h, c)
  OBVIOUS
<1>11. n \in EgressRow /\ LeftAs(n, o, a, p, f)
  BY <1>10, FinishFields
<1>12. /\ row' = [row EXCEPT ![r] = n] /\ row'[r] = n /\ row' \in [Resources -> EgressRow]
       /\ \A x \in Resources \ {r} : row'[x] = row[x]
  BY <1>3, <1>4, <1>5, <1>6, <1>7, <1>9, <1>10, <1>11 DEF Finish, Finished, EgressInv, Types
<1>13. /\ row'[r].state = p.state /\ row'[r].desired = row[r].desired
       /\ row'[r].op = (IF k.active THEN p.op ELSE row[r].op)
       /\ row'[r].uid = (IF row[r].uid = 0 THEN p.uid ELSE row[r].uid)
       /\ row'[r].pending = (IF p.clear THEN "" ELSE row[r].pending)
       /\ row'[r].applied = (IF p.observed THEN f ELSE "unknown")
  BY <1>7, <1>9, <1>12, <1>11 DEF LeftAs
\* What the fences say of the row, and what the lane has concluded.
<1>14. row[r].state = k.state /\ row[r].state # "none"
  BY <1>1, <1>2, <1>3, <1>4 DEF GoodWork, Fences
<1>15. /\ p.uid \in {0, made[r]} /\ p.state # "none"
       /\ (p.state \in Ending <=> row[r].state \in Ending)
       /\ (row[r].state = "deleted" => p.state = "deleted")
       /\ (p.state = "deleted" => Vanished(r))
  BY <1>2, <1>3, <1>4, <1>5, <1>14 DEF GoodProgress
<1>16. /\ p.clear => ~PostMayLand(r) /\ (made[r] = 1 => 1 \in {p.uid, row[r].uid})
       /\ r \in Snats /\ row[r].state \notin Ending =>
            /\ k.active /\ p.op \in CompletedStates =>
                 InPlace(r) /\ (p.clear \/ row[r].pending # "create")
            /\ p.observed /\ f # "unknown" => Confirmed(r, f)
  BY <1>1, <1>2, <1>3, <1>4, <1>5, <1>6, <1>14 DEF GoodAfter
<1>17. GoodResource(r) /\ made[r] \in Nat
  BY DEF EgressInv, Types
\* The lanes.
<1>18. /\ lane'[w] = Idle /\ lane' \in [Workers -> LaneRecord]
       /\ \A v \in Workers \ {w} :
            SameStep(v) /\ (Res(v) = r => lane'[v].held = lane[v].held \ {"version"})
  <2>1. ASSUME NEW v \in Workers \ {w}
        PROVE  /\ lane'[v] \in LaneRecord /\ SameStep(v)
               /\ Res(v) = r => lane'[v].held = lane[v].held \ {"version"}
    <3>1. PICK l \in LaneRecord : l = lane[v]
      BY DEF EgressInv, Types
    <3>2. PICK m : m = [l EXCEPT !.held = @ \ {"version"}]
      OBVIOUS
    <3>3. /\ m \in LaneRecord /\ m.held = l.held \ {"version"} /\ m.at = l.at
          /\ m.call = l.call /\ m.work = l.work /\ m.prog = l.prog /\ m.facts = l.facts
      BY <3>2 DEF LaneRecord
    <3>4. lane'[v] = IF Res(v) = r THEN m ELSE l
      BY <1>3, <3>1, <3>2 DEF Finish, Released, Bump, Res
    <3> QED
      BY <3>1, <3>3, <3>4 DEF SameStep
  <2>2. lane'[w] = Idle
    BY DEF Finish, Released, Bump
  <2>3. lane' = [v \in Workers |-> lane'[v]]
    BY DEF Finish, Released, Bump
  <2> QED
    BY <2>1, <2>2, <2>3, IdleFacts
<1>19. NoNewPost
  BY <1>1, <1>18, IdleFacts DEF NoNewPost, Posting, Res, SameStep
<1>20. OneHolder'
  <2>1. \A v \in Workers : "epoch" \in lane'[v].held =>
                             "epoch" \in lane[v].held /\ Res(v)' = Res(v)
    BY <1>18, IdleFacts DEF SameStep, Res
  <2> QED
    BY <2>1, NoNewHolder
\* The claims.
<1>21. /\ claim' \in [Eips -> Snats \cup {LB, Nobody}]
       /\ \A e \in Eips : claim'[e] = IF claim[e] = r /\ r \in Snats /\ p.state = "deleted"
                                        THEN Nobody ELSE claim[e]
  BY <1>3, <1>5 DEF Finish, ClaimsAfter, EgressInv, Types
<1>22. Types'
  BY <1>1, <1>12, <1>18, <1>21 DEF EgressInv, Types
<1>23. \A x \in Resources \ {r} : Undisturbed(x)
  BY <1>1, <1>12, <1>19, Elsewhere
<1>24. PostMayLand(r)' => PostMayLand(r)
  BY <1>19, NoNewPostFacts
<1>25. Vanished(r) => Vanished(r)'
  BY <1>1, <1>13, <1>15, <1>24 DEF Vanished, Present, Exists, EipOf
<1>26. row'[r].pending = "create" => row[r].pending = "create"
  BY <1>13
<1>27. GoodResource(r)'
  <2>1. row'[r].uid \in {0, made'[r]}
    BY <1>1, <1>13, <1>15, <1>17 DEF GoodResource
  <2>2. PostMayLand(r)' => /\ made'[r] = 0 /\ row'[r].pending = "create"
                           /\ row'[r].state \notin {"none", "deleted"}
    <3> SUFFICES ASSUME PostMayLand(r)
                 PROVE  /\ made'[r] = 0 /\ row'[r].pending = "create"
                        /\ row'[r].state \notin {"none", "deleted"}
      BY <1>24
    <3>1. made[r] = 0 /\ row[r].pending = "create" /\ ~p.clear /\ ~Vanished(r)
      BY <1>16, <1>17 DEF GoodResource, Vanished, Present
    <3> QED
      BY <1>1, <1>13, <1>15, <3>1
  <2>3. made'[r] = 1 => row'[r].uid = 1 \/ row'[r].pending = "create"
    <3> SUFFICES ASSUME made[r] = 1, row'[r].pending # "create" PROVE row'[r].uid = 1
      BY <1>1
    <3>1. row[r].uid = 1 \/ p.clear
      BY <1>13, <1>17 DEF GoodResource
    <3>2. row[r].uid = 1 \/ p.uid = 1
      BY <1>16, <3>1
    <3>3. row[r].uid = 0 \/ row[r].uid = 1
      BY <1>17 DEF GoodResource
    <3>4. CASE row[r].uid = 1
      <4>1. row[r].uid # 0
        BY <3>4
      <4> QED
        BY <1>13, <3>4, <4>1
    <3>5. CASE row[r].uid = 0
      <4>1. row[r].uid # 1
        BY <3>5
      <4> QED
        BY <1>13, <3>2, <3>5, <4>1
    <3> QED
      BY <3>3, <3>4, <3>5
  <2>4. made'[r] = 1 /\ row'[r].state \notin Ending => obj'[r] = "live"
    BY <1>1, <1>13, <1>15, <1>17 DEF GoodResource
  <2>5. made'[r] <= 1 /\ (Exists(r)' => made'[r] = 1)
    BY <1>1, <1>17 DEF GoodResource, Exists
  <2>6. row'[r].state # "none" /\ (row'[r].state = "deleted" => Vanished(r)')
    BY <1>13, <1>15, <1>25
  <2> QED
    BY <2>1, <2>2, <2>3, <2>4, <2>5, <2>6 DEF GoodResource
<1>28. r \in Snats => GoodBinding(r)'
  <2> SUFFICES ASSUME r \in Snats PROVE GoodBinding(r)'
    OBVIOUS
  <2>1. GoodBinding(r) /\ EipOf(r)' = EipOf(r) /\ EipOf(r) \in Eips
    BY <1>1, <1>14 DEF EgressInv, GoodBinding, EipOf
  <2>2. row'[r].state \notin {"none", "deleted"} => claim'[EipOf(r)'] = r
    BY <1>13, <1>14, <1>15, <1>21, <2>1 DEF GoodBinding
  <2>3. Completed(r)' /\ row'[r].state \notin Ending => row'[r].pending # "create" /\ InPlace(r)'
    <3> SUFFICES ASSUME Completed(r)', row'[r].state \notin Ending
                 PROVE  row'[r].pending # "create" /\ InPlace(r)'
      OBVIOUS
    <3>1. row[r].state \notin Ending
      BY <1>13, <1>15
    <3>2. InPlace(r) /\ (p.clear \/ row[r].pending # "create")
      <4>1. CASE k.active
        BY <1>13, <1>16, <3>1, <4>1 DEF Completed
      <4>2. CASE ~k.active
        BY <1>13, <2>1, <3>1, <4>2 DEF GoodBinding, Completed
      <4> QED
        BY <4>1, <4>2
    <3> QED
      BY <1>1, <1>13, <3>2 DEF InPlace
  <2>4. row'[r].applied # "unknown" /\ row'[r].state \notin Ending =>
          Confirmed(r, row[r].applied)'
    <3> SUFFICES ASSUME row'[r].applied # "unknown", row'[r].state \notin Ending
                 PROVE  Confirmed(r, row[r].applied)'
      OBVIOUS
    <3>1. p.observed /\ row'[r].applied = f /\ f # "unknown" /\ row[r].state \notin Ending
      BY <1>13, <1>15
    <3>2. Confirmed(r, f)
      BY <1>16, <3>1
    <3> QED
      BY <1>1, <1>13, <3>1, <3>2 DEF Confirmed
  <2> QED
    BY <2>1, <2>2, <2>3, <2>4 DEF GoodBinding
<1>29. \A e \in Eips : GoodEip(e)'
  <2> TAKE e \in Eips
  <2>1. GoodEip(e) /\ Nobody \notin Snats
    BY EgressAssumption DEF EgressInv
  <2>2. claim'[e] # Nobody => claim'[e] = claim[e]
    BY <1>21
  <2>3. row[e].state \notin Ending => row'[e].state \notin Ending
    BY <1>12, <1>13, <1>15, Parts
  <2>4. claim'[e] \in Snats => /\ EipOf(claim[e])' = e
                               /\ row'[claim'[e]].state \notin {"none", "deleted"}
    <3> SUFFICES ASSUME claim'[e] \in Snats
                 PROVE  /\ EipOf(claim[e])' = e
                        /\ row'[claim'[e]].state \notin {"none", "deleted"}
      OBVIOUS
    <3>1. PICK s \in Snats : s = claim[e]
      BY <1>21, <2>1
    <3>2. EipOf(s) = e /\ row[s].state \notin {"none", "deleted"}
      BY <2>1, <3>1 DEF GoodEip
    <3>3. EipOf(s)' = e
      BY <1>1, <3>2 DEF EipOf
    <3>4. s = r => p.state # "deleted"
      BY <1>21, <2>1, <3>1
    <3>5. row'[s].state \notin {"none", "deleted"}
      BY <1>12, <1>13, <1>15, <3>2, <3>4, Parts
    <3>6. claim'[e] = s
      BY <1>21, <2>1, <3>1
    <3> QED
      BY <3>3, <3>5, <3>6 DEF EipOf
  <2>5. bound[e] # Nobody => claim'[e] = bound[e]
    <3> SUFFICES ASSUME bound[e] # Nobody PROVE claim'[e] = bound[e]
      OBVIOUS
    <3>1. claim[e] = bound[e]
      BY <2>1 DEF GoodEip
    <3>2. ASSUME claim[e] = r, r \in Snats, p.state = "deleted" PROVE FALSE
      <4>1. EipOf(r) = e
        BY <2>1, <3>2 DEF GoodEip
      <4>2. bound[EipOf(r)] # r
        BY <1>15, <3>2 DEF Vanished
      <4> QED
        BY <3>1, <3>2, <4>1, <4>2
    <3> QED
      BY <1>21, <3>1, <3>2
  <2> QED
    BY <1>1, <2>1, <2>2, <2>3, <2>4, <2>5 DEF GoodEip
<1>30. \A q \in net' : q \notin net \/ q.res = r => GoodRequest(q)'
  <2> SUFFICES ASSUME NEW q \in net, q.res = r PROVE GoodRequest(q)'
    BY <1>1
  <2>1. GoodRequest(q)
    BY DEF EgressInv
  <2>2. PatchApplies(q)' <=> PatchApplies(q)
    BY <1>1 DEF PatchApplies, Exists
  <2> QED
    BY <1>1, <1>13, <1>15, <2>1, <2>2 DEF GoodRequest
<1>31. \A v \in Workers : GoodLane(v)'
  <2>1. GoodLane(w)'
    BY <1>18, IdleFacts DEF GoodLane
  <2>2. ASSUME NEW v \in Workers \ {w} PROVE GoodLane(v)'
    <3>1. PICK x \in Resources : x = Res(v)
      BY DEF EgressInv, Types, LaneRecord, LaneWork, Res
    <3>2. CASE x # r
      BY <1>18, <1>22, <1>23, <3>1, <3>2, UndisturbedLane
    <3>3. CASE x = r
      <4>1. Loose(r)
        BY <1>1, <1>13, <1>15, <1>25, <1>26 DEF Loose
      <4>2. "version" \notin lane'[v].held
        BY <1>18, <3>1, <3>3
      <4> QED
        BY <1>18, <3>1, <3>3, <4>1, <4>2, LooseLane DEF Fences
    <3> QED
      BY <3>2, <3>3
  <2> QED
    BY <2>1, <2>2
<1>32. \A s \in Snats \ {r} : EipOf(s) \in Eips /\ claim[EipOf(s)] = s => claim'[EipOf(s)] = s
  BY <1>21
<1> QED
  BY <1>20, <1>19, <1>22, <1>23, <1>27, <1>28, <1>29, <1>30, <1>31, <1>32, NoNewPostFacts,
     OneDisturbed

-----------------------------------------------------------------------------
(***************************************************************************)
(* The invariant, and what follows from it.                                *)
(***************************************************************************)
LEMMA InitKeeps == Init => EgressInv
<1> SUFFICES ASSUME Init PROVE EgressInv
  OBVIOUS
<1>1. /\ row = [r \in Resources |-> NoEgressRow] /\ lane = [w \in Workers |-> Idle]
      /\ net = {} /\ obj = [r \in Resources |-> "absent"] /\ made = [r \in Resources |-> 0]
      /\ claim = [e \in Eips |-> Nobody] /\ bound = [e \in Eips |-> Nobody]
      /\ target = [s \in Snats |-> [vpc |-> Nobody, eip |-> Nobody]]
      /\ spec = [s \in Snats |-> TRUE] /\ status = [s \in Snats |-> "unknown"]
      /\ rv = [s \in Snats |-> 0]
  BY DEF Init, CoreInit
<1>2. /\ NoEgressRow \in EgressRow /\ NoEgressRow.state = "none" /\ NoEgressRow.uid = 0
      /\ NoEgressRow.applied = "unknown" /\ NoEgressRow.op = "none"
  BY DEF NoEgressRow, EgressRow, ResourceStates, OperationStates, PendingActions, Kinds, Facts
<1>3. Types
  <2>1. row \in [Resources -> EgressRow] /\ lane \in [Workers -> LaneRecord]
    BY <1>1, <1>2, IdleFacts
  <2>2. target \in [Snats -> [vpc : Vpcs \cup {Nobody}, eip : Eips \cup {Nobody}]]
    BY <1>1
  <2>3. status \in [Snats -> Facts]
    BY <1>1 DEF Facts
  <2> QED
    BY <1>1, <2>1, <2>2, <2>3 DEF Types
<1>4. \A r \in Resources : ~PostMayLand(r) /\ ~Exists(r) /\ made[r] = 0 /\ row[r] = NoEgressRow
  BY <1>1, IdleFacts DEF PostMayLand, Exists
<1>5. ASSUME NEW r \in Resources PROVE GoodResource(r)
  <2>1. made[r] <= 1 /\ made[r] # 1
    BY <1>4
  <2>2. row[r].uid \in {0, made[r]} /\ row[r].state # "deleted"
    BY <1>2, <1>4
  <2> QED
    BY <1>4, <2>1, <2>2 DEF GoodResource
<1>6. \A s \in Snats : GoodBinding(s)
  <2> TAKE s \in Snats
  <2>1. row[s].state = "none" /\ row[s].applied = "unknown" /\ row[s].op = "none"
    BY <1>2, <1>4, Parts
  <2> QED
    BY <2>1 DEF GoodBinding, Completed, CompletedStates
<1>7. \A e \in Eips : GoodEip(e)
  BY <1>1, EgressAssumption DEF GoodEip
<1>8. \A w \in Workers : GoodLane(w)
  BY <1>1, IdleFacts DEF GoodLane
<1>9. OnePost /\ OneHolder
  BY <1>1, IdleFacts DEF OnePost, OneHolder, Posting
<1> QED
  BY <1>1, <1>3, <1>5, <1>6, <1>7, <1>8, <1>9 DEF EgressInv

LEMMA NextKeeps == EgressInv /\ [Next]_vars => EgressInv'
<1> SUFFICES ASSUME EgressInv, [Next]_vars PROVE EgressInv'
  OBVIOUS
<1>1. CASE Admission
  <2>1. ASSUME NEW e \in Eips, DeleteEIP(e) PROVE EgressInv'
    BY <2>1, RemoveKeeps, Parts DEF DeleteEIP, EipTaken
  <2>2. ASSUME NEW s \in Snats, DeleteSnat(s) PROVE EgressInv'
    BY <2>2, RemoveKeeps, Parts DEF DeleteSnat
  <2> QED
    BY <1>1, <2>1, <2>2, AcceptEIPKeeps, AcceptSnatKeeps, SetIntentKeeps, LBKeeps
       DEF Admission
<1>2. ASSUME NEW w \in Workers, LaneStep(w) PROVE EgressInv'
  <2>1. CASE ObserveTrouble(w)
    BY <2>1, ObserveFailsStep DEF ObserveTrouble
  <2> QED
    BY <1>2, <2>1, ClaimKeeps, ObserveKeeps, BeginKeeps, CheckCreateKeeps, CheckUpdateKeeps,
       CheckDeleteKeeps, FinishKeeps, TroubleKeeps DEF LaneStep
<1>3. CASE ProviderStep
  <2>1. ASSUME NEW q \in net, Delete(q) PROVE EgressInv'
    <3>1. q.kind = "delete"
      BY <2>1 DEF Delete, ApplyDelete
    <3> QED
      BY <2>1, <3>1, DeleteKeeps
  <2>2. ASSUME NEW e \in Eips, Allocate(e) PROVE EgressInv'
    BY <2>2, ExitKeeps DEF Allocate, coreVars
  <2>3. CASE ExitFails \/ ExitRecovers
    BY <2>3, ExitKeeps DEF ExitFails, ExitRecovers, coreVars, dbVars, kcVars
  <2> QED
    BY <1>3, <2>1, <2>2, <2>3, CreateKeeps, UpdateKeeps, RefusedKeeps, GoneKeeps, BindKeeps,
       ApplyKeeps DEF ProviderStep
<1>4. CASE TimeStep
  BY <1>4, TimeKeeps DEF TimeStep
<1>5. CASE UNCHANGED vars
  BY <1>5, ExitKeeps DEF vars, coreVars, egressVars
<1> QED
  BY <1>1, <1>2, <1>3, <1>4, <1>5 DEF Next

\* The invariant the code relies on holds in every reachable state, for any
\* EIPs, bindings, VPCs, lanes and number of failures.
THEOREM EgressInvariant == Spec => []EgressInv
  BY InitKeeps, NextKeeps, PTL DEF Spec

\* An EIP serves the target that holds its claim and stays while it is held,
\* and a position of the switch that a row shows is the one the provider has
\* applied (AcceptSnat, DeleteEIP, ReleaseSnatClaim, SetSnatIntent,
\* AdvanceSnat).
THEOREM EgressIsSafe == Spec => []EgressSafety
<1>1. EgressInv => EgressSafety
  <2> SUFFICES ASSUME EgressInv PROVE EgressSafety
    OBVIOUS
  <2>1. ASSUME NEW e \in Eips, NEW s \in Snats, EipOf(s) = e, Present(s)
        PROVE  claim[e] = s
    <3>1. GoodResource(s) /\ GoodBinding(s)
      BY Parts DEF EgressInv
    <3>2. row[s].state # "deleted"
      BY <2>1, <3>1 DEF GoodResource, Vanished
    <3>3. row[s].state # "none"
      BY <2>1, AbsentFacts, Parts DEF Present
    <3> QED
      BY <2>1, <3>1, <3>2, <3>3 DEF GoodBinding
  <2>2. ASSUME NEW e \in Eips
        PROVE  /\ bound[e] # Nobody => claim[e] = bound[e]
               /\ claim[e] # Nobody => obj[e] = "live"
    <3>1. GoodEip(e) /\ GoodResource(e)
      BY Parts DEF EgressInv
    <3> QED
      BY <3>1 DEF GoodEip, GoodResource
  <2>3. EipServesItsClaimant
    BY <2>1, <2>2 DEF EipServesItsClaimant
  <2>4. AppliedIsTrue
    BY DEF AppliedIsTrue, EgressInv, GoodBinding, Confirmed, Ending
  <2> QED
    BY <2>3, <2>4 DEF EgressSafety
<1> QED
  BY <1>1, EgressInvariant, PTL

\* A patch that takes effect sets the position that is desired at that moment,
\* however late it arrives (UpdateEgress tests the revision it has read).
THEOREM PatchesAreHarmless == Spec => LatePatchIsHarmless
<1> DEFINE Harmless == \A s \in Snats : Exists(s) /\ spec'[s] # spec[s] => spec'[s] = row[s].desired
<1>1. EgressInv /\ [Next]_vars => [Harmless]_vars
  <2> SUFFICES ASSUME EgressInv, Next PROVE Harmless
    OBVIOUS
  <2>1. CASE spec' = spec
    BY <2>1
  <2>2. ASSUME NEW q \in net, Create(q) PROVE Harmless
    BY <2>2 DEF Create, EgressInv, Types
  <2>3. ASSUME NEW q \in net, Update(q) PROVE Harmless
    <3>1. CASE PatchApplies(q)
      <4>1. q.enable = row[q.res].desired /\ q.res \in Snats
        BY <2>3, <3>1 DEF Update, EgressInv, GoodRequest
      <4>2. spec' = [spec EXCEPT ![q.res] = q.enable] /\ spec \in [Snats -> BOOLEAN]
        BY <2>3, <3>1 DEF Update, EgressInv, Types
      <4> QED
        BY <4>1, <4>2
    <3>2. CASE ~PatchApplies(q)
      BY <2>3, <3>2 DEF Update
    <3> QED
      BY <3>1, <3>2
  <2>4. Admission => spec' = spec
    BY DEF Admission, AcceptEIP, DeleteEIP, AcceptSnat, DeleteSnat, Remove, SetVPCSnatEnabled,
           LBClaims, LBBinds, LBUnbinds, LBReleases, egressVars
  <2>5. \A w \in Workers : LaneStep(w) => spec' = spec
    BY DEF LaneStep, Claim, Observe, ObserveTrouble, Begin, CheckCreate, CheckUpdate,
           CheckDelete, Finish, egressVars
  <2>6. ProviderStep => spec' = spec \/ \E q \in net : Create(q) \/ Update(q)
    BY DEF ProviderStep, Delete, Gone, Allocate, Bind, Apply, Unbind, ExitFails, ExitRecovers,
           egressVars
  <2>7. TimeStep => spec' = spec
    BY DEF TimeStep, egressVars
  <2> QED
    BY <2>1, <2>2, <2>3, <2>4, <2>5, <2>6, <2>7 DEF Next
<1> QED
  BY <1>1, EgressInvariant, PTL DEF Spec, LatePatchIsHarmless
=============================================================================
