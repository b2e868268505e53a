-------------------------- MODULE AttachmentProofs --------------------------
(***************************************************************************)
(* Attachments, proved for any number of attachments, lanes and processes, *)
(* with or without a Watch that lags.                                      *)
(*                                                                         *)
(* What no party may undo (AttachmentHistory) rests on the fences alone,   *)
(* whatever the owner does: a lane that still holds the version has        *)
(* concluded from the relations the row still has (LanesKeepHistory).      *)
(*                                                                         *)
(* What a release means rests on an owner that keeps its side of the       *)
(* protocol, ~OwnerErrs.  A collection that was started after the owner    *)
(* answered "closed" shows every interface that is left (FreshIsComplete): *)
(* after that answer no Pod appears, so that interfaces only go, and the   *)
(* interfaces are listed last.                                             *)
(***************************************************************************)
EXTENDS AttachmentProtocol, TLAPS

-----------------------------------------------------------------------------
(***************************************************************************)
(* The invariants.                                                         *)
(***************************************************************************)
\* An attachment is known to its owner, and a lane works on a known one.
Known ==
  /\ \A a \in Attachments : att[a].state # "none" => owner[a] # "none"
  /\ \A w \in Workers : pc[w] # "idle" => /\ on[w] \in Attachments
                                          /\ att[on[w]].state # "none"

\* A release has a finalization id.
FinalizedFirst ==
  /\ \A a \in Attachments : att[a].state = "released" => att[a].fin
  /\ \A w \in Workers : pc[w] = "finish" /\ prog[w].state = "released" => prog[w].fin

\* What a lane that holds the version is about to record forgets nothing.
LanesKeepHistory ==
  \A w \in Workers : pc[w] = "finish" /\ "version" \in held[w] =>
                       att[on[w]].rel \subseteq prog[w].rel

LiveHasUid == \A a \in Attachments : pod[a].at = "live" => pod[a].uid # 0

HistoryInv == TypeOK /\ Known /\ FinalizedFirst /\ LanesKeepHistory /\ LiveHasUid

\* An honest owner: one Pod for an open submission, none after it is closed.
OnePod ==
  \A a \in Attachments :
    /\ pod[a].uid \in {0, 1}
    /\ pod[a].at \in {"none", "sent"} => pod[a].uid = 0
    /\ pod[a].at = "live" => pod[a].uid = 1
    /\ nics[a] # {} => nics[a] = {1} /\ pod[a].uid = 1
    /\ owner[a] = "none" => pod[a].at = "none"
    /\ owner[a] = "closed" => pod[a].at \in {"none", "gone"}

Closed(a) == owner[a] = "closed" /\ nics[a] = {}

\* What the owner said when it had closed stays true.
AnswersStayTrue ==
  \A w \in Workers :
    pc[w] = "asked" /\ answer[w].state = "closed" =>
      owner[on[w]] = "closed" /\ answer[w].pods = {pod[on[w]].uid} \cap {1}

\* A collection that a lane may take for fresh was started after the answer.
FreshIsComplete ==
  \A w \in Workers :
    /\ w \in list[ProcessOf[w]].since \cup view[ProcessOf[w]].since => pc[w] = "asked"
    /\ w \in view[ProcessOf[w]].since /\ answer[w].state = "closed" =>
         nics[on[w]] \subseteq view[ProcessOf[w]].nics[on[w]]

ReleasesAreTrue ==
  /\ \A a \in Attachments : att[a].state = "released" => Closed(a)
  /\ \A w \in Workers : pc[w] = "finish" /\ prog[w].state = "released" => Closed(on[w])

\* The slot has one holder, and none once the Subnet goes.
Holding(a) == att[a].state \notin {"none", "released"}

OneHolder ==
  /\ \A a, b \in Attachments : a # b => ~Holding(a) \/ ~Holding(b)
  /\ subnet # "available" => \A a \in Attachments : ~Holding(a)
  /\ \A a \in Attachments : att[a].state = "none" => owner[a] = "none"

ReleaseInv ==
  /\ HistoryInv /\ OnePod /\ AnswersStayTrue /\ FreshIsComplete /\ ReleasesAreTrue
  /\ OneHolder

-----------------------------------------------------------------------------
(***************************************************************************)
(* What a step concludes.                                                  *)
(***************************************************************************)
SeenObjects == [pod : 0..2, nics : SUBSET Pods, torn : BOOLEAN]

\* The objects that were found make a progress, and forget no relation.
LEMMA FoundFacts ==
  ASSUME NEW row \in AttachmentRow, NEW c \in Submission, NEW s \in SeenObjects
  PROVE  /\ Found(row, c, s) \in AttachmentProgress
         /\ row.rel \subseteq Found(row, c, s).rel
         /\ Found(row, c, s).fin = row.fin
         /\ Found(row, c, s).state = "released" => row.state = "released"
         /\ row.state = "released" => Found(row, c, s).state = "released"
<1> DEFINE cand == Candidates(row, c, s)
           dig  == Digest(row, c, s)
           pod1 == IF s.pod # 0 THEN s.pod ELSE row.pod
           st1  == IF s.pod # 0 /\ row.state = "reserved" THEN "attached" ELSE row.state
           bl1  == row.blocked \/ (row.state = "released" /\ (s.pod # 0 \/ cand # {}))
<1>1. cand \subseteq Pods
  BY DEF Candidates, SeenObjects
<1>2. dig \in Evidence
  BY <1>1 DEF Digest, Evidence, SeenObjects
<1>3. pod1 \in 0..2 /\ st1 \in AttachmentStates /\ bl1 \in BOOLEAN
  BY DEF SeenObjects, AttachmentRow, AttachmentStates
<1>4. Found(row, c, s) = [state |-> st1, pod |-> pod1, fin |-> row.fin, blocked |-> bl1,
                          rel |-> row.rel \cup cand, evidence |-> {dig}]
  <2>1. Found(row, c, s) =
          [Unchanged(row) EXCEPT !.evidence = {dig}, !.rel = row.rel \cup cand,
                                 !.pod = pod1, !.state = st1, !.blocked = bl1]
    BY Zenon DEF Found, Unchanged
  <2> HIDE DEF cand, dig, pod1, st1, bl1
  <2> QED BY <2>1 DEF Unchanged
<1>5. row.rel \subseteq Pods /\ row.fin \in BOOLEAN
  BY DEF AttachmentRow
<1> HIDE DEF cand, dig, pod1, bl1
<1>6. Found(row, c, s) \in AttachmentProgress
  BY <1>1, <1>2, <1>3, <1>4, <1>5 DEF AttachmentProgress
<1> QED
  BY <1>4, <1>6

\* A step that observed nothing.
LEMMA UnchangedFacts ==
  ASSUME NEW row \in AttachmentRow
  PROVE  /\ Unchanged(row) \in AttachmentProgress
         /\ Block(Unchanged(row)) \in AttachmentProgress
         /\ Unchanged(row).rel = row.rel /\ Block(Unchanged(row)).rel = row.rel
         /\ Unchanged(row).state = row.state /\ Block(Unchanged(row)).state = row.state
         /\ Unchanged(row).fin = row.fin /\ Block(Unchanged(row)).fin = row.fin
  BY DEF Unchanged, Block, AttachmentRow, AttachmentProgress

\* A release is concluded with its finalization id, for a submission that is
\* closed and none of whose objects was found.
LEMMA ClosingFacts ==
  ASSUME NEW row \in AttachmentRow, NEW c \in Submission, NEW s \in SeenObjects,
         NEW p \in AttachmentProgress, p.state = "released" <=> row.state = "released",
         row.state = "released" => p.fin, c.state \in {"closing", "closed"}
  PROVE  /\ Closing(row, c, s, p) \in AttachmentProgress
         /\ Closing(row, c, s, p).rel = p.rel
         /\ Closing(row, c, s, p).state = "released" =>
              /\ Closing(row, c, s, p).fin
              /\ row.state # "released" => c.state = "closed" /\ Candidates(row, c, s) = {}
<1> DEFINE q == [p EXCEPT !.state = IF row.state = "released" THEN @ ELSE "releasing",
                          !.fin   = @ \/ row.state # "released"]
<1>1. p.fin \in BOOLEAN /\ p.state \in AttachmentStates
  BY DEF AttachmentProgress
<1>2. /\ q \in AttachmentProgress /\ q.rel = p.rel /\ q.fin = (p.fin \/ row.state # "released")
      /\ q.state = "released" <=> row.state = "released"
  <2> DEFINE fin1 == p.fin \/ row.state # "released"
             st1  == IF row.state = "released" THEN p.state ELSE "releasing"
  <2>1. fin1 \in BOOLEAN /\ st1 \in AttachmentStates
    BY <1>1 DEF AttachmentStates
  <2>2. q = [p EXCEPT !.state = st1, !.fin = fin1]
    BY DEF AttachmentProgress
  <2> HIDE DEF fin1, q
  <2> QED BY <2>1, <2>2 DEF AttachmentProgress, fin1
<1> HIDE DEF q
<1>3. q.state = "released" => q.fin
  BY <1>1, <1>2
<1>4. /\ Block(q) \in AttachmentProgress /\ Block(q).rel = q.rel /\ Block(q).fin = q.fin
      /\ Block(q).state = q.state
  BY <1>2 DEF Block, AttachmentProgress
<1>5. LET r == [q EXCEPT !.state = "released"]
      IN r \in AttachmentProgress /\ r.rel = q.rel /\ r.fin = q.fin
  BY <1>2 DEF AttachmentProgress, AttachmentStates
<1>6. row.state # "released" => q.fin
  BY <1>1, <1>2
<1>7. row.state = "released" => q.fin
  BY <1>1, <1>2
<1>8. CASE c.state = "closing" \/ (p.pod # 0 /\ p.pod \notin c.pods)
  BY <1>2, <1>3, <1>4, <1>8 DEF Closing, q
<1>9. CASE c.state # "closing" /\ ~(p.pod # 0 /\ p.pod \notin c.pods)
  BY <1>2, <1>3, <1>5, <1>6, <1>7, <1>9 DEF Closing, q
<1> QED BY <1>8, <1>9

\* What any step concludes.
LEMMA ConcludedFacts ==
  ASSUME NEW row \in AttachmentRow, NEW c \in Submission, NEW s \in SeenObjects,
         row.state = "released" => row.fin
  PROVE  /\ Concluded(row, c, s) \in AttachmentProgress
         /\ row.rel \subseteq Concluded(row, c, s).rel
         /\ Concluded(row, c, s).state = "released" =>
              /\ Concluded(row, c, s).fin
              /\ row.state # "released" => c.state = "closed" /\ Candidates(row, c, s) = {}
<1>1. PICK p : p = Found(row, c, s)
  OBVIOUS
<1>2. /\ p \in AttachmentProgress /\ row.rel \subseteq p.rel /\ p.fin = row.fin
      /\ p.state = "released" <=> row.state = "released"
  BY <1>1, FoundFacts
<1>3. CASE Contradiction(row, c, s)
  BY <1>3, UnchangedFacts DEF Concluded
<1>4. CASE ~Contradiction(row, c, s) /\ c.state = "invalid"
  <2>1. Concluded(row, c, s) = Block(p)
    BY <1>1, <1>4 DEF Concluded
  <2>2. /\ Block(p) \in AttachmentProgress /\ Block(p).rel = p.rel
        /\ Block(p).state = p.state /\ Block(p).fin = p.fin
    BY <1>2 DEF Block, AttachmentProgress
  <2> QED BY <1>2, <2>1, <2>2
<1>5. CASE ~Contradiction(row, c, s) /\ c.state \in {"closing", "closed"}
  <2>1. Concluded(row, c, s) = Closing(row, c, s, p)
    BY <1>1, <1>5 DEF Concluded
  <2> QED BY <1>2, <1>5, <2>1, ClosingFacts
<1>6. CASE ~Contradiction(row, c, s) /\ c.state \notin {"invalid", "closing", "closed"}
  <2>1. Concluded(row, c, s) = p
    BY <1>1, <1>6 DEF Concluded
  <2> QED BY <1>2, <2>1
<1> QED BY <1>3, <1>4, <1>5, <1>6


-----------------------------------------------------------------------------
(***************************************************************************)
(* The history of a row.                                                   *)
(***************************************************************************)
USE DEF cluster, laneVars, audit

\* One step leaves the history of every row alone, or extends it.
Extended ==
  \A a \in Attachments :
    /\ att[a].state # "none" => att'[a].state \in Later(att[a].state)
    /\ att[a].pod # 0 => att'[a].pod = att[a].pod
    /\ att[a].rel \subseteq att'[a].rel
    /\ att[a].blocked => att'[a].blocked
    /\ att[a].fin => att'[a].fin

\* An untouched row is its own continuation.
LEMMA LaterReflexive ==
  ASSUME NEW s \in AttachmentStates
  PROVE  s \in Later(s)
  BY DEF Later, AttachmentStates

\* Failures stay within their bound.
LEMMA FaultsBounded ==
  ASSUME TypeOK, Fault \/ UNCHANGED faults
  PROVE  faults' \in 0..MaxFaults
  BY AttachmentAssumption DEF TypeOK, Fault

\* A collection that loses a proof is a collection.
LEMMA DropType ==
  ASSUME NEW views \in [Processes -> View], NEW x, NEW field \in {"after", "since", "clean"}
  PROVE  Drop(views, x, field) \in [Processes -> View]
  BY DEF Drop, View

\* A change of the objects of an attachment keeps the shapes of collections.
LEMMA ChangeType ==
  ASSUME TypeOK, NEW a, ChangeOf(a)
  PROVE  list' \in [Processes -> View] /\ view' \in [Processes -> View]
  BY DropType DEF ChangeOf, TypeOK

\* Losing a fence is all that Bump does.
LEMMA BumpFacts ==
  ASSUME TypeOK, NEW a, NEW fences
  PROVE  /\ Bump(a, fences) \in [Workers -> SUBSET {"version", "epoch"}]
         /\ \A w \in Workers : Bump(a, fences)[w] \subseteq held[w]
         /\ "version" \in fences =>
              \A w \in Workers : "version" \in Bump(a, fences)[w] => on[w] # a
  BY DEF TypeOK, Bump

\* The first state: no attachment, no step, no collection.
LEMMA HistoryInit == Init => HistoryInv
<1> SUFFICES ASSUME Init PROVE HistoryInv
  OBVIOUS
<1>1. NoAttachment \in AttachmentRow /\ NoAnswer \in Submission
  BY DEF NoAttachment, AttachmentRow, AttachmentStates, NoAnswer, Submission, AnswerStates
<1>2. NoConclusion \in AttachmentProgress
  BY <1>1, UnchangedFacts DEF NoConclusion
<1>3. NoView \in View
  BY DEF NoView, View
<1>4. [uid |-> 0, at |-> "none"] \in [uid : 0..2, at : PodStates]
  BY DEF PodStates
<1>5. TypeOK
  BY <1>1, <1>2, <1>3, <1>4, AttachmentAssumption
  DEF Init, TypeOK, SubnetStates, OwnerStates
<1> QED
  BY <1>5 DEF Init, HistoryInv, Known, FinalizedFirst, LanesKeepHistory, LiveHasUid,
              NoAttachment

\* Steps that leave rows, lanes and fences alone.
LEMMA RowsUntouched ==
  ASSUME HistoryInv, TypeOK', LiveHasUid', UNCHANGED <<att, pc, on, held, prog>>,
         \A a \in Attachments : owner[a] # "none" => owner'[a] # "none"
  PROVE  HistoryInv' /\ Extended
  BY LaterReflexive
  DEF HistoryInv, Known, FinalizedFirst, LanesKeepHistory, Extended, TypeOK, AttachmentRow

\* Prepare, Confirm and Release.
LEMMA OwnerCallsKeepHistory ==
  ASSUME HistoryInv, NEW a \in Attachments,
         PrepareAttachment(a) \/ ConfirmAttachment(a) \/ ReleaseAttachment(a)
  PROVE  HistoryInv' /\ Extended
<1> USE DEF HistoryInv
<1>0. att[a] \in AttachmentRow /\ att[a].state \in AttachmentStates
  BY DEF TypeOK, AttachmentRow
<1>1. CASE PrepareAttachment(a)
  <2>1. [att[a] EXCEPT !.state = "reserved"] \in AttachmentRow
    BY <1>0 DEF AttachmentRow, AttachmentStates
  <2>2. TypeOK'
    BY <1>1, <2>1 DEF PrepareAttachment, TypeOK, OwnerStates
  <2>3. Extended
    BY <1>1, LaterReflexive DEF PrepareAttachment, TypeOK, Extended, AttachmentRow
  <2>4. Known' /\ LanesKeepHistory' /\ LiveHasUid'
    BY <1>1 DEF PrepareAttachment, TypeOK, Known, LanesKeepHistory, LiveHasUid
  <2>5. FinalizedFirst'
    BY <1>1 DEF PrepareAttachment, TypeOK, FinalizedFirst
  <2> QED BY <2>2, <2>3, <2>4, <2>5
<1>2. CASE ConfirmAttachment(a)
  <2>0. pod[a].uid \in 0..2
    BY DEF TypeOK
  <2>1. [att[a] EXCEPT !.pod = pod[a].uid, !.lease = FALSE] \in AttachmentRow
    BY <1>0, <2>0 DEF AttachmentRow
  <2>2. TypeOK'
    BY <1>2, <2>1, BumpFacts DEF ConfirmAttachment, TypeOK
  <2> QED
    BY <1>2, <2>2, BumpFacts, LaterReflexive
    DEF ConfirmAttachment, TypeOK, Known, FinalizedFirst, LanesKeepHistory, LiveHasUid,
        Extended, AttachmentRow
<1>3. CASE ReleaseAttachment(a)
  <2>1. [att[a] EXCEPT !.state = "releasing", !.fin = TRUE, !.lease = FALSE] \in AttachmentRow
    BY <1>0 DEF AttachmentRow, AttachmentStates
  <2>2. TypeOK'
    BY <1>3, <2>1, BumpFacts DEF ReleaseAttachment, TypeOK
  <2>3. att[a].state # "none" => "releasing" \in Later(att[a].state)
    BY <1>0, <1>3 DEF ReleaseAttachment, FinalizedFirst, Later, AttachmentStates
  <2>4. Extended
    BY <1>3, <2>3, LaterReflexive DEF ReleaseAttachment, TypeOK, Extended, AttachmentRow
  <2> QED
    BY <1>3, <2>2, <2>4, BumpFacts
    DEF ReleaseAttachment, TypeOK, Known, FinalizedFirst, LanesKeepHistory, LiveHasUid,
        AttachmentRow
<1> QED BY <1>1, <1>2, <1>3


\* What the owner and the cluster do outside of the rows.
LEMMA OutsideKeepsHistory ==
  ASSUME HistoryInv, NEW a \in Attachments,
         SendPod(a) \/ BeginClosing(a) \/ CloseSubmission(a) \/ ClusterStep(a)
  PROVE  HistoryInv' /\ Extended
<1> USE DEF HistoryInv
<1>0. pod[a] \in [uid : 0..2, at : PodStates]
  BY DEF TypeOK
<1>1. CASE SendPod(a)
  <2>1. [pod[a] EXCEPT !.at = "sent"] \in [uid : 0..2, at : PodStates]
    BY <1>0 DEF PodStates
  <2>2. TypeOK'
    BY <1>1, <2>1 DEF SendPod, TypeOK
  <2>3. LiveHasUid'
    BY <1>1 DEF SendPod, LiveHasUid, TypeOK
  <2> QED BY <1>1, <2>2, <2>3, RowsUntouched DEF SendPod
<1>2. CASE BeginClosing(a) \/ CloseSubmission(a)
  <2>1. TypeOK'
    BY <1>2 DEF BeginClosing, CloseSubmission, TypeOK, OwnerStates
  <2> QED BY <1>2, <2>1, RowsUntouched
         DEF BeginClosing, CloseSubmission, TypeOK, LiveHasUid
<1>3. CASE PodLands(a) \/ DeletePod(a) \/ LatePod(a)
  <2>1. ChangeOf(a) /\ UNCHANGED <<subnet, att, owner, nics, pc, on, answer, prog, held>>
    BY <1>3 DEF PodLands, DeletePod, LatePod
  <2>2. faults' \in 0..MaxFaults
    BY <1>3, FaultsBounded DEF PodLands, DeletePod, LatePod
  <2>3. pod' \in [Attachments -> [uid : 0..2, at : PodStates]]
    <3>1. /\ [uid |-> 1, at |-> "live"] \in [uid : 0..2, at : PodStates]
          /\ [uid |-> 2, at |-> "live"] \in [uid : 0..2, at : PodStates]
          /\ [pod[a] EXCEPT !.at = "gone"] \in [uid : 0..2, at : PodStates]
      BY <1>0 DEF PodStates
    <3> QED BY <1>3, <3>1 DEF PodLands, DeletePod, LatePod, TypeOK
  <2>4. TypeOK'
    BY <2>1, <2>2, <2>3, ChangeType DEF TypeOK
  <2>5. LiveHasUid'
    <3>1. \A b \in Attachments : pod'[b].at = "live" => b # a \/ pod'[b].uid \in {1, 2}
      BY <1>0, <1>3 DEF PodLands, DeletePod, LatePod, TypeOK
    <3>2. \A b \in Attachments : b # a => pod'[b] = pod[b]
      BY <1>3 DEF PodLands, DeletePod, LatePod, TypeOK
    <3> QED BY <3>1, <3>2 DEF LiveHasUid
  <2> QED BY <2>1, <2>4, <2>5, RowsUntouched
<1>4. CASE NicCreated(a) \/ NicRemoved(a)
  <2>1. ChangeOf(a) /\ UNCHANGED <<subnet, att, owner, pod, pc, on, answer, prog, held, faults>>
    BY <1>4 DEF NicCreated, NicRemoved
  <2>2. NicCreated(a) => pod[a].uid \in Pods
    BY <1>0 DEF NicCreated, PodIs, Pods, LiveHasUid
  <2>3. nics' \in [Attachments -> SUBSET Pods]
    BY <1>4, <2>2 DEF NicCreated, NicRemoved, TypeOK
  <2>4. TypeOK'
    BY <2>1, <2>3, ChangeType DEF TypeOK
  <2> QED BY <2>1, <2>4, RowsUntouched DEF LiveHasUid
<1> QED BY <1>1, <1>2, <1>3, <1>4 DEF ClusterStep

\* The removal of the Subnet.
LEMMA SubnetKeepsHistory ==
  ASSUME HistoryInv, DeleteSubnet \/ SubnetRemoved
  PROVE  HistoryInv' /\ Extended
<1>1. TypeOK'
  BY DEF DeleteSubnet, SubnetRemoved, TypeOK, SubnetStates, HistoryInv
<1> QED BY <1>1, RowsUntouched DEF DeleteSubnet, SubnetRemoved, LiveHasUid, HistoryInv

\* What a process collects; a crash ends the steps of its lanes.
LEMMA CollectingKeepsHistory ==
  ASSUME HistoryInv, NEW p \in Processes, ProcessStep(p)
  PROVE  HistoryInv' /\ Extended
<1> USE DEF HistoryInv
<1>0. NoView \in View /\ list \in [Processes -> View] /\ view \in [Processes -> View]
  BY DEF NoView, View, TypeOK
<1>1. CASE ListPods(p)
  <2> DEFINE v == [pod   |-> [a \in Attachments |-> LivePod(a)],
                   nics  |-> [a \in Attachments |-> {}],
                   torn  |-> {a \in Attachments : LivePod(a) \in nics[a]},
                   gen   |-> {a \in Attachments : att[a].state # "none"},
                   after |-> Attachments,
                   since |-> {w \in Workers : pc[w] = "asked"},
                   clean |-> Attachments]
  <2>1. [a \in Attachments |-> LivePod(a)] \in [Attachments -> 0..2]
    BY DEF LivePod, TypeOK
  <2>2. v \in View
    BY <2>1 DEF View
  <2> HIDE DEF v
  <2>3. TypeOK'
    BY <1>1, <2>2 DEF ListPods, TypeOK, v
  <2> QED BY <1>1, <2>3, RowsUntouched DEF ListPods, LiveHasUid
<1>2. CASE ListRelations(p)
  <2> DEFINE t == {a \in list[p].torn : list[p].pod[a] \notin nics[a]}
             v == [list[p] EXCEPT !.nics = nics, !.torn = t]
  <2>1. t \subseteq Attachments
    BY <1>0 DEF View
  <2>2. v \in View
    BY <1>0, <2>1 DEF View, TypeOK
  <2>3. view' = [view EXCEPT ![p] = v] /\ list' = [list EXCEPT ![p] = NoView]
    BY <1>2 DEF ListRelations
  <2> HIDE DEF v
  <2>4. TypeOK'
    BY <1>0, <1>2, <2>2, <2>3 DEF ListRelations, TypeOK
  <2> QED BY <1>2, <2>4, RowsUntouched DEF ListRelations, LiveHasUid
<1>3. CASE CollectionFails(p)
  <2>1. TypeOK'
    BY <1>0, <1>3, FaultsBounded DEF CollectionFails, TypeOK
  <2> QED BY <1>3, <2>1, RowsUntouched DEF CollectionFails, LiveHasUid
<1>4. CASE Crash(p)
  <2>1. NoAnswer \in Submission /\ NoConclusion \in AttachmentProgress
    <3>1. NoAttachment \in AttachmentRow
      BY DEF NoAttachment, AttachmentRow, AttachmentStates
    <3> QED
      BY <3>1, UnchangedFacts DEF NoAnswer, Submission, AnswerStates, NoConclusion
  <2>2. TypeOK'
    <3>1. answer' \in [Workers -> Submission] /\ prog' \in [Workers -> AttachmentProgress]
      BY <1>4, <2>1 DEF Crash, TypeOK
    <3>2. /\ pc' \in [Workers -> {"idle", "claimed", "asked", "finish"}]
          /\ on' \in [Workers -> Attachments \cup {Nowhere}]
          /\ held' \in [Workers -> SUBSET {"version", "epoch"}]
      BY <1>4 DEF Crash, TypeOK
    <3>3. list' \in [Processes -> View] /\ view' \in [Processes -> View]
      BY <1>0, <1>4 DEF Crash
    <3>4. faults' \in 0..MaxFaults
      BY <1>4, FaultsBounded DEF Crash
    <3> QED BY <1>4, <3>1, <3>2, <3>3, <3>4 DEF Crash, TypeOK
  <2>3. Extended
    BY <1>4, LaterReflexive DEF Crash, Extended, TypeOK, AttachmentRow
  <2>4. \A w \in Workers : pc'[w] # "idle" =>
          pc'[w] = pc[w] /\ on'[w] = on[w] /\ held'[w] = held[w] /\ prog'[w] = prog[w]
    BY <1>4 DEF Crash, TypeOK
  <2> QED
    BY <1>4, <2>2, <2>3, <2>4 DEF Crash, Known, FinalizedFirst, LanesKeepHistory, LiveHasUid
<1> QED BY <1>1, <1>2, <1>3, <1>4 DEF ProcessStep


\* Claims, answers, conclusions, completions and leases that run out.
LEMMA LanesKeepTheHistory ==
  ASSUME HistoryInv,
         \/ \E w \in Workers : LaneStep(w)
         \/ \E a \in Attachments : LeaseExpires(a)
  PROVE  HistoryInv' /\ Extended
<1> USE DEF HistoryInv
<1>1. ASSUME NEW w \in Workers, NEW a \in Attachments, ClaimAttachment(w, a)
      PROVE  HistoryInv' /\ Extended
  <2>1. [att[a] EXCEPT !.lease = TRUE] \in AttachmentRow
    <3>1. att[a] \in AttachmentRow
      BY DEF TypeOK
    <3> QED BY <3>1 DEF AttachmentRow
  <2>2. TypeOK'
    BY <1>1, <2>1, BumpFacts DEF ClaimAttachment, TypeOK
  <2>3. Extended
    BY <1>1, LaterReflexive DEF ClaimAttachment, Extended, TypeOK, AttachmentRow
  <2>4. \A b \in Attachments : att'[b].state = att[b].state /\ att'[b].fin = att[b].fin
                               /\ att'[b].rel = att[b].rel
    BY <1>1 DEF ClaimAttachment, TypeOK, AttachmentRow
  <2>5. \A v \in Workers : v # w => held'[v] \subseteq held[v]
    BY <1>1, BumpFacts DEF ClaimAttachment
  <2> QED
    BY <1>1, <2>2, <2>3, <2>4, <2>5
    DEF ClaimAttachment, TypeOK, Known, FinalizedFirst, LanesKeepHistory, LiveHasUid
<1>2. ASSUME NEW w \in Workers, GetSubmission(w)
      PROVE  HistoryInv' /\ Extended
  <2>1. PICK c : Learn(w, c) /\ c \in Submission /\ (Fault \/ UNCHANGED faults) /\ pc[w] = "claimed"
    <3>1. /\ [state |-> owner[on[w]], pods |-> {pod[on[w]].uid} \cap {1}] \in Submission
          /\ NoAnswer \in Submission /\ [state |-> "invalid", pods |-> {}] \in Submission
      BY <1>2 DEF GetSubmission, TypeOK, Known, Submission, AnswerStates, OwnerStates, Pods,
                  NoAnswer
    <3> QED BY <1>2, <3>1 DEF GetSubmission
  <2>2. TypeOK'
    BY <2>1, FaultsBounded DEF Learn, TypeOK
  <2>3. Extended
    BY <2>1, LaterReflexive DEF Learn, Extended, TypeOK, AttachmentRow
  <2> QED
    BY <2>1, <2>2, <2>3
    DEF Learn, TypeOK, Known, FinalizedFirst, LanesKeepHistory, LiveHasUid
<1>3. ASSUME NEW w \in Workers, ObserveAttachment(w) \/ ObserveAttachmentFails(w)
      PROVE  HistoryInv' /\ Extended
  <2>1. on[w] \in Attachments /\ att[on[w]] \in AttachmentRow /\ pc[w] = "asked"
    BY <1>3 DEF ObserveAttachment, ObserveAttachmentFails, Known, TypeOK
  <2>2. PICK p : /\ Conclude(w, p) /\ p \in AttachmentProgress /\ att[on[w]].rel \subseteq p.rel
                 /\ p.state = "released" => p.fin
                 /\ (Fault \/ UNCHANGED faults)
    <3>1. CASE ObserveAttachment(w)
      <4>1. Snapshot(w) \in View
        BY AttachmentAssumption DEF Snapshot, Processes, TypeOK
      <4>2. Seen(w, on[w]) \in SeenObjects
        BY <2>1, <4>1 DEF Seen, SeenObjects, View
      <4>3. att[on[w]].state = "released" => att[on[w]].fin
        BY <2>1 DEF FinalizedFirst
      <4>4. answer[w] \in Submission
        BY DEF TypeOK
      <4> QED BY <2>1, <3>1, <4>2, <4>3, <4>4, ConcludedFacts DEF ObserveAttachment
    <3>2. CASE ObserveAttachmentFails(w)
      BY <2>1, <3>2, UnchangedFacts DEF ObserveAttachmentFails, FinalizedFirst
    <3> QED BY <1>3, <3>1, <3>2
  <2>3. TypeOK'
    <3>1. NoAnswer \in Submission
      BY DEF NoAnswer, Submission, AnswerStates
    <3> QED BY <2>2, <3>1, FaultsBounded, DropType DEF Conclude, TypeOK
  <2>4. Extended
    BY <2>2, LaterReflexive DEF Conclude, Extended, TypeOK, AttachmentRow
  <2> QED
    BY <2>1, <2>2, <2>3, <2>4
    DEF Conclude, TypeOK, Known, FinalizedFirst, LanesKeepHistory, LiveHasUid
<1>4. ASSUME NEW w \in Workers, FinishAttachment(w)
      PROVE  HistoryInv' /\ Extended
  <2>1. /\ on[w] \in Attachments /\ att[on[w]] \in AttachmentRow /\ pc[w] = "finish"
        /\ prog[w] \in AttachmentProgress /\ att[on[w]].state # "none"
    BY <1>4 DEF FinishAttachment, Known, TypeOK
  <2>2. NoAnswer \in Submission /\ NoConclusion \in AttachmentProgress
    <3>1. NoAttachment \in AttachmentRow
      BY DEF NoAttachment, AttachmentRow, AttachmentStates
    <3> QED
      BY <3>1, UnchangedFacts DEF NoAnswer, Submission, AnswerStates, NoConclusion
  <2>3. /\ pc' = [pc EXCEPT ![w] = "idle"] /\ answer' \in [Workers -> Submission]
        /\ prog' = [prog EXCEPT ![w] = NoConclusion] /\ on' = [on EXCEPT ![w] = Nowhere]
        /\ UNCHANGED <<subnet, owner, pod, nics, faults>>
    BY <1>4, <2>2 DEF FinishAttachment, StepEnds, TypeOK
  <2>4. CASE Accepted(w)
    <3> DEFINE new == FinishedAttachment(att[on[w]], prog[w])
    <3>1. att' = [att EXCEPT ![on[w]] = new] /\ held' = [Bump(on[w], {"version"}) EXCEPT ![w] = {}]
      BY <1>4, <2>4 DEF FinishAttachment
    <3>2. list' \in [Processes -> View] /\ view' \in [Processes -> View]
      BY <1>4, <2>4, DropType DEF FinishAttachment, TypeOK
    <3>3. /\ new \in AttachmentRow /\ new.state = prog[w].state /\ new.pod = prog[w].pod
          /\ new.rel = prog[w].rel
      <4>1. (att[on[w]].blocked \/ prog[w].blocked) \in BOOLEAN
        OBVIOUS
      <4>2. (IF prog[w].evidence = {} THEN att[on[w]].evidence ELSE prog[w].evidence)
              \subseteq Evidence
        BY <2>1 DEF AttachmentRow, AttachmentProgress
      <4> QED BY <2>1, <4>1, <4>2 DEF FinishedAttachment, AttachmentRow, AttachmentProgress
    <3>4. (new.fin <=> prog[w].fin) /\ (att[on[w]].blocked => new.blocked)
      BY DEF FinishedAttachment
    <3>5. /\ new.state \in Later(att[on[w]].state) /\ att[on[w]].pod \in {0, new.pod}
          /\ att[on[w]].fin => new.fin
          /\ att[on[w]].rel \subseteq new.rel
      BY <2>1, <2>4, <3>3, <3>4 DEF Accepted, MayFinishAttachment, LanesKeepHistory
    <3>6. new.state # "none"
      BY <2>1, <3>5 DEF Later, AttachmentRow, AttachmentStates
    <3>7. new.state = "released" => new.fin
      BY <2>1, <3>3, <3>4 DEF FinalizedFirst
    <3> HIDE DEF new
    <3>8. TypeOK'
      BY <2>1, <2>2, <2>3, <3>1, <3>2, <3>3, BumpFacts DEF TypeOK
    <3>9. Extended
      BY <2>1, <3>1, <3>4, <3>5, LaterReflexive DEF Extended, TypeOK, AttachmentRow
    <3>10. \A v \in Workers : v # w =>
             held'[v] \subseteq held[v] /\ ("version" \in held'[v] => on[v] # on[w])
      BY <3>1, BumpFacts
    <3>11. Known' /\ LiveHasUid'
      BY <2>1, <2>3, <3>1, <3>6 DEF TypeOK, Known, LiveHasUid
    <3>12. FinalizedFirst'
      BY <2>1, <2>3, <3>1, <3>7 DEF TypeOK, FinalizedFirst
    <3>13. LanesKeepHistory'
      BY <2>1, <2>3, <3>1, <3>10 DEF TypeOK, LanesKeepHistory
    <3> QED BY <3>8, <3>9, <3>11, <3>12, <3>13
  <2>5. CASE ~Accepted(w)
    <3>1. held' = [held EXCEPT ![w] = {}] /\ UNCHANGED <<att, list, view>>
      BY <1>4, <2>5 DEF FinishAttachment
    <3>2. TypeOK'
      BY <2>2, <2>3, <3>1 DEF TypeOK
    <3>3. Extended
      BY <3>1, LaterReflexive DEF Extended, TypeOK, AttachmentRow
    <3> QED
      BY <2>3, <3>1, <3>2, <3>3
      DEF TypeOK, Known, FinalizedFirst, LanesKeepHistory, LiveHasUid
  <2> QED BY <2>4, <2>5
<1>5. ASSUME NEW a \in Attachments, LeaseExpires(a)
      PROVE  HistoryInv' /\ Extended
  <2>1. [att[a] EXCEPT !.lease = FALSE] \in AttachmentRow
    <3>1. att[a] \in AttachmentRow
      BY DEF TypeOK
    <3> QED BY <3>1 DEF AttachmentRow
  <2>2. TypeOK'
    BY <1>5, <2>1, FaultsBounded DEF LeaseExpires, TypeOK
  <2>3. Extended
    BY <1>5, LaterReflexive DEF LeaseExpires, Extended, TypeOK, AttachmentRow
  <2>4. \A b \in Attachments : att'[b].state = att[b].state /\ att'[b].fin = att[b].fin
                               /\ att'[b].rel = att[b].rel
    BY <1>5 DEF LeaseExpires, TypeOK, AttachmentRow
  <2> QED
    BY <1>5, <2>2, <2>3, <2>4
    DEF LeaseExpires, TypeOK, Known, FinalizedFirst, LanesKeepHistory, LiveHasUid
<1> QED BY <1>1, <1>2, <1>3, <1>4, <1>5 DEF LaneStep


\* Any step.
LEMMA HistoryNext ==
  ASSUME HistoryInv, [Next]_vars
  PROVE  HistoryInv' /\ Extended
<1>1. CASE UNCHANGED vars
  <2>1. TypeOK' /\ LiveHasUid'
    BY <1>1 DEF vars, HistoryInv, TypeOK, LiveHasUid
  <2> QED BY <1>1, <2>1, RowsUntouched DEF vars
<1>2. CASE Next
  BY <1>2, OwnerCallsKeepHistory, OutsideKeepsHistory, SubnetKeepsHistory,
     CollectingKeepsHistory, LanesKeepTheHistory DEF Next
<1> QED BY <1>1, <1>2

\* Every reachable state is well typed, every lane works on an attachment its
\* owner knows, and what a lane that holds the version of FinishAttachment is
\* about to record forgets no witnessed interface.
THEOREM HistoryInvariant == Spec => []HistoryInv
<1>1. HistoryInv /\ [Next]_vars => HistoryInv'
  BY HistoryNext
<1> QED BY <1>1, HistoryInit, PTL DEF Spec

\* FinishAttachment, ConfirmAttachment and ReleaseAttachment, in any order and
\* from any lane, never revive a released attachment, exchange the recorded
\* Pod, forget a witnessed interface or lift a protocol block.
THEOREM HistoryIsKept == Spec => AttachmentHistory
<1>1. HistoryInv /\ [Next]_vars =>
        [\A a \in Attachments :
           /\ att[a].state # "none" => att'[a].state \in Later(att[a].state)
           /\ att[a].pod # 0 => att'[a].pod = att[a].pod
           /\ att[a].rel \subseteq att'[a].rel
           /\ att[a].blocked => att'[a].blocked
           /\ att[a].fin => att'[a].fin]_vars
  BY HistoryNext DEF Extended
<1> QED BY <1>1, HistoryInvariant, PTL DEF Spec, AttachmentHistory


-----------------------------------------------------------------------------
(***************************************************************************)
(* What a release means, with an honest owner.                             *)
(***************************************************************************)
\* What Drop leaves alone.
LEMMA DropFields ==
  ASSUME NEW views \in [Processes -> View], NEW x, NEW p \in Processes
  PROVE  /\ Drop(views, x, "since")[p].since = views[p].since \ {x}
         /\ Drop(views, x, "since")[p].nics = views[p].nics
         /\ Drop(views, x, "after")[p].nics = views[p].nics
         /\ Drop(views, x, "after")[p].since = views[p].since
         /\ Drop(views, x, "clean")[p].nics = views[p].nics
         /\ Drop(views, x, "clean")[p].since = views[p].since
  BY DEF Drop, View

\* The collections say what they said, to whom they said it.
SameViews ==
  \A p \in Processes : /\ list'[p].since = list[p].since /\ view'[p].since = view[p].since
                       /\ view'[p].nics = view[p].nics

LEMMA ChangeKeepsViews ==
  ASSUME TypeOK, NEW a, ChangeOf(a)
  PROVE  SameViews
  BY DropFields DEF ChangeOf, TypeOK, SameViews

\* What is closed stays closed, and its interfaces only go.
ClosedIsStable ==
  \A a \in Attachments :
    owner[a] = "closed" => /\ owner'[a] = "closed" /\ pod'[a].uid = pod[a].uid
                           /\ nics'[a] \subseteq nics[a]

\* No step of a lane: what the lanes rely on stays true.
LEMMA Steady ==
  ASSUME ReleaseInv, HistoryInv', OnePod', OneHolder', UNCHANGED <<pc, on, answer, prog>>,
         SameViews, ClosedIsStable,
         \A a \in Attachments : att'[a].state = "released" => att[a].state = "released"
  PROVE  ReleaseInv'
<1> USE DEF ReleaseInv
<1>1. \A w \in Workers : ProcessOf[w] \in Processes
  BY DEF Processes
<1>2. \A w \in Workers : pc[w] # "idle" => on[w] \in Attachments
  BY DEF HistoryInv, Known
<1>3. AnswersStayTrue'
  BY <1>2 DEF AnswersStayTrue, ClosedIsStable
<1>4. FreshIsComplete'
  <2> SUFFICES ASSUME NEW w \in Workers
               PROVE  /\ w \in list'[ProcessOf[w]].since \cup view'[ProcessOf[w]].since
                           => pc'[w] = "asked"
                      /\ w \in view'[ProcessOf[w]].since /\ answer'[w].state = "closed" =>
                           nics'[on'[w]] \subseteq view'[ProcessOf[w]].nics[on'[w]]
    BY DEF FreshIsComplete
  <2>1. w \in view[ProcessOf[w]].since /\ answer[w].state = "closed" =>
          on[w] \in Attachments /\ owner[on[w]] = "closed"
    BY <1>2 DEF FreshIsComplete, AnswersStayTrue
  <2> QED BY <1>1, <2>1 DEF FreshIsComplete, SameViews, ClosedIsStable
<1>5. ReleasesAreTrue'
  BY <1>2 DEF ReleasesAreTrue, ClosedIsStable, Closed
<1> QED BY <1>3, <1>4, <1>5

LEMMA ReleaseInit == Init => ReleaseInv
<1> SUFFICES ASSUME Init PROVE ReleaseInv
  OBVIOUS
<1>1. HistoryInv
  BY HistoryInit
<1>2. OnePod /\ OneHolder /\ AnswersStayTrue /\ ReleasesAreTrue
  BY DEF Init, OnePod, OneHolder, Holding, AnswersStayTrue, ReleasesAreTrue, NoAttachment
<1>3. FreshIsComplete
  BY DEF Init, FreshIsComplete, NoView, Processes
<1> QED BY <1>1, <1>2, <1>3 DEF ReleaseInv

\* Prepare, Confirm, Release and leases that run out.
LEMMA RowsKeepRelease ==
  ASSUME ReleaseInv, HistoryInv', NEW a \in Attachments,
         \/ PrepareAttachment(a) \/ ConfirmAttachment(a) \/ ReleaseAttachment(a)
         \/ LeaseExpires(a)
  PROVE  ReleaseInv'
<1> USE DEF ReleaseInv
<1>0. TypeOK /\ att[a] \in AttachmentRow
  BY DEF HistoryInv, TypeOK
<1>1. UNCHANGED <<pc, on, answer, prog, list, view, pod, nics, subnet>>
  BY DEF PrepareAttachment, ConfirmAttachment, ReleaseAttachment, LeaseExpires
<1>2. SameViews
  BY <1>1 DEF SameViews
<1>3. CASE PrepareAttachment(a)
  <2>1. owner[a] = "none" /\ \A b \in Attachments : ~Holding(b)
    BY <1>3 DEF PrepareAttachment, OneHolder, Occupying, Holding
  <2>2. ClosedIsStable /\ OnePod'
    BY <1>0, <1>1, <1>3, <2>1 DEF PrepareAttachment, ClosedIsStable, OnePod, TypeOK
  <2>3. /\ \A b \in Attachments : b # a => att'[b] = att[b] /\ owner'[b] = owner[b]
        /\ att'[a].state = "reserved" /\ subnet = "available"
    BY <1>0, <1>3 DEF PrepareAttachment, TypeOK, AttachmentRow
  <2>4. OneHolder'
    BY <1>1, <2>1, <2>3 DEF OneHolder, Holding
  <2> QED BY <1>1, <1>2, <2>2, <2>3, <2>4, Steady
<1>4. CASE ConfirmAttachment(a) \/ LeaseExpires(a)
  <2>1. (\A b \in Attachments : att'[b].state = att[b].state) /\ owner' = owner
    <3>1. CASE ConfirmAttachment(a)
      BY <1>0, <3>1 DEF ConfirmAttachment, TypeOK, AttachmentRow
    <3>2. CASE LeaseExpires(a)
      BY <1>0, <3>2 DEF LeaseExpires, TypeOK, AttachmentRow
    <3> QED BY <1>4, <3>1, <3>2
  <2>2. ClosedIsStable /\ OnePod' /\ OneHolder'
    BY <1>1, <2>1 DEF ClosedIsStable, OnePod, OneHolder, Holding
  <2> QED BY <1>1, <1>2, <2>1, <2>2, Steady
<1>5. CASE ReleaseAttachment(a)
  <2>1. Holding(a) /\ owner' = owner
    BY <1>5 DEF ReleaseAttachment, Holding, HistoryInv, FinalizedFirst, OneHolder
  <2>2. (\A b \in Attachments : b # a => att'[b] = att[b]) /\ att'[a].state = "releasing"
    BY <1>0, <1>5 DEF ReleaseAttachment, TypeOK, AttachmentRow
  <2>3. ClosedIsStable /\ OnePod' /\ OneHolder'
    BY <1>1, <2>1, <2>2 DEF ClosedIsStable, OnePod, OneHolder, Holding
  <2> QED BY <1>1, <1>2, <2>2, <2>3, Steady
<1> QED BY <1>3, <1>4, <1>5

\* An honest owner and the cluster.
LEMMA OutsideKeepsRelease ==
  ASSUME ~OwnerErrs, ReleaseInv, HistoryInv', NEW a \in Attachments,
         SendPod(a) \/ BeginClosing(a) \/ CloseSubmission(a) \/ ClusterStep(a)
  PROVE  ReleaseInv'
<1> USE DEF ReleaseInv
<1>0. TypeOK /\ pod[a] \in [uid : 0..2, at : PodStates]
  BY DEF HistoryInv, TypeOK
<1>1. /\ UNCHANGED <<att, subnet, pc, on, answer, prog>>
      /\ ChangeOf(a) \/ UNCHANGED <<list, view>>
  BY DEF SendPod, BeginClosing, CloseSubmission, ClusterStep, PodLands, DeletePod, LatePod,
         NicCreated, NicRemoved
<1>2. SameViews
  BY <1>0, <1>1, ChangeKeepsViews DEF SameViews
<1>3. CASE SendPod(a) \/ PodLands(a) \/ DeletePod(a)
  <2>1. /\ UNCHANGED <<owner, nics>> /\ owner[a] \notin {"none", "closed"}
        /\ \A b \in Attachments : b # a => pod'[b] = pod[b]
    BY <1>0, <1>3 DEF SendPod, PodLands, DeletePod, TypeOK, OnePod, PodIs
  <2>2. /\ pod'[a].uid \in {0, 1}
        /\ pod'[a].at \in {"none", "sent"} => pod'[a].uid = 0
        /\ pod'[a].at = "live" => pod'[a].uid = 1
        /\ nics[a] # {} => nics[a] = {1} /\ pod'[a].uid = 1
    BY <1>0, <1>3 DEF SendPod, PodLands, DeletePod, TypeOK, OnePod, PodIs
  <2>3. ClosedIsStable /\ OnePod' /\ OneHolder'
    BY <1>1, <2>1, <2>2 DEF ClosedIsStable, OnePod, OneHolder, Holding
  <2> QED BY <1>1, <1>2, <2>3, Steady
<1>4. CASE BeginClosing(a) \/ CloseSubmission(a)
  <2>1. /\ UNCHANGED <<pod, nics>> /\ owner[a] \notin {"none", "closed"}
        /\ \A b \in Attachments : b # a => owner'[b] = owner[b]
        /\ owner'[a] # "none"
        /\ owner'[a] = "closed" => pod[a].at \in {"none", "gone"}
    BY <1>0, <1>4 DEF BeginClosing, CloseSubmission, TypeOK
  <2>2. ClosedIsStable /\ OnePod' /\ OneHolder'
    BY <1>1, <2>1 DEF ClosedIsStable, OnePod, OneHolder, Holding
  <2> QED BY <1>1, <1>2, <2>2, Steady
<1>5. CASE NicCreated(a)
  <2>1. /\ UNCHANGED <<owner, pod>> /\ owner[a] # "closed" /\ pod[a].uid = 1 /\ nics'[a] = {1}
        /\ \A b \in Attachments : b # a => nics'[b] = nics[b]
    BY <1>0, <1>5 DEF NicCreated, OnePod, PodIs, TypeOK
  <2>2. ClosedIsStable /\ OnePod' /\ OneHolder'
    BY <1>1, <2>1 DEF ClosedIsStable, OnePod, OneHolder, Holding
  <2> QED BY <1>1, <1>2, <2>2, Steady
<1>6. CASE NicRemoved(a)
  <2>1. /\ UNCHANGED <<owner, pod>> /\ \A b \in Attachments : nics'[b] \subseteq nics[b]
    BY <1>0, <1>6 DEF NicRemoved, TypeOK
  <2>2. ClosedIsStable /\ OnePod' /\ OneHolder'
    BY <1>1, <2>1 DEF ClosedIsStable, OnePod, OneHolder, Holding
  <2> QED BY <1>1, <1>2, <2>2, Steady
<1>7. ~LatePod(a)
  BY DEF LatePod
<1> QED BY <1>3, <1>4, <1>5, <1>6, <1>7 DEF ClusterStep

\* The removal of the Subnet.
LEMMA SubnetKeepsRelease ==
  ASSUME ReleaseInv, HistoryInv', DeleteSubnet \/ SubnetRemoved
  PROVE  ReleaseInv'
<1>1. /\ UNCHANGED <<att, owner, pod, nics, pc, on, answer, prog, list, view>>
      /\ \A a \in Attachments : ~Holding(a)
  BY DEF DeleteSubnet, SubnetRemoved, Occupying, Holding
<1>2. SameViews /\ ClosedIsStable /\ OnePod' /\ OneHolder'
  BY <1>1 DEF ReleaseInv, SameViews, ClosedIsStable, OnePod, OneHolder, Holding
<1> QED BY <1>1, <1>2, Steady


\* A collection is fresh for the lanes that had their answer when it started.
LEMMA CollectingKeepsRelease ==
  ASSUME ReleaseInv, HistoryInv', NEW p \in Processes, ProcessStep(p)
  PROVE  ReleaseInv'
<1> USE DEF ReleaseInv
<1>0. TypeOK /\ list[p] \in View /\ view[p] \in View /\ NoView.since = {}
  BY DEF HistoryInv, TypeOK, NoView
<1>1. UNCHANGED <<att, owner, pod, nics, subnet>>
  BY DEF ProcessStep, ListPods, ListRelations, CollectionFails, Crash
<1>2. OnePod' /\ OneHolder'
  BY <1>1 DEF OnePod, OneHolder, Holding
<1>3. \A w \in Workers : ProcessOf[w] \in Processes
  BY DEF Processes
<1>4. CASE ListPods(p) \/ ListRelations(p) \/ CollectionFails(p)
  <2>1. UNCHANGED <<pc, on, answer, prog>>
    BY <1>4 DEF ListPods, ListRelations, CollectionFails
  <2>2. AnswersStayTrue' /\ ReleasesAreTrue'
    BY <1>1, <2>1 DEF AnswersStayTrue, ReleasesAreTrue, Closed
  <2>3. \A q \in Processes : q # p => list'[q] = list[q] /\ view'[q] = view[q]
    BY <1>0, <1>4 DEF ListPods, ListRelations, CollectionFails, TypeOK
  <2>4. CASE ListPods(p)
    <3>1. list'[p].since = {w \in Workers : pc[w] = "asked"} /\ view' = view
      BY <1>0, <2>4 DEF ListPods, TypeOK
    <3>2. FreshIsComplete'
      BY <1>1, <1>3, <2>1, <2>3, <3>1 DEF FreshIsComplete
    <3> QED BY <1>2, <2>2, <3>2
  <2>5. CASE ListRelations(p)
    <3>1. list'[p].since = {} /\ view'[p].since = list[p].since /\ view'[p].nics = nics
      BY <1>0, <2>5 DEF ListRelations, TypeOK, View
    <3>2. FreshIsComplete'
      BY <1>1, <1>3, <2>1, <2>3, <3>1 DEF FreshIsComplete
    <3> QED BY <1>2, <2>2, <3>2
  <2>6. CASE CollectionFails(p)
    <3>1. list'[p].since = {} /\ view' = view
      BY <1>0, <2>6 DEF CollectionFails, TypeOK
    <3>2. FreshIsComplete'
      BY <1>1, <1>3, <2>1, <2>3, <3>1 DEF FreshIsComplete
    <3> QED BY <1>2, <2>2, <3>2
  <2> QED BY <1>4, <2>4, <2>5, <2>6
<1>5. CASE Crash(p)
  <2>1. \A w \in Workers : ProcessOf[w] # p =>
          /\ pc'[w] = pc[w] /\ on'[w] = on[w] /\ answer'[w] = answer[w] /\ prog'[w] = prog[w]
          /\ list'[ProcessOf[w]] = list[ProcessOf[w]]
          /\ view'[ProcessOf[w]] = view[ProcessOf[w]]
    BY <1>0, <1>3, <1>5 DEF Crash, TypeOK
  <2>2. /\ \A w \in Workers : ProcessOf[w] = p => pc'[w] = "idle"
        /\ list'[p].since = {} /\ view'[p].since = {}
    BY <1>0, <1>5 DEF Crash, TypeOK
  <2>3. AnswersStayTrue' /\ ReleasesAreTrue'
    BY <1>1, <2>1, <2>2 DEF AnswersStayTrue, ReleasesAreTrue, Closed
  <2>4. FreshIsComplete'
    BY <1>1, <2>1, <2>2 DEF FreshIsComplete
  <2> QED BY <1>2, <2>3, <2>4
<1> QED BY <1>4, <1>5 DEF ProcessStep

\* The heart of the matter: a lane that concludes a release from a collection
\* that is fresh enough is right.
LEMMA ConclusionIsTrue ==
  ASSUME ReleaseInv, NEW w \in Workers, ObserveAttachment(w),
         Concluded(att[on[w]], answer[w], Seen(w, on[w])).state = "released"
  PROVE  Closed(on[w])
<1> USE DEF ReleaseInv
<1>1. /\ on[w] \in Attachments /\ att[on[w]] \in AttachmentRow /\ pc[w] = "asked"
      /\ answer[w] \in Submission /\ Snapshot(w) \in View
      /\ att[on[w]].state = "released" => att[on[w]].fin
  BY DEF ObserveAttachment, HistoryInv, Known, TypeOK, Snapshot, Processes, FinalizedFirst
<1>2. CASE att[on[w]].state = "released"
  BY <1>1, <1>2 DEF ReleasesAreTrue
<1>3. CASE att[on[w]].state # "released"
  <2>1. Seen(w, on[w]) \in SeenObjects
    BY <1>1 DEF Seen, SeenObjects, View
  <2>2. answer[w].state = "closed" /\ Candidates(att[on[w]], answer[w], Seen(w, on[w])) = {}
    BY <1>1, <1>3, <2>1, ConcludedFacts
  <2>3. w \in view[ProcessOf[w]].since
    BY <1>1, <1>3, <2>2 DEF ObserveAttachment, NeedsFresh, Snapshot
  <2>4. nics[on[w]] \subseteq Seen(w, on[w]).nics
    BY <2>2, <2>3 DEF FreshIsComplete, Seen, Snapshot
  <2>5. owner[on[w]] = "closed" /\ answer[w].pods = {pod[on[w]].uid} \cap {1}
    BY <1>1, <2>2 DEF AnswersStayTrue
  <2>6. nics[on[w]] # {} => 1 \in Candidates(att[on[w]], answer[w], Seen(w, on[w]))
    BY <1>1, <2>2, <2>4, <2>5 DEF OnePod, Candidates, KnownPods, Reported
  <2> QED BY <2>2, <2>5, <2>6 DEF Closed
<1> QED BY <1>2, <1>3

\* The steps of a lane.
LEMMA LanesKeepRelease ==
  ASSUME ReleaseInv, HistoryInv', NEW w \in Workers, LaneStep(w)
  PROVE  ReleaseInv'
<1> USE DEF ReleaseInv
<1>0. TypeOK /\ \A v \in Workers : ProcessOf[v] \in Processes
  BY DEF HistoryInv, Processes
<1>1. UNCHANGED <<owner, pod, nics, subnet>>
  BY DEF LaneStep, ClaimAttachment, GetSubmission, Learn, ObserveAttachment,
         ObserveAttachmentFails, Conclude, FinishAttachment
<1>2. OnePod'
  BY <1>1 DEF OnePod
<1>3. ASSUME NEW a \in Attachments, ClaimAttachment(w, a)
      PROVE  ReleaseInv'
  <2>1. /\ \A b \in Attachments : att'[b].state = att[b].state
        /\ \A v \in Workers : v # w => pc'[v] = pc[v] /\ on'[v] = on[v]
        /\ pc[w] = "idle" /\ pc'[w] = "claimed" /\ UNCHANGED <<answer, prog, list, view>>
    BY <1>0, <1>3 DEF ClaimAttachment, TypeOK, AttachmentRow
  <2>2. OneHolder' /\ AnswersStayTrue' /\ ReleasesAreTrue'
    BY <1>1, <2>1 DEF OneHolder, Holding, AnswersStayTrue, ReleasesAreTrue, Closed
  <2>3. FreshIsComplete'
    BY <1>1, <2>1 DEF FreshIsComplete
  <2> QED BY <1>2, <2>2, <2>3
<1>4. CASE GetSubmission(w)
  <2>1. PICK c : /\ Learn(w, c) /\ pc[w] = "claimed"
                 /\ c.state = "closed" => /\ owner[on[w]] = "closed"
                                          /\ c.pods = {pod[on[w]].uid} \cap {1}
    BY <1>4 DEF GetSubmission, NoAnswer
  <2>2. /\ \A v \in Workers : v # w => pc'[v] = pc[v] /\ answer'[v] = answer[v]
        /\ pc'[w] = "asked" /\ answer'[w] = c /\ UNCHANGED <<att, on, prog, list, view>>
    BY <1>0, <2>1 DEF Learn, TypeOK
  <2>3. OneHolder'
    BY <1>1, <2>2 DEF OneHolder, Holding
  <2>4. AnswersStayTrue'
    BY <1>1, <2>1, <2>2 DEF AnswersStayTrue
  <2>5. ReleasesAreTrue'
    BY <1>1, <2>2 DEF ReleasesAreTrue, Closed
  <2>6. FreshIsComplete'
    BY <1>1, <2>1, <2>2 DEF FreshIsComplete
  <2> QED BY <1>2, <2>3, <2>4, <2>5, <2>6
<1>5. CASE ObserveAttachment(w) \/ ObserveAttachmentFails(w)
  <2>0. on[w] \in Attachments /\ pc[w] = "asked"
    BY <1>5 DEF HistoryInv, Known, ObserveAttachment, ObserveAttachmentFails
  <2>1. PICK p : Conclude(w, p) /\ (p.state = "released" => Closed(on[w]))
    <3>1. CASE ObserveAttachment(w)
      BY <3>1, ConclusionIsTrue DEF ObserveAttachment
    <3>2. CASE ObserveAttachmentFails(w)
      BY <1>0, <2>0, <3>2, UnchangedFacts DEF ObserveAttachmentFails, ReleasesAreTrue, TypeOK
    <3> QED BY <1>5, <3>1, <3>2
  <2>2. /\ \A v \in Workers : v # w => /\ pc'[v] = pc[v] /\ answer'[v] = answer[v]
                                       /\ prog'[v] = prog[v]
        /\ pc'[w] = "finish" /\ prog'[w] = p /\ UNCHANGED <<att, on>>
    BY <1>0, <2>1 DEF Conclude, TypeOK
  <2>3. \A q \in Processes : /\ list'[q].since = list[q].since \ {w}
                             /\ view'[q].since = view[q].since \ {w}
                             /\ view'[q].nics = view[q].nics
    BY <1>0, <2>1, DropFields DEF Conclude, TypeOK
  <2>4. OneHolder' /\ AnswersStayTrue' /\ ReleasesAreTrue'
    BY <1>1, <2>1, <2>2 DEF OneHolder, Holding, AnswersStayTrue, ReleasesAreTrue, Closed
  <2>5. FreshIsComplete'
    <3> SUFFICES ASSUME NEW v \in Workers
                 PROVE  /\ v \in list'[ProcessOf[v]].since \cup view'[ProcessOf[v]].since
                             => pc'[v] = "asked"
                        /\ v \in view'[ProcessOf[v]].since /\ answer'[v].state = "closed" =>
                             nics'[on'[v]] \subseteq view'[ProcessOf[v]].nics[on'[v]]
      BY DEF FreshIsComplete
    <3>1. CASE v = w
      BY <1>0, <2>3, <3>1
    <3>2. CASE v # w
      <4>1. /\ v \in list[ProcessOf[v]].since \cup view[ProcessOf[v]].since => pc[v] = "asked"
            /\ v \in view[ProcessOf[v]].since /\ answer[v].state = "closed" =>
                 nics[on[v]] \subseteq view[ProcessOf[v]].nics[on[v]]
        BY DEF FreshIsComplete
      <4>2. ProcessOf[v] \in Processes
        BY <1>0
      <4>3. /\ v \in list'[ProcessOf[v]].since => v \in list[ProcessOf[v]].since
            /\ v \in view'[ProcessOf[v]].since => v \in view[ProcessOf[v]].since
            /\ view'[ProcessOf[v]].nics = view[ProcessOf[v]].nics
        BY <2>3, <4>2
      <4> QED BY <1>1, <2>2, <3>2, <4>1, <4>3
    <3> QED BY <3>1, <3>2
  <2> QED BY <1>2, <2>4, <2>5
<1>6. CASE FinishAttachment(w)
  <2>0. /\ on[w] \in Attachments /\ pc[w] = "finish" /\ att[on[w]] \in AttachmentRow
        /\ att[on[w]].state # "none"
    BY <1>6 DEF HistoryInv, Known, FinishAttachment, TypeOK
  <2>1. /\ \A v \in Workers : v # w => /\ pc'[v] = pc[v] /\ answer'[v] = answer[v]
                                       /\ prog'[v] = prog[v] /\ on'[v] = on[v]
        /\ pc'[w] = "idle"
    BY <1>0, <1>6 DEF FinishAttachment, StepEnds, TypeOK
  <2>2. SameViews
    BY <1>0, <1>6, DropFields DEF FinishAttachment, SameViews, TypeOK
  <2>3. /\ \A b \in Attachments : b # on[w] => att'[b] = att[b]
        /\ \/ att'[on[w]] = att[on[w]]
           \/ att'[on[w]].state = prog[w].state /\ prog[w].state \in Later(att[on[w]].state)
    BY <1>0, <1>6, <2>0
    DEF FinishAttachment, Accepted, MayFinishAttachment, FinishedAttachment, TypeOK
  <2>4. /\ att'[on[w]].state \notin {"none", "released"} => Holding(on[w])
        /\ att'[on[w]].state # "none"
    <3>1. att[on[w]].state = "released" => Later(att[on[w]].state) = {"released"}
      BY DEF Later
    <3>2. "none" \notin Later(att[on[w]].state)
      BY <2>0 DEF Later, AttachmentRow, AttachmentStates
    <3>3. att'[on[w]].state \notin {"none", "released"} => Holding(on[w])
      BY <2>0, <2>3, <3>1 DEF Holding
    <3>4. att'[on[w]].state # "none"
      BY <2>0, <2>3, <3>2
    <3> QED BY <3>3, <3>4
  <2>5. OneHolder'
    <3>1. \A a \in Attachments : att'[a].state \notin {"none", "released"} => Holding(a)
      BY <2>3, <2>4 DEF Holding
    <3>2. \A a \in Attachments : att'[a].state = "none" => att[a].state = "none"
      BY <2>3, <2>4
    <3> QED BY <1>1, <3>1, <3>2 DEF OneHolder, Holding
  <2>6. AnswersStayTrue' /\ ReleasesAreTrue'
    BY <1>1, <2>0, <2>1, <2>3 DEF AnswersStayTrue, ReleasesAreTrue, Closed
  <2>7. FreshIsComplete'
    BY <1>0, <1>1, <2>0, <2>1, <2>2 DEF FreshIsComplete, SameViews
  <2> QED BY <1>2, <2>5, <2>6, <2>7
<1> QED BY <1>3, <1>4, <1>5, <1>6 DEF LaneStep


\* Any step.
LEMMA ReleaseNext ==
  ASSUME ~OwnerErrs, ReleaseInv, [Next]_vars
  PROVE  ReleaseInv'
<1>0. HistoryInv'
  BY HistoryNext DEF ReleaseInv
<1>1. CASE UNCHANGED vars
  <2>1. OnePod' /\ OneHolder' /\ SameViews /\ ClosedIsStable
    BY <1>1 DEF vars, ReleaseInv, OnePod, OneHolder, Holding, SameViews, ClosedIsStable
  <2> QED BY <1>0, <1>1, <2>1, Steady DEF vars
<1>2. CASE Next
  BY <1>0, <1>2, RowsKeepRelease, OutsideKeepsRelease, SubnetKeepsRelease,
     CollectingKeepsRelease, LanesKeepRelease DEF Next
<1> QED BY <1>1, <1>2

\* With an owner that keeps its side of the protocol, whatever lags, fails or
\* crashes: a lane that is about to record a release, and a row that records
\* one, belong to a submission that is closed and left no interface behind.
THEOREM ReleaseInvariant == ~OwnerErrs => (Spec => []ReleaseInv)
<1> SUFFICES ASSUME ~OwnerErrs PROVE Spec => []ReleaseInv
  OBVIOUS
<1>1. ReleaseInv /\ [Next]_vars => ReleaseInv'
  BY ReleaseNext
<1> QED BY <1>1, ReleaseInit, PTL DEF Spec

\* A Pod or an interface that exists is held by its attachment.
LEMMA InUseIsHeld ==
  ASSUME ReleaseInv, NEW a \in Attachments, InUse(a)
  PROVE  Holding(a)
<1>1. owner[a] \notin {"none", "closed"} \/ (owner[a] = "closed" /\ nics[a] # {})
  <2>1. owner[a] = "none" => pod[a].at = "none" /\ nics[a] = {}
    BY DEF ReleaseInv, OnePod
  <2> QED BY <2>1 DEF InUse, PodIs, ReleaseInv, OnePod
<1> QED BY <1>1 DEF Holding, ReleaseInv, OneHolder, ReleasesAreTrue, Closed

\* AttachmentWorker.Step releases an attachment only when the Pod its owner
\* accounts for and every interface of that Pod are gone.
THEOREM ReleasedIsGone == ~OwnerErrs => (Spec => []ReleasedMeansGone)
<1> SUFFICES ASSUME ~OwnerErrs PROVE Spec => []ReleasedMeansGone
  OBVIOUS
<1>1. ReleaseInv => ReleasedMeansGone
  BY InUseIsHeld DEF ReleasedMeansGone, Holding
<1>2. Spec => []ReleaseInv
  BY ReleaseInvariant
<1> QED BY <1>1, <1>2, PTL

\* HasAttachmentSlot: an instance slot is handed to the next attachment only
\* when nothing of the previous one can still use the network.
THEOREM SlotIsExclusive == ~OwnerErrs => (Spec => []SlotExclusive)
<1> SUFFICES ASSUME ~OwnerErrs PROVE Spec => []SlotExclusive
  OBVIOUS
<1>1. ReleaseInv => SlotExclusive
  BY InUseIsHeld DEF SlotExclusive, ReleaseInv, OneHolder
<1>2. Spec => []ReleaseInv
  BY ReleaseInvariant
<1> QED BY <1>1, <1>2, PTL

\* DeleteSubnet: once the removal of the Subnet is admitted, no Pod of it runs,
\* is on its way or has an interface.
THEOREM RemovedSubnetIsEmpty == ~OwnerErrs => (Spec => []RemovalFindsNothing)
<1> SUFFICES ASSUME ~OwnerErrs PROVE Spec => []RemovalFindsNothing
  OBVIOUS
<1>1. ReleaseInv => RemovalFindsNothing
  BY InUseIsHeld DEF RemovalFindsNothing, ReleaseInv, OneHolder
<1>2. Spec => []ReleaseInv
  BY ReleaseInvariant
<1> QED BY <1>1, <1>2, PTL
=============================================================================
