---------------------------- MODULE AttachmentStep ----------------------------
(***************************************************************************)
(* The decisions of biz/network/attachment_worker.go and of                *)
(* data/network/kc_attachment.go: what the collected objects say about an  *)
(* attachment, and what one AttachmentWorker.Step concludes from the row,  *)
(* the owner's answer and that observation.  Everything here is a pure     *)
(* operator.  Reasons and delays are left out: no decision reads them.     *)
(*                                                                         *)
(*   row     the network_attachments row                                   *)
(*   answer  the owner's submission: its state and the Pod it reports      *)
(*   seen    the candidates of a collection: the Pod (0 for none), the     *)
(*           owners of the network interfaces (a VNic with its VNicIP),    *)
(*           and whether the Pod names an interface that is not there      *)
(*                                                                         *)
(* A Pod is its UID.  confirm_uid is left out: the schema lets it be empty *)
(* or equal to pod_uid.                                                    *)
(***************************************************************************)
EXTENDS Naturals, FiniteSets

AttachmentStates == {"none", "reserved", "attached", "releasing", "released"}

Pods == 1..2

\* What an evidence hash stands for; a row has none, or the last one applied.
Evidence == [pod : 0..2, nics : SUBSET Pods]

AttachmentRow ==
  [state : AttachmentStates, pod : 0..2, fin : BOOLEAN, blocked : BOOLEAN,
   rel : SUBSET Pods, evidence : SUBSET Evidence, lease : BOOLEAN]

NoAttachment == [state |-> "none", pod |-> 0, fin |-> FALSE, blocked |-> FALSE,
                 rel |-> {}, evidence |-> {}, lease |-> FALSE]

\* ConsumerSubmission; "unavailable" is a failed call, "invalid" an answer
\* that validConsumer refuses.
AnswerStates == {"unavailable", "invalid", "open", "closing", "closed"}

Submission == [state : AnswerStates, pods : SUBSET Pods]

\* evidence is empty for a step that observed nothing.
AttachmentProgress ==
  [state : AttachmentStates, pod : 0..2, fin : BOOLEAN, blocked : BOOLEAN,
   rel : SUBSET Pods, evidence : SUBSET Evidence]

-----------------------------------------------------------------------------
(***************************************************************************)
(* observeAttachment: which of the collected objects belong to the         *)
(* attachment, and whether they contradict each other.                     *)
(***************************************************************************)
Reported_Ignored(answer) == {}

\* ConsumerPodUIDs: taken from a valid answer only.
Reported(answer) ==
  IF answer.state \in {"open", "closing", "closed"} THEN answer.pods ELSE {}

\* podUIDs once the Pods have been listed.
KnownPods(row, answer, seen) == ({row.pod, seen.pod} \ {0}) \cup Reported(answer)

\* An interface is a candidate by its owner Pod or because it was seen before.
Candidates(row, answer, seen) ==
  seen.nics \cap (KnownPods(row, answer, seen) \cup row.rel)

Digest(row, answer, seen) ==
  [pod |-> seen.pod, nics |-> Candidates(row, answer, seen)]

\* conflict(): another Pod than the recorded one, an interface seen before
\* whose owner is not known now, or a Pod that names a missing interface.
Contradiction(row, answer, seen) ==
  \/ row.pod # 0 /\ seen.pod \notin {0, row.pod}
  \/ ~(Candidates(row, answer, seen) \subseteq KnownPods(row, answer, seen))
  \/ seen.torn

-----------------------------------------------------------------------------
(***************************************************************************)
(* Step.                                                                   *)
(***************************************************************************)
Unchanged(row) ==
  [state |-> row.state, pod |-> row.pod, fin |-> row.fin,
   blocked |-> row.blocked, rel |-> row.rel, evidence |-> {}]

Block(p) == [p EXCEPT !.blocked = TRUE]

Found_ForgetsRelations(row, answer, seen) ==
  [Unchanged(row) EXCEPT
     !.evidence = {Digest(row, answer, seen)},
     !.rel      = Candidates(row, answer, seen),
     !.pod      = IF seen.pod # 0 THEN seen.pod ELSE @,
     !.state    = IF seen.pod # 0 /\ @ = "reserved" THEN "attached" ELSE @,
     !.blocked  = @ \/ /\ row.state = "released"
                       /\ \/ seen.pod # 0
                          \/ Candidates(row, answer, seen) # {}]

\* The Pod and the interfaces that were found.
Found(row, answer, seen) ==
  [Unchanged(row) EXCEPT
     !.evidence = {Digest(row, answer, seen)},
     !.rel      = @ \cup Candidates(row, answer, seen),
     !.pod      = IF seen.pod # 0 THEN seen.pod ELSE @,
     !.state    = IF seen.pod # 0 /\ @ = "reserved" THEN "attached" ELSE @,
     !.blocked  = @ \/ /\ row.state = "released"
                       /\ \/ seen.pod # 0
                          \/ Candidates(row, answer, seen) # {}]

Closing_NeedsRecordedPod(row, answer, seen, p) ==
  [p EXCEPT
     !.fin   = @ \/ row.state # "released",
     !.state = IF /\ answer.state = "closed" /\ p.pod # 0 /\ ~p.blocked
                  /\ seen.pod = 0 /\ Candidates(row, answer, seen) = {}
                 THEN "released"
                 ELSE IF row.state = "released" THEN @ ELSE "releasing"]

\* The submission is closing: the release begins, and ends when the owner has
\* closed it and nothing is left.
Closing(row, answer, seen, p) ==
  LET q == [p EXCEPT !.state = IF row.state = "released" THEN @ ELSE "releasing",
                     !.fin   = @ \/ row.state # "released"]
      gone == seen.pod = 0 /\ Candidates(row, answer, seen) = {}
  IN IF answer.state = "closing" THEN q
     ELSE IF p.pod # 0 /\ p.pod \notin answer.pods THEN Block(q)
     ELSE IF gone /\ ~p.blocked THEN [q EXCEPT !.state = "released"]
     ELSE q

Concluded(row, answer, seen) ==
  LET p == Found(row, answer, seen)
  IN IF Contradiction(row, answer, seen) THEN Block(Unchanged(row))
     ELSE CASE answer.state = "invalid"               -> Block(p)
            [] answer.state \in {"closing", "closed"} ->
                 Closing(row, answer, seen, p)
            [] OTHER                                  -> p

NeedsFresh_Never(row, answer) == FALSE

\* RequireFreshRelations.
NeedsFresh(row, answer) == answer.state = "closed" /\ row.state # "released"

-----------------------------------------------------------------------------
(***************************************************************************)
(* FinishAttachment: the transitions it accepts and the row it writes.     *)
(***************************************************************************)
Later(state) ==
  CASE state = "reserved"  -> {"reserved", "attached", "releasing", "released"}
    [] state = "attached"  -> {"attached", "releasing", "released"}
    [] state = "releasing" -> {"releasing", "released"}
    [] OTHER               -> {state}

MayFinishAttachment(row, p) ==
  /\ p.state \in Later(row.state)
  /\ row.pod \in {0, p.pod}
  /\ row.fin => p.fin

FinishedAttachment(row, p) ==
  [state |-> p.state, pod |-> p.pod, fin |-> p.fin,
   blocked |-> row.blocked \/ p.blocked, rel |-> p.rel,
   evidence |-> IF p.evidence = {} THEN row.evidence ELSE p.evidence,
   lease |-> FALSE]
=============================================================================
