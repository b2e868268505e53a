--------------------------- MODULE LifecycleProofs ---------------------------
(***************************************************************************)
(* Proofs about ResourceLifecycle for any sets of resources and lanes and  *)
(* any number of failures, in four parts: the types; removals that no lane *)
(* turns back; LifecycleInv, which says that whatever is lost, late,       *)
(* retried or crashes, a resource gets one object at most, and what its    *)
(* row says of the object is true; and the refinement of ResourceContract. *)
(***************************************************************************)
EXTENDS ResourceInvariant, ResourceRefinement, TLAPS

Observation == [exists : BOOLEAN, uid : Nat, ready : BOOLEAN, deps : BOOLEAN]

-----------------------------------------------------------------------------
(***************************************************************************)
(* The operators of WorkerStep and ResourceRow keep their types.           *)
(***************************************************************************)

\* Every conclusion a step draws before a provider mutation is a progress
\* record (Step, ensure, delete of worker.go).
LEMMA StepTypes ==
  ASSUME NEW k \in Work, NEW seen \in Observation
  PROVE  /\ StepProgress(k, seen) \in Progress
         /\ NextCall(k, seen) \in {"none", "create", "delete"}
BY DEF Work, Observation, Observed, StartProgress, StepProgress, NextCall,
       Removing, NeedsDelete, NeedsCreate, DeleteProgress, EnsureProgress,
       Settle, Degrade, Progress, ResourceStates, OperationStates,
       ActiveStates, CompletedStates, PendingActions

\* So is every conclusion drawn from a failed observation or from the answer
\* to a mutation.
LEMMA AnswerTypes ==
  /\ \A k, kind : k \in Work => ObserveFailed(k, kind) \in Progress
  /\ \A k \in Work, p \in Progress, uid \in Nat, ready \in BOOLEAN :
       CreateSucceeded(k, p, uid, ready) \in Progress
  /\ \A k, p, kind : p \in Progress => CreateFailed(k, p, kind) \in Progress
  /\ \A k, p, kind : p \in Progress => DeleteAnswered(k, p, kind) \in Progress
<1>1. \A k, kind : k \in Work => ObserveFailed(k, kind) \in Progress
  BY DEF Work, ObserveFailed, StartProgress, Progress, ResourceStates,
         OperationStates, ActiveStates, CompletedStates
<1>2. \A k \in Work, p \in Progress, uid \in Nat, ready \in BOOLEAN :
        CreateSucceeded(k, p, uid, ready) \in Progress
  <2> TAKE k \in Work, p \in Progress, uid \in Nat, ready \in BOOLEAN
  <2> QED
  BY DEF Work, CreateSucceeded, Settle, Degrade, Progress, ResourceStates,
         OperationStates, ActiveStates, CompletedStates
<1>3. \A k, p, kind : p \in Progress => CreateFailed(k, p, kind) \in Progress
  <2> SUFFICES ASSUME NEW k, NEW p \in Progress, NEW kind
               PROVE  CreateFailed(k, p, kind) \in Progress
    OBVIOUS
  <2>1. PICK c \in BOOLEAN : c = (kind # "uncertain")
    BY Zenon
  <2>2. PICK s : s = IF kind = "reject" THEN "failed" ELSE p.state
    OBVIOUS
  <2>3. PICK o : o = CASE kind = "reject" -> "failed" [] kind = "temporary" -> p.op
                       [] OTHER -> "blocked"
    OBVIOUS
  <2>4. s \in ResourceStates
    BY <2>2 DEF Progress, ResourceStates
  <2>5. o \in OperationStates
    BY <2>3 DEF Progress, OperationStates, ActiveStates, CompletedStates
  <2>6. CreateFailed(k, p, kind) = [p EXCEPT !.observed = FALSE, !.clear = c, !.state = s, !.op = o]
    BY <2>1, <2>2, <2>3 DEF CreateFailed, Progress
  <2> QED BY <2>4, <2>5, <2>6 DEF Progress
<1>4. \A k, p, kind : p \in Progress => DeleteAnswered(k, p, kind) \in Progress
  BY DEF DeleteAnswered, Progress, OperationStates, ActiveStates
<1> QED BY <1>1, <1>2, <1>3, <1>4

\* Every transaction leaves a row (the SQL of worker.sql and subnets.sql).
LEMMA RowTypes ==
  /\ NoRow \in Row /\ Accepted \in Row
  /\ \A x \in Row : AcquireLease(x) \in Row /\ AdmitDeletion(x) \in Row
  /\ \A x \in Row, action \in {"create", "delete"}, uid \in Nat :
       BeginProviderMutation(x, action, uid) \in Row
  /\ \A x \in Row, active \in BOOLEAN, p \in Progress :
       FinishRow(x, active, p) \in Row
<1>1. NoRow \in Row /\ Accepted \in Row
  BY DEF NoRow, Accepted, Row, ResourceStates, OperationStates, ActiveStates,
         PendingActions
<1>2. \A x \in Row : AcquireLease(x) \in Row
  BY DEF AcquireLease, Active, Row, OperationStates, ActiveStates
<1>3. \A x \in Row, action \in {"create", "delete"}, uid \in Nat :
        BeginProviderMutation(x, action, uid) \in Row
  BY DEF BeginProviderMutation, Row, PendingActions
<1>4. \A x \in Row, active \in BOOLEAN, p \in Progress :
        FinishRow(x, active, p) \in Row
  <2> TAKE x \in Row, active \in BOOLEAN, p \in Progress
  <2> QED BY DEF FinishRow, Row, Progress, PendingActions
<1>5. \A x \in Row : AdmitDeletion(x) \in Row
  BY DEF AdmitDeletion, Row, ResourceStates, OperationStates, ActiveStates
<1> QED BY <1>1, <1>2, <1>3, <1>4, <1>5

-----------------------------------------------------------------------------
(***************************************************************************)
(* Type correctness.                                                       *)
(***************************************************************************)
LEMMA InitTypes == Init => TypeOK
<1>1. NoWork \in Work
  BY ResourcesAssumption
  DEF NoWork, Work, Resources, ResourceStates, PendingActions
<1>2. NoProgress \in Progress
  BY DEF NoProgress, Progress, ResourceStates, OperationStates
<1>3. NoRow \in Row
  BY DEF NoRow, Row, ResourceStates, OperationStates, PendingActions
<1> QED
  BY <1>1, <1>2, <1>3, FaultsAssumption DEF Init, TypeOK, LaneStates, Request

LEMMA NoWorkTypes == NoWork \in Work /\ NoProgress \in Progress
<1>1. NoWork \in Work
  BY ResourcesAssumption
  DEF NoWork, Work, Resources, ResourceStates, PendingActions
<1>2. NoProgress \in Progress
  BY DEF NoProgress, Progress, ResourceStates, OperationStates
<1> QED BY <1>1, <1>2

\* Moving a counter on only takes fences away from the lanes (Bump).
LEMMA BumpTypes ==
  ASSUME TypeOK, NEW r, NEW fences
  PROVE  Bump(r, fences) \in [Workers -> SUBSET Fences]
BY DEF Bump, TypeOK

\* A lane that returns from its step, or reaches its conclusion, leaves the
\* lane variables typed.
LEMMA LaneTypes ==
  ASSUME TypeOK, NEW w \in Workers
  PROVE  /\ StepEnds(w) =>
              /\ pc'   \in [Workers -> LaneStates]
              /\ call' \in [Workers -> {"none", "create", "delete"}]
              /\ work' \in [Workers -> Work]
              /\ prog' \in [Workers -> Progress]
         /\ \A p \in Progress : Conclude(w, p) =>
              /\ pc'   \in [Workers -> LaneStates]
              /\ call' \in [Workers -> {"none", "create", "delete"}]
              /\ work' \in [Workers -> Work]
              /\ prog' \in [Workers -> Progress]
BY NoWorkTypes DEF TypeOK, StepEnds, Conclude, LaneStates

LEMMA FaultTypes ==
  ASSUME TypeOK, Fault PROVE faults' \in 0..MaxFaults
BY FaultsAssumption DEF TypeOK, Fault

\* Whatever a lane sees, its decision leaves the lane variables typed.
LEMMA DecideTypes ==
  ASSUME TypeOK, NEW w \in Workers, NEW seen \in Observation, Decide(w, seen)
  PROVE  /\ pc'   \in [Workers -> LaneStates]
         /\ call' \in [Workers -> {"none", "create", "delete"}]
         /\ prog' \in [Workers -> Progress]
         /\ UNCHANGED <<row, held, work, net, obj, made>>
<1>1. /\ StepProgress(work[w], seen) \in Progress
      /\ NextCall(work[w], seen) \in {"none", "create", "delete"}
  BY StepTypes DEF TypeOK
<1> QED BY <1>1 DEF Decide, TypeOK, LaneStates, dbVars, kcVars

LEMMA NextTypes == TypeOK /\ [Next]_vars => TypeOK'
<1> SUFFICES ASSUME TypeOK, [Next]_vars PROVE TypeOK'
  OBVIOUS
<1> USE DEF dbVars, laneVars, kcVars
<1>1. ASSUME NEW v \in Vpcs, AcceptVPC(v) PROVE TypeOK'
  BY <1>1, RowTypes DEF AcceptVPC, TypeOK, Resources
<1>2. ASSUME NEW s \in Subnets, AcceptSubnet(s) PROVE TypeOK'
  BY <1>2, RowTypes DEF AcceptSubnet, TypeOK, Resources
<1>3. ASSUME NEW r \in Resources, Supersede(r) PROVE TypeOK'
  BY <1>3, RowTypes, BumpTypes DEF Supersede, TypeOK
<1>4. ASSUME NEW w \in Workers, NEW r \in Resources, Claim(w, r) PROVE TypeOK'
  <2>1. row' \in [Resources -> Row] /\ pc' \in [Workers -> LaneStates]
    BY <1>4, RowTypes DEF Claim, TypeOK, LaneStates
  <2>2. held' \in [Workers -> SUBSET Fences]
    BY <1>4, BumpTypes DEF Claim
  <2>3. [res |-> r, state |-> row[r].state, active |-> Active(row[r]),
         uid |-> row[r].uid, pending |-> row[r].pending,
         fresh |-> row[r].fresh] \in Work
    BY DEF TypeOK, Work, Row, Active
  <2>4. work' \in [Workers -> Work]
    BY <1>4, <2>3 DEF Claim, TypeOK
  <2> QED BY <1>4, <2>1, <2>2, <2>4 DEF Claim, TypeOK
<1>5. ASSUME NEW w \in Workers, ObserveDirect(w) PROVE TypeOK'
  <2>1. faults' \in 0..MaxFaults
    BY <1>5, FaultTypes DEF ObserveDirect, TypeOK
  <2>2. PICK seen \in Observation : Decide(w, seen)
    <3>1. /\ made[work[w].res] \in Nat
          /\ HasDependencies(work[w].res) \in BOOLEAN
      BY DEF TypeOK, Work, HasDependencies, BlockedBySubnets
    <3> QED BY <1>5, <3>1 DEF ObserveDirect, Observation
  <2> QED BY <2>1, <2>2, DecideTypes DEF TypeOK
<1>6. ASSUME NEW w \in Workers, ObserveCached(w) PROVE TypeOK'
  <2>1. PICK seen \in Observation : Decide(w, seen)
    BY <1>6 DEF ObserveCached, Observation, TypeOK, Work
  <2> QED BY <1>6, <2>1, DecideTypes DEF ObserveCached, TypeOK
<1>7. ASSUME NEW w \in Workers, ObserveFails(w) PROVE TypeOK'
  BY <1>7, AnswerTypes, LaneTypes, FaultTypes DEF ObserveFails, TypeOK
<1>8. ASSUME NEW w \in Workers, BeginMutation(w) PROVE TypeOK'
  <2> DEFINE r == work[w].res
             uid == IF call[w] = "create" THEN 0 ELSE prog[w].uid
  <2>1. r \in Resources /\ uid \in Nat /\ row[r] \in Row
    BY DEF TypeOK, Work, Progress
  <2>2. CASE Fenced(w) /\ MayBegin(row[r], call[w], uid)
    <3>1. call[w] \in {"create", "delete"}
      BY <2>2 DEF MayBegin
    <3>2. BeginProviderMutation(row[r], call[w], uid) \in Row
      BY <2>1, <3>1, RowTypes
    <3> QED BY <1>8, <2>1, <2>2, <3>2 DEF BeginMutation, TypeOK, LaneStates
  <2>3. CASE ~(Fenced(w) /\ MayBegin(row[r], call[w], uid))
    BY <1>8, <2>3, LaneTypes DEF BeginMutation, TypeOK
  <2> QED BY <2>2, <2>3
<1>9. ASSUME NEW w \in Workers, CheckCreate(w) PROVE TypeOK'
  <2>1. work[w].res \in Resources /\ made[work[w].res] \in Nat
    BY DEF TypeOK, Work
  <2>2. CASE Send(w, 0)
    BY <1>9, <2>1, <2>2 DEF CheckCreate, Send, TypeOK, LaneStates, Request
  <2>3. CASE \E p \in Progress : Conclude(w, p) /\ UNCHANGED <<dbVars, kcVars, faults>>
    BY <2>3, LaneTypes DEF TypeOK
  <2>4. \A ready \in BOOLEAN :
          CreateSucceeded(work[w], prog[w], made[work[w].res], ready) \in Progress
    BY <2>1, AnswerTypes DEF TypeOK
  <2>5. CreateFailed(work[w], prog[w], "conflict") \in Progress
    BY AnswerTypes DEF TypeOK
  <2> QED BY <1>9, <2>2, <2>3, <2>4, <2>5 DEF CheckCreate
<1>10. ASSUME NEW w \in Workers, CheckDelete(w) PROVE TypeOK'
  <2>1. work[w].res \in Resources /\ prog[w].uid \in Nat
    BY DEF TypeOK, Work, Progress
  <2>2. CASE Send(w, prog[w].uid)
    BY <1>10, <2>1, <2>2 DEF CheckDelete, Send, TypeOK, LaneStates, Request
  <2>3. CASE \E p \in Progress : Conclude(w, p) /\ UNCHANGED <<dbVars, kcVars, faults>>
    BY <2>3, LaneTypes DEF TypeOK
  <2>4. \A kind : DeleteAnswered(work[w], prog[w], kind) \in Progress
    BY AnswerTypes DEF TypeOK
  <2> QED BY <1>10, <2>2, <2>3, <2>4 DEF CheckDelete
<1>11. ASSUME NEW w \in Workers, CheckFails(w) PROVE TypeOK'
  BY <1>11, AnswerTypes, LaneTypes, FaultTypes DEF CheckFails, CallFailed, TypeOK
<1>12. ASSUME NEW w \in Workers, CallTimesOut(w) PROVE TypeOK'
  BY <1>12, AnswerTypes, LaneTypes, FaultTypes DEF CallTimesOut, CallFailed, TypeOK
<1>13. ASSUME NEW w \in Workers, Finish(w) PROVE TypeOK'
  <2>1. work[w].res \in Resources
    BY DEF TypeOK, Work
  <2>2. FinishRow(row[work[w].res], work[w].active, prog[w]) \in Row
    BY <2>1, RowTypes DEF TypeOK, Work
  <2>3. row' \in [Resources -> Row]
    BY <1>13, <2>1, <2>2 DEF Finish, TypeOK
  <2>4. held' \in [Workers -> SUBSET Fences]
    BY <1>13, BumpTypes DEF Finish, TypeOK
  <2> QED BY <1>13, <2>3, <2>4, LaneTypes DEF Finish, TypeOK
<1>14. ASSUME NEW w \in Workers, Crash(w) PROVE TypeOK'
  BY <1>14, LaneTypes, FaultTypes DEF Crash, TypeOK
<1>15. ASSUME NEW q \in net, ApplyCreate(q) PROVE TypeOK'
  <2>1. q.from \in Workers /\ q.res \in Resources
    BY DEF TypeOK, Request
  <2>2. /\ obj' \in [Resources -> {"absent", "live", "terminating"}]
        /\ made' \in [Resources -> Nat]
    BY <1>15, <2>1 DEF ApplyCreate, TypeOK
  <2>3. \A ready \in BOOLEAN : CreateSucceeded(work[q.from], prog[q.from],
                                 made'[q.res], ready) \in Progress
    BY <2>1, <2>2, AnswerTypes DEF TypeOK
  <2> QED BY <1>15, <2>1, <2>2, <2>3, LaneTypes DEF ApplyCreate, Answer, TypeOK
<1>16. ASSUME NEW q \in net, ApplyDelete(q) PROVE TypeOK'
  BY <1>16, AnswerTypes, LaneTypes DEF ApplyDelete, Answer, TypeOK, Request
<1>17. ASSUME NEW q \in net, Refuse(q) PROVE TypeOK'
  BY <1>17, AnswerTypes, LaneTypes, FaultTypes DEF Refuse, Answer, CallFailed, TypeOK, Request
<1>18. ASSUME NEW q \in net, Lose(q) PROVE TypeOK'
  BY <1>18, AnswerTypes, LaneTypes, FaultTypes DEF Lose, Answer, CallFailed, TypeOK, Request
<1>19. ASSUME NEW r \in Resources, Finalize(r) PROVE TypeOK'
  BY <1>19 DEF Finalize, TypeOK
<1>20. ASSUME NEW r \in Resources, Vanish(r) PROVE TypeOK'
  BY <1>20, FaultTypes DEF Vanish, TypeOK
<1>21. ASSUME NEW r \in Resources, LeaseExpires(r) PROVE TypeOK'
  BY <1>21, FaultTypes DEF LeaseExpires, TypeOK, Row
<1>22. ASSUME NEW r \in Resources, ObservationAges(r) PROVE TypeOK'
  BY <1>22 DEF ObservationAges, TypeOK, Row
<1>23. CASE UNCHANGED vars
  BY <1>23 DEF vars, TypeOK
<1> QED
  BY <1>1, <1>2, <1>3, <1>4, <1>5, <1>6, <1>7, <1>8, <1>9, <1>10, <1>11,
     <1>12, <1>13, <1>14, <1>15, <1>16, <1>17, <1>18, <1>19, <1>20, <1>21,
     <1>22, <1>23
  DEF Next, LaneStep, ProviderStep, DeleteVPC, DeleteSubnet, Resources

\* Every reachable state has the shape the code gives it.
THEOREM TypeCorrect == Spec => []TypeOK
<1>1. Init => TypeOK
  BY InitTypes
<1>2. TypeOK /\ [Next]_vars => TypeOK'
  BY NextTypes
<1> QED BY <1>1, <1>2, PTL DEF Spec

-----------------------------------------------------------------------------
(***************************************************************************)
(* No step of any lane, however late, turns an admitted removal back.      *)
(*                                                                         *)
(* RemovalInv has two parts besides the types.  FencedState: while a lane  *)
(* holds the version and the epoch of its claim, the row is in the state   *)
(* it claimed, since every transaction that changes a state also moves the *)
(* version on.  DraftKeepsRemoval: what the lane means to record for a     *)
(* state that is being removed is again such a state.  Finish needs the    *)
(* fences, so the state it writes follows the state that is there.         *)
(***************************************************************************)
\* Step's conclusions keep a removal, and a removal asks for no POST.
LEMMA StepKeeps ==
  ASSUME NEW k \in Work, NEW seen \in Observation
  PROVE  /\ Keeps(k, StepProgress(k, seen))
         /\ NextCall(k, seen) = "create" => ~Removing(k)
<1>1. NextCall(k, seen) = "create" => ~Removing(k)
  BY DEF NextCall, Removing
<1>2. Observed(k, seen).state = k.state
  BY DEF Observed, StartProgress
<1>3. CASE NextCall(k, seen) # "none"
  BY <1>1, <1>2, <1>3 DEF StepProgress, Keeps
<1>4. CASE NextCall(k, seen) = "none" /\ Removing(k)
  BY <1>4, <1>2 DEF StepProgress, DeleteProgress, Removing, Keeps, Observed, StartProgress
<1>5. CASE NextCall(k, seen) = "none" /\ ~Removing(k)
  BY <1>5, <1>2 DEF StepProgress, EnsureProgress, Settle, Degrade, Removing,
                    Keeps, Observed, StartProgress
<1> QED BY <1>1, <1>3, <1>4, <1>5

\* So do the conclusions from failures and answers.
LEMMA AnswerKeeps ==
  /\ \A k, kind : k \in Work => Keeps(k, ObserveFailed(k, kind))
  /\ \A k \in Work, p \in Progress, uid \in Nat, ready \in BOOLEAN :
       Keeps(k, p) /\ ~Removing(k) => Keeps(k, CreateSucceeded(k, p, uid, ready))
  /\ \A k \in Work, p \in Progress : \A kind :
       Keeps(k, p) /\ ~Removing(k) => Keeps(k, CreateFailed(k, p, kind))
  /\ \A k \in Work, p \in Progress : \A kind :
       Keeps(k, p) => Keeps(k, DeleteAnswered(k, p, kind))
<1>1. ASSUME NEW k \in Work, NEW kind PROVE Keeps(k, ObserveFailed(k, kind))
  BY DEF ObserveFailed, StartProgress, Keeps, Work
<1>2. ASSUME NEW k \in Work, NEW p \in Progress, NEW uid \in Nat,
             NEW ready \in BOOLEAN, Keeps(k, p), ~Removing(k)
      PROVE  Keeps(k, CreateSucceeded(k, p, uid, ready))
  BY <1>2 DEF CreateSucceeded, Settle, Degrade, Keeps, Removing, Work, Progress
<1>3. ASSUME NEW k \in Work, NEW p \in Progress, NEW kind,
             Keeps(k, p), ~Removing(k)
      PROVE  Keeps(k, CreateFailed(k, p, kind))
  BY <1>3 DEF CreateFailed, Keeps, Removing, Work, Progress
<1>4. ASSUME NEW k \in Work, NEW p \in Progress, NEW kind, Keeps(k, p)
      PROVE  Keeps(k, DeleteAnswered(k, p, kind))
  BY <1>4 DEF DeleteAnswered, Keeps, Work, Progress
<1> QED BY <1>1, <1>2, <1>3, <1>4

-----------------------------------------------------------------------------
(***************************************************************************)
(* DraftKeepsRemoval is preserved.                                         *)
(***************************************************************************)
\* A lane that reaches a conclusion that keeps removals leaves all drafts so.
LEMMA ConcludeKeeps ==
  ASSUME RemovalInv, NEW w \in Workers, NEW p, Keeps(work[w], p), Conclude(w, p)
  PROVE  DraftKeepsRemoval'
BY DEF RemovalInv, TypeOK, DraftKeepsRemoval, Conclude, Keeps, Removing

LEMMA StepEndsKeeps ==
  ASSUME RemovalInv, NEW w \in Workers, StepEnds(w)
  PROVE  DraftKeepsRemoval'
BY DEF RemovalInv, TypeOK, DraftKeepsRemoval, StepEnds, Keeps, Removing

LEMMA DecideKeeps ==
  ASSUME RemovalInv, NEW w \in Workers, NEW seen \in Observation, Decide(w, seen)
  PROVE  DraftKeepsRemoval'
<1>1. /\ Keeps(work[w], StepProgress(work[w], seen))
      /\ NextCall(work[w], seen) = "create" => ~Removing(work[w])
  BY StepKeeps DEF RemovalInv, TypeOK
<1> QED BY <1>1 DEF RemovalInv, TypeOK, DraftKeepsRemoval, Decide, Keeps, Removing

\* The answer to a lane in a call, whatever it is.
LEMMA CallFailedKeeps ==
  ASSUME RemovalInv, NEW w \in Workers, NEW kind, pc[w] \in {"check", "sent"}
  PROVE  Keeps(work[w], CallFailed(w, kind))
<1>1. work[w] \in Work /\ prog[w] \in Progress
  BY DEF RemovalInv, TypeOK
<1>2. /\ Keeps(work[w], prog[w])
      /\ call[w] = "create" => ~Removing(work[w])
  BY DEF RemovalInv, DraftKeepsRemoval
<1> QED BY <1>1, <1>2, AnswerKeeps DEF CallFailed

LEMMA NextKeeps == RemovalInv /\ [Next]_vars => DraftKeepsRemoval'
<1> SUFFICES ASSUME RemovalInv, [Next]_vars PROVE DraftKeepsRemoval'
  OBVIOUS
<1> USE DEF dbVars, laneVars, kcVars
<1>1. ASSUME UNCHANGED laneVars PROVE DraftKeepsRemoval'
  BY <1>1 DEF RemovalInv, DraftKeepsRemoval, Keeps, Removing
<1>2. ASSUME NEW w \in Workers, NEW r \in Resources, Claim(w, r)
      PROVE  DraftKeepsRemoval'
  BY <1>2 DEF Claim, RemovalInv, TypeOK, DraftKeepsRemoval, Keeps, Removing
<1>3. ASSUME NEW w \in Workers, ObserveDirect(w) PROVE DraftKeepsRemoval'
  <2>1. PICK seen \in Observation : Decide(w, seen)
    <3>1. /\ made[work[w].res] \in Nat
          /\ HasDependencies(work[w].res) \in BOOLEAN
      BY DEF RemovalInv, TypeOK, Work, HasDependencies, BlockedBySubnets
    <3> QED BY <1>3, <3>1 DEF ObserveDirect, Observation
  <2> QED BY <2>1, DecideKeeps
<1>4. ASSUME NEW w \in Workers, ObserveCached(w) PROVE DraftKeepsRemoval'
  <2>1. PICK seen \in Observation : Decide(w, seen)
    BY <1>4 DEF ObserveCached, Observation, RemovalInv, TypeOK, Work
  <2> QED BY <2>1, DecideKeeps
<1>5. ASSUME NEW w \in Workers, ObserveFails(w) PROVE DraftKeepsRemoval'
  BY <1>5, AnswerKeeps, ConcludeKeeps DEF ObserveFails, RemovalInv, TypeOK
<1>6. ASSUME NEW w \in Workers, BeginMutation(w) PROVE DraftKeepsRemoval'
  <2>1. CASE StepEnds(w)
    BY <2>1, StepEndsKeeps
  <2>2. CASE pc' = [pc EXCEPT ![w] = "check"] /\ UNCHANGED <<call, work, prog>>
    BY <1>6, <2>2 DEF BeginMutation, RemovalInv, TypeOK, DraftKeepsRemoval, Keeps, Removing
  <2> QED BY <1>6, <2>1, <2>2 DEF BeginMutation
<1>7. ASSUME NEW w \in Workers, NEW uid, Send(w, uid), pc[w] = "check"
      PROVE  DraftKeepsRemoval'
  BY <1>7 DEF Send, RemovalInv, TypeOK, DraftKeepsRemoval, Keeps, Removing
<1>8. ASSUME NEW w \in Workers, CheckCreate(w) PROVE DraftKeepsRemoval'
  <2>1. /\ work[w] \in Work /\ prog[w] \in Progress
        /\ made[work[w].res] \in Nat
    BY DEF RemovalInv, TypeOK, Work
  <2>2. Keeps(work[w], prog[w]) /\ ~Removing(work[w])
    BY <1>8 DEF CheckCreate, RemovalInv, DraftKeepsRemoval
  <2>3. \A ready \in BOOLEAN :
          Keeps(work[w], CreateSucceeded(work[w], prog[w], made[work[w].res], ready))
    BY <2>1, <2>2, AnswerKeeps
  <2>4. Keeps(work[w], CreateFailed(work[w], prog[w], "conflict"))
    BY <2>1, <2>2, AnswerKeeps
  <2>5. CASE Send(w, 0)
    BY <1>8, <2>5, <1>7 DEF CheckCreate
  <2>6. CASE \E p : Keeps(work[w], p) /\ Conclude(w, p)
    BY <2>6, ConcludeKeeps
  <2> QED BY <1>8, <2>3, <2>4, <2>5, <2>6 DEF CheckCreate
<1>9. ASSUME NEW w \in Workers, CheckDelete(w) PROVE DraftKeepsRemoval'
  <2>1. \A kind : Keeps(work[w], DeleteAnswered(work[w], prog[w], kind))
    <3>1. work[w] \in Work /\ prog[w] \in Progress /\ Keeps(work[w], prog[w])
      BY <1>9 DEF CheckDelete, RemovalInv, TypeOK, DraftKeepsRemoval
    <3> QED BY <3>1, AnswerKeeps
  <2>2. CASE Send(w, prog[w].uid)
    BY <1>9, <2>2, <1>7 DEF CheckDelete
  <2>3. CASE \E p : Keeps(work[w], p) /\ Conclude(w, p)
    BY <2>3, ConcludeKeeps
  <2> QED BY <1>9, <2>1, <2>2, <2>3 DEF CheckDelete
<1>10. ASSUME NEW w \in Workers, CheckFails(w) PROVE DraftKeepsRemoval'
  BY <1>10, CallFailedKeeps, ConcludeKeeps DEF CheckFails
<1>11. ASSUME NEW w \in Workers, CallTimesOut(w) PROVE DraftKeepsRemoval'
  BY <1>11, CallFailedKeeps, ConcludeKeeps DEF CallTimesOut
<1>12. ASSUME NEW w \in Workers, Finish(w) \/ Crash(w) PROVE DraftKeepsRemoval'
  BY <1>12, StepEndsKeeps DEF Finish, Crash
<1>13. ASSUME NEW q \in net, NEW p, Answer(q, p),
              Waits(q) => Keeps(work[q.from], p)
       PROVE  DraftKeepsRemoval'
  <2>1. q.from \in Workers
    BY DEF RemovalInv, TypeOK, Request
  <2>2. CASE Waits(q)
    BY <1>13, <2>1, <2>2, ConcludeKeeps DEF Answer
  <2>3. CASE ~Waits(q)
    BY <1>13, <2>3, <1>1 DEF Answer
  <2> QED BY <2>2, <2>3
<1>14. ASSUME NEW q \in net, ApplyCreate(q) PROVE DraftKeepsRemoval'
  <2>1. /\ q.from \in Workers /\ q.res \in Resources
        /\ work[q.from] \in Work /\ prog[q.from] \in Progress
    BY DEF RemovalInv, TypeOK, Request
  <2>2. made'[q.res] \in Nat
    BY <1>14, <2>1 DEF ApplyCreate, RemovalInv, TypeOK
  <2>3. Waits(q) => Keeps(work[q.from], prog[q.from]) /\ ~Removing(work[q.from])
    BY <1>14, <2>1 DEF ApplyCreate, Waits, RemovalInv, DraftKeepsRemoval
  <2>4. ASSUME NEW ready \in BOOLEAN, Waits(q)
        PROVE  Keeps(work[q.from], CreateSucceeded(work[q.from], prog[q.from],
                                                   made'[q.res], ready))
    BY <2>1, <2>2, <2>3, <2>4, AnswerKeeps
  <2>5. PICK ready \in BOOLEAN :
          Answer(q, CreateSucceeded(work[q.from], prog[q.from], made'[q.res], ready))
    BY <1>14 DEF ApplyCreate
  <2> QED BY <2>4, <2>5, <1>13
<1>15. ASSUME NEW q \in net, ApplyDelete(q) PROVE DraftKeepsRemoval'
  <2>1. /\ q.from \in Workers
        /\ work[q.from] \in Work /\ prog[q.from] \in Progress
    BY DEF RemovalInv, TypeOK, Request
  <2>2. Waits(q) => Keeps(work[q.from], prog[q.from])
    BY <2>1 DEF Waits, RemovalInv, DraftKeepsRemoval
  <2>3. \A kind : Waits(q) =>
          Keeps(work[q.from], DeleteAnswered(work[q.from], prog[q.from], kind))
    BY <2>1, <2>2, AnswerKeeps
  <2> QED BY <1>15, <2>3, <1>13 DEF ApplyDelete
<1>16. ASSUME NEW q \in net, Refuse(q) \/ Lose(q) PROVE DraftKeepsRemoval'
  <2>1. \A kind : Waits(q) => Keeps(work[q.from], CallFailed(q.from, kind))
    <3>1. q.from \in Workers
      BY DEF RemovalInv, TypeOK, Request
    <3> QED BY <3>1, CallFailedKeeps DEF Waits
  <2> QED BY <1>16, <2>1, <1>13 DEF Refuse, Lose
<1>17. ASSUME NEW r \in Resources,
              \/ AcceptVPC(r) \/ AcceptSubnet(r) \/ Supersede(r) \/ Finalize(r)
              \/ Vanish(r) \/ LeaseExpires(r) \/ ObservationAges(r)
       PROVE  DraftKeepsRemoval'
  BY <1>17, <1>1 DEF AcceptVPC, AcceptSubnet, Supersede, Finalize, Vanish,
                     LeaseExpires, ObservationAges
<1>18. CASE UNCHANGED vars
  BY <1>18, <1>1 DEF vars
<1> QED
  BY <1>2, <1>3, <1>4, <1>5, <1>6, <1>8, <1>9, <1>10, <1>11, <1>12, <1>14,
     <1>15, <1>16, <1>17, <1>18
  DEF Next, LaneStep, ProviderStep, DeleteVPC, DeleteSubnet, Resources

-----------------------------------------------------------------------------
(***************************************************************************)
(* FencedState is preserved.                                               *)
(***************************************************************************)
\* A lane loses the fences that Bump takes away.
LEMMA BumpTakes ==
  ASSUME TypeOK, NEW r, NEW fences, fences \cap Fences # {}, NEW w \in Workers,
         Bump(r, fences)[w] = Fences
  PROVE  work[w].res # r /\ held[w] = Fences
BY DEF Bump, TypeOK

\* If neither fences nor work of a lane are renewed and the state of no row it
\* holds changes, nothing changes for it.
LEMMA FencedStays ==
  ASSUME RemovalInv,
         \A w \in Workers : held'[w] = Fences =>
            /\ held[w] = Fences /\ work'[w] = work[w]
            /\ row'[work[w].res].state = row[work[w].res].state
  PROVE  FencedState'
BY DEF RemovalInv, FencedState

LEMMA NextFenced == RemovalInv /\ [Next]_vars => FencedState'
<1> SUFFICES ASSUME RemovalInv, [Next]_vars PROVE FencedState'
  OBVIOUS
<1> USE DEF dbVars, laneVars, kcVars
<1>0. \A w \in Workers : work[w] \in Work /\ work[w].res \in Resources
  BY DEF RemovalInv, TypeOK, Work
<1>1. ASSUME UNCHANGED <<dbVars, work>> PROVE FencedState'
  BY <1>1 DEF RemovalInv, FencedState
<1>2. ASSUME NEW r \in Resources, AcceptVPC(r) \/ AcceptSubnet(r)
      PROVE  FencedState'
  <2>1. ASSUME NEW w \in Workers, held'[w] = Fences PROVE work[w].res # r
    BY <1>2, <2>1 DEF AcceptVPC, AcceptSubnet, RemovalInv, FencedState
  <2>2. \A w \in Workers : held'[w] = Fences =>
            /\ held[w] = Fences /\ work'[w] = work[w]
            /\ row'[work[w].res].state = row[work[w].res].state
    BY <1>0, <1>2, <2>1 DEF AcceptVPC, AcceptSubnet, RemovalInv, TypeOK
  <2> QED BY <2>2, FencedStays
<1>3. ASSUME NEW r \in Resources, Supersede(r) PROVE FencedState'
  <2>1. ASSUME NEW w \in Workers, held'[w] = Fences
        PROVE  work[w].res # r /\ held[w] = Fences
    BY <1>3, <2>1, BumpTakes DEF Supersede, RemovalInv, Fences
  <2>2. \A w \in Workers : held'[w] = Fences =>
            /\ held[w] = Fences /\ work'[w] = work[w]
            /\ row'[work[w].res].state = row[work[w].res].state
    BY <1>0, <1>3, <2>1 DEF Supersede, RemovalInv, TypeOK
  <2> QED BY <2>2, FencedStays
<1>4. ASSUME NEW w \in Workers, NEW r \in Resources, Claim(w, r)
      PROVE  FencedState'
  <2>1. row'[r].state = row[r].state
    BY <1>4 DEF Claim, AcquireLease, RemovalInv, TypeOK, Row
  <2>2. \A x \in Resources : row'[x].state = row[x].state
    BY <1>4, <2>1 DEF Claim, RemovalInv, TypeOK
  <2>3. /\ row'[work'[w].res].state = work'[w].state
        /\ work'[w].state # "none"
    BY <1>4, <2>1 DEF Claim, RemovalInv, TypeOK
  <2>4. ASSUME NEW x \in Workers, x # w, held'[x] = Fences
        PROVE  held[x] = Fences /\ work'[x] = work[x]
    <3>1. work'[x] = work[x]
      BY <1>4, <2>4 DEF Claim, RemovalInv, TypeOK
    <3>2. Bump(r, {"epoch"})[x] = Fences
      BY <1>4, <2>4, BumpTypes DEF Claim, RemovalInv
    <3>3. held[x] = Fences
      BY <3>2, BumpTakes DEF RemovalInv, Fences
    <3> QED BY <3>1, <3>3
  <2> QED BY <1>0, <2>2, <2>3, <2>4 DEF FencedState, RemovalInv
<1>5. ASSUME NEW w \in Workers, StepEnds(w), held' = [held EXCEPT ![w] = {}],
             UNCHANGED row
      PROVE  FencedState'
  <2>1. \A x \in Workers : held'[x] = Fences =>
            /\ held[x] = Fences /\ work'[x] = work[x]
            /\ row'[work[x].res].state = row[work[x].res].state
    BY <1>5 DEF StepEnds, RemovalInv, TypeOK, Fences
  <2> QED BY <2>1, FencedStays
<1>6. ASSUME NEW w \in Workers, BeginMutation(w) PROVE FencedState'
  <2>1. CASE UNCHANGED row
    BY <1>5, <1>6, <1>1, <2>1 DEF BeginMutation
  <2>2. CASE \E uid : /\ row' = [row EXCEPT ![work[w].res] =
                                   BeginProviderMutation(@, call[w], uid)]
                      /\ UNCHANGED <<work, held>>
    <3>1. \A x \in Resources : row'[x].state = row[x].state
      BY <2>2, <1>0 DEF BeginProviderMutation, RemovalInv, TypeOK, Row
    <3> QED BY <2>2, <3>1, <1>0, FencedStays
  <2> QED BY <1>6, <2>1, <2>2 DEF BeginMutation
<1>7. ASSUME NEW w \in Workers, Finish(w) PROVE FencedState'
  <2>1. CASE UNCHANGED row /\ held' = [held EXCEPT ![w] = {}]
    BY <1>5, <1>7, <2>1 DEF Finish
  <2>2. CASE /\ \E x : row' = [row EXCEPT ![work[w].res] = x]
             /\ held' = [Bump(work[w].res, {"version"}) EXCEPT ![w] = {}]
    <3>1. ASSUME NEW x \in Workers, held'[x] = Fences
          PROVE  x # w /\ work[x].res # work[w].res /\ held[x] = Fences
      <4>1. x # w
        BY <2>2, <3>1, BumpTypes DEF RemovalInv, Fences
      <4>2. Bump(work[w].res, {"version"})[x] = Fences
        BY <2>2, <3>1, <4>1, BumpTypes DEF RemovalInv
      <4> QED BY <4>1, <4>2, BumpTakes DEF RemovalInv, Fences
    <3>2. \A x \in Workers : held'[x] = Fences =>
            /\ held[x] = Fences /\ work'[x] = work[x]
            /\ row'[work[x].res].state = row[work[x].res].state
      BY <1>0, <1>7, <2>2, <3>1 DEF Finish, StepEnds, RemovalInv, TypeOK
    <3> QED BY <3>2, FencedStays
  <2> QED BY <1>7, <2>1, <2>2 DEF Finish
<1>8. ASSUME NEW w \in Workers, Crash(w) PROVE FencedState'
  BY <1>5, <1>8 DEF Crash
<1>9. ASSUME NEW w \in Workers,
             \/ ObserveDirect(w) \/ ObserveCached(w) \/ ObserveFails(w)
             \/ CheckCreate(w) \/ CheckDelete(w) \/ CheckFails(w)
             \/ CallTimesOut(w)
      PROVE  FencedState'
  BY <1>1, <1>9 DEF ObserveDirect, ObserveCached, ObserveFails, CheckCreate,
                    CheckDelete, CheckFails, CallTimesOut, Decide, Conclude, Send
<1>10. ASSUME NEW q \in net,
              ApplyCreate(q) \/ ApplyDelete(q) \/ Refuse(q) \/ Lose(q)
       PROVE  FencedState'
  BY <1>1, <1>10 DEF ApplyCreate, ApplyDelete, Refuse, Lose, Answer, Conclude
<1>11. ASSUME NEW r \in Resources, Finalize(r) \/ Vanish(r) PROVE FencedState'
  BY <1>1, <1>11 DEF Finalize, Vanish
<1>12. ASSUME NEW r \in Resources, LeaseExpires(r) \/ ObservationAges(r)
       PROVE  FencedState'
  <2>1. \A x \in Resources : row'[x].state = row[x].state
    BY <1>12 DEF LeaseExpires, ObservationAges, RemovalInv, TypeOK, Row
  <2>2. UNCHANGED <<held, work>>
    BY <1>12 DEF LeaseExpires, ObservationAges
  <2> QED BY <2>1, <2>2, <1>0, FencedStays
<1>13. CASE UNCHANGED vars
  BY <1>13, <1>1 DEF vars
<1> QED
  BY <1>2, <1>3, <1>4, <1>6, <1>7, <1>8, <1>9, <1>10, <1>11, <1>12, <1>13
  DEF Next, LaneStep, ProviderStep, DeleteVPC, DeleteSubnet, Resources

-----------------------------------------------------------------------------
\* In every reachable state a lane that holds its fences works on the state
\* the row is in, and no lane has drafted to turn a removal back.
THEOREM RemovalInvariant == Spec => []RemovalInv
<1>1. Init => RemovalInv
  BY InitTypes DEF Init, RemovalInv, FencedState, DraftKeepsRemoval, Fences
<1>2. RemovalInv /\ [Next]_vars => RemovalInv'
  BY NextTypes, NextFenced, NextKeeps DEF RemovalInv
<1> QED BY <1>1, <1>2, PTL DEF Spec

\* What one step may do to the state of a resource being removed.
RemovalStep ==
  \A r \in Resources :
    /\ row[r].state = "deleting" => row'[r].state \in {"deleting", "deleted"}
    /\ row[r].state = "deleted"  => row'[r].state = "deleted"

LEMMA NextSticks == RemovalInv /\ [Next]_vars => RemovalStep
<1> SUFFICES ASSUME RemovalInv, [Next]_vars PROVE RemovalStep
  OBVIOUS
<1> USE DEF dbVars, laneVars, kcVars
<1>1. ASSUME \A r \in Resources : row'[r].state = row[r].state PROVE RemovalStep
  BY <1>1 DEF RemovalStep
<1>2. ASSUME NEW r \in Resources, AcceptVPC(r) \/ AcceptSubnet(r)
      PROVE  RemovalStep
  BY <1>2 DEF AcceptVPC, AcceptSubnet, RemovalStep, RemovalInv, TypeOK
<1>3. ASSUME NEW r \in Resources, Supersede(r), ~AlreadyRemoved(row[r])
      PROVE  RemovalStep
  BY <1>3 DEF Supersede, AlreadyRemoved, RemovalStep, RemovalInv, TypeOK
<1>4. ASSUME NEW w \in Workers, NEW r \in Resources, Claim(w, r)
      PROVE  RemovalStep
  BY <1>4, <1>1 DEF Claim, AcquireLease, RemovalInv, TypeOK, Row
<1>5. ASSUME NEW w \in Workers, BeginMutation(w) PROVE RemovalStep
  <2>1. work[w].res \in Resources
    BY DEF RemovalInv, TypeOK, Work
  <2>2. CASE UNCHANGED row
    BY <2>2, <1>1
  <2>3. CASE \E uid : row' = [row EXCEPT ![work[w].res] =
                                BeginProviderMutation(@, call[w], uid)]
    BY <2>1, <2>3, <1>1 DEF BeginProviderMutation, RemovalInv, TypeOK, Row
  <2> QED BY <1>5, <2>2, <2>3 DEF BeginMutation
<1>6. ASSUME NEW w \in Workers, Finish(w) PROVE RemovalStep
  <2> DEFINE r == work[w].res
  <2>1. r \in Resources /\ row[r] \in Row
    BY DEF RemovalInv, TypeOK, Work
  <2>2. CASE UNCHANGED row
    BY <2>2, <1>1
  <2>3. CASE /\ held[w] = Fences
             /\ row' = [row EXCEPT ![r] = FinishRow(@, work[w].active, prog[w])]
    <3>1. row[r].state = work[w].state /\ Keeps(work[w], prog[w])
      BY <1>6, <2>3 DEF Finish, RemovalInv, FencedState, DraftKeepsRemoval
    <3>2. row'[r].state = prog[w].state
      BY <2>1, <2>3 DEF FinishRow, Row, RemovalInv, TypeOK
    <3>3. \A x \in Resources : x # r => row'[x] = row[x]
      BY <2>3 DEF RemovalInv, TypeOK
    <3> QED BY <3>1, <3>2, <3>3 DEF Keeps, RemovalStep
  <2> QED BY <1>6, <2>2, <2>3 DEF Finish, Fenced
<1>7. ASSUME UNCHANGED row PROVE RemovalStep
  BY <1>7, <1>1
<1>8. ASSUME NEW w \in Workers,
             \/ ObserveDirect(w) \/ ObserveCached(w) \/ ObserveFails(w)
             \/ CheckCreate(w) \/ CheckDelete(w) \/ CheckFails(w)
             \/ CallTimesOut(w) \/ Crash(w)
      PROVE  RemovalStep
  BY <1>7, <1>8 DEF ObserveDirect, ObserveCached, ObserveFails, CheckCreate,
                    CheckDelete, CheckFails, CallTimesOut, Crash, Decide, Send
<1>9. ASSUME NEW q \in net,
             ApplyCreate(q) \/ ApplyDelete(q) \/ Refuse(q) \/ Lose(q)
      PROVE  RemovalStep
  BY <1>7, <1>9 DEF ApplyCreate, ApplyDelete, Refuse, Lose, Answer
<1>10. ASSUME NEW r \in Resources, Finalize(r) \/ Vanish(r) PROVE RemovalStep
  BY <1>7, <1>10 DEF Finalize, Vanish
<1>11. ASSUME NEW r \in Resources, LeaseExpires(r) \/ ObservationAges(r)
       PROVE  RemovalStep
  BY <1>1, <1>11 DEF LeaseExpires, ObservationAges, RemovalInv, TypeOK, Row
<1>12. CASE UNCHANGED vars
  BY <1>12, <1>7 DEF vars
<1> QED
  BY <1>2, <1>3, <1>4, <1>5, <1>6, <1>8, <1>9, <1>10, <1>11, <1>12
  DEF Next, LaneStep, ProviderStep, DeleteVPC, DeleteSubnet, Resources

\* Once admitted a removal only moves to deleted, and deleted is final,
\* whichever lanes, with whatever delay, ask Finish to record something else.
THEOREM RemovalIsFinal == Spec => RemovalSticks
<1>1. RemovalInv /\ [Next]_vars => [RemovalStep]_vars
  BY NextSticks
<1>2. Spec => []RemovalInv
  BY RemovalInvariant
<1> QED BY <1>1, <1>2, PTL DEF Spec, RemovalSticks, RemovalStep
-----------------------------------------------------------------------------
(***************************************************************************)
(* A completed operation is history.                                       *)
(***************************************************************************)
\* A resource nobody asked for has no operation (AcceptVPC, AcceptSubnet).
Untouched == \A r \in Resources : row[r].state = "none" => row[r].op = "none"

LEMMA NextUntouched == RemovalInv /\ Untouched /\ [Next]_vars => Untouched'
<1> SUFFICES ASSUME RemovalInv, Untouched, [Next]_vars PROVE Untouched'
  OBVIOUS
<1> USE DEF dbVars, laneVars, kcVars
<1>1. ASSUME UNCHANGED row PROVE Untouched'
  BY <1>1 DEF Untouched
<1>2. ASSUME NEW r \in Resources, NEW x, row' = [row EXCEPT ![r] = x],
             x.state = "none" => x.op = "none"
      PROVE  Untouched'
  BY <1>2 DEF Untouched, RemovalInv, TypeOK
<1>3. ASSUME NEW r \in Resources, AcceptVPC(r) \/ AcceptSubnet(r)
      PROVE  Untouched'
  BY <1>2, <1>3 DEF AcceptVPC, AcceptSubnet, Accepted, NoRow
<1>4. ASSUME NEW r \in Resources, Supersede(r) PROVE Untouched'
  <2>1. AdmitDeletion(row[r]).state = "deleting"
    BY DEF AdmitDeletion, RemovalInv, TypeOK, Row
  <2> QED BY <1>2, <1>4, <2>1 DEF Supersede
<1>5. ASSUME NEW w \in Workers, NEW r \in Resources, Claim(w, r)
      PROVE  Untouched'
  <2>1. AcquireLease(row[r]).state # "none"
    BY <1>5 DEF Claim, AcquireLease, RemovalInv, TypeOK, Row
  <2> QED BY <1>2, <1>5, <2>1 DEF Claim
<1>6. ASSUME NEW w \in Workers, BeginMutation(w) PROVE Untouched'
  <2>1. work[w].res \in Resources
    BY DEF RemovalInv, TypeOK, Work
  <2>2. CASE \E uid : row' = [row EXCEPT ![work[w].res] =
                                BeginProviderMutation(@, call[w], uid)]
    BY <2>1, <2>2 DEF BeginProviderMutation, Untouched, RemovalInv, TypeOK, Row
  <2> QED BY <1>1, <1>6, <2>2 DEF BeginMutation
<1>7. ASSUME NEW w \in Workers, Finish(w) PROVE Untouched'
  <2> DEFINE r == work[w].res
             x == FinishRow(row[r], work[w].active, prog[w])
  <2>1. r \in Resources /\ row[r] \in Row
    BY DEF RemovalInv, TypeOK, Work
  <2>2. CASE held[w] = Fences /\ row' = [row EXCEPT ![r] = x]
    <3>1. prog[w].state # "none"
      BY <1>7, <2>2 DEF Finish, RemovalInv, FencedState, DraftKeepsRemoval, Keeps
    <3>2. x.state = prog[w].state
      BY <2>1 DEF FinishRow, Row
    <3> QED BY <1>2, <2>1, <2>2, <3>1, <3>2
  <2> QED BY <1>1, <1>7, <2>1, <2>2 DEF Finish, Fenced, RemovalInv, TypeOK
<1>8. ASSUME NEW w \in Workers,
             \/ ObserveDirect(w) \/ ObserveCached(w) \/ ObserveFails(w)
             \/ CheckCreate(w) \/ CheckDelete(w) \/ CheckFails(w)
             \/ CallTimesOut(w) \/ Crash(w)
      PROVE  UNCHANGED row
  BY <1>8 DEF ObserveDirect, ObserveCached, ObserveFails, CheckCreate,
              CheckDelete, CheckFails, CallTimesOut, Crash, Decide, Send
<1>9. ASSUME NEW q \in net,
             ApplyCreate(q) \/ ApplyDelete(q) \/ Refuse(q) \/ Lose(q)
      PROVE  UNCHANGED row
  BY <1>9 DEF ApplyCreate, ApplyDelete, Refuse, Lose, Answer
<1>10. ASSUME NEW r \in Resources, LeaseExpires(r) \/ ObservationAges(r)
       PROVE  Untouched'
  BY <1>10 DEF LeaseExpires, ObservationAges, Untouched, RemovalInv, TypeOK, Row
<1> QED
  BY <1>1, <1>3, <1>4, <1>5, <1>6, <1>7, <1>8, <1>9, <1>10
  DEF Next, LaneStep, ProviderStep, DeleteVPC, DeleteSubnet, Resources,
      Finalize, Vanish, vars

\* What one step may do to a completed operation.
CompletedStep ==
  \A r \in Resources :
    row[r].op \in CompletedStates /\ row'[r].op # row[r].op
      => row[r].state # "deleting" /\ row'[r].state = "deleting"

LEMMA NextCompleted == TypeOK /\ Untouched /\ [Next]_vars => CompletedStep
<1> SUFFICES ASSUME TypeOK, Untouched, [Next]_vars PROVE CompletedStep
  OBVIOUS
<1> USE DEF dbVars, laneVars, kcVars
<1>1. ASSUME UNCHANGED row PROVE CompletedStep
  BY <1>1 DEF CompletedStep
<1>2. ASSUME NEW r \in Resources, NEW x, row' = [row EXCEPT ![r] = x],
             row[r].op \in CompletedStates => x.op = row[r].op
      PROVE  CompletedStep
  BY <1>2 DEF CompletedStep, TypeOK
<1>3. ASSUME NEW r \in Resources, AcceptVPC(r) \/ AcceptSubnet(r)
      PROVE  CompletedStep
  <2>1. row[r].op \notin CompletedStates
    BY <1>3 DEF AcceptVPC, AcceptSubnet, Untouched, CompletedStates
  <2> QED BY <1>2, <1>3, <2>1 DEF AcceptVPC, AcceptSubnet
<1>4. ASSUME NEW r \in Resources, Supersede(r), ~AlreadyRemoved(row[r])
      PROVE  CompletedStep
  <2>1. AdmitDeletion(row[r]).state = "deleting"
    BY DEF AdmitDeletion, TypeOK, Row
  <2> QED BY <1>4, <2>1 DEF Supersede, AlreadyRemoved, CompletedStep, TypeOK
<1>5. ASSUME NEW w \in Workers, NEW r \in Resources, Claim(w, r)
      PROVE  CompletedStep
  <2>1. row[r].op \in CompletedStates => AcquireLease(row[r]).op = row[r].op
    BY DEF AcquireLease, Active, ActiveStates, CompletedStates, TypeOK, Row
  <2> QED BY <1>2, <1>5, <2>1 DEF Claim
<1>6. ASSUME NEW w \in Workers, BeginMutation(w) PROVE CompletedStep
  <2>1. work[w].res \in Resources
    BY DEF TypeOK, Work
  <2>2. CASE \E uid : row' = [row EXCEPT ![work[w].res] =
                                BeginProviderMutation(@, call[w], uid)]
    BY <2>1, <2>2 DEF BeginProviderMutation, CompletedStep, TypeOK, Row
  <2> QED BY <1>1, <1>6, <2>2 DEF BeginMutation
<1>7. ASSUME NEW w \in Workers, Finish(w) PROVE CompletedStep
  <2> DEFINE r == work[w].res
             x == FinishRow(row[r], work[w].active, prog[w])
  <2>1. r \in Resources /\ row[r] \in Row /\ work[w].active \in BOOLEAN
    BY DEF TypeOK, Work
  <2>2. CASE /\ MayFinish(row[r], work[w].active, prog[w])
             /\ row' = [row EXCEPT ![r] = x]
    <3>1. row[r].op \in CompletedStates => ~work[w].active
      BY <2>2 DEF MayFinish, Active, ActiveStates, CompletedStates
    <3>2. ~work[w].active => x.op = row[r].op
      BY <2>1 DEF FinishRow, Row
    <3> QED BY <1>2, <2>1, <2>2, <3>1, <3>2
  <2> QED BY <1>1, <1>7, <2>1, <2>2 DEF Finish, TypeOK
<1>8. ASSUME NEW w \in Workers,
             \/ ObserveDirect(w) \/ ObserveCached(w) \/ ObserveFails(w)
             \/ CheckCreate(w) \/ CheckDelete(w) \/ CheckFails(w)
             \/ CallTimesOut(w) \/ Crash(w)
      PROVE  UNCHANGED row
  BY <1>8 DEF ObserveDirect, ObserveCached, ObserveFails, CheckCreate,
              CheckDelete, CheckFails, CallTimesOut, Crash, Decide, Send
<1>9. ASSUME NEW q \in net,
             ApplyCreate(q) \/ ApplyDelete(q) \/ Refuse(q) \/ Lose(q)
      PROVE  UNCHANGED row
  BY <1>9 DEF ApplyCreate, ApplyDelete, Refuse, Lose, Answer
<1>10. ASSUME NEW r \in Resources, LeaseExpires(r) \/ ObservationAges(r)
       PROVE  CompletedStep
  BY <1>10 DEF LeaseExpires, ObservationAges, CompletedStep, TypeOK, Row
<1> QED
  BY <1>1, <1>3, <1>4, <1>5, <1>6, <1>7, <1>8, <1>9, <1>10
  DEF Next, LaneStep, ProviderStep, DeleteVPC, DeleteSubnet, Resources,
      Finalize, Vanish, vars

\* Continuous observation, by whichever lane, never rewrites the operation
\* that completed: only an admitted removal replaces it.
THEOREM CompletedStays == Spec => CompletedIsHistory
<1>1. Init => Untouched
  <2> SUFFICES ASSUME Init PROVE Untouched
    OBVIOUS
  <2>1. \A r \in Resources : row[r] = NoRow
    BY DEF Init
  <2>2. NoRow.op = "none" /\ NoRow.state = "none"
    BY DEF NoRow
  <2> QED BY <2>1, <2>2 DEF Untouched
<1>2. RemovalInv /\ Untouched /\ [Next]_vars => Untouched'
  BY NextUntouched
<1>3. RemovalInv /\ Untouched /\ [Next]_vars => [CompletedStep]_vars
  BY NextCompleted DEF RemovalInv
<1>4. Spec => []RemovalInv
  BY RemovalInvariant
<1> QED BY <1>1, <1>2, <1>3, <1>4, PTL DEF Spec, CompletedIsHistory, CompletedStep

-----------------------------------------------------------------------------
(***************************************************************************)
(* LifecycleInv is inductive: whatever is lost, late, retried or crashes,  *)
(* a resource gets one object at most, and what its row says of the object *)
(* is true.  ResourceInvariant explains the argument; here it is carried   *)
(* out action by action.                                                   *)
(*                                                                         *)
(* First what one lane may conclude (the lemmas on Sound and Draft), then  *)
(* what leaves a resource and the other lanes alone (Calm), then the       *)
(* actions, and the theorems at the end.                                   *)
(***************************************************************************)
USE DEF dbVars, laneVars, kcVars

-----------------------------------------------------------------------------
(***************************************************************************)
(* What a lane concludes.                                                  *)
(***************************************************************************)
\* The row, seen by a lane that has just claimed it.
Claimed(r, k) ==
  /\ r \in Resources /\ k \in Work
  /\ row[r].state = k.state /\ Active(row[r]) = k.active
  /\ row[r].uid = k.uid /\ row[r].pending = k.pending
  /\ k.state # "none"

\* An observation that is true of r, or, for a lane with nothing under way,
\* was true earlier (observeDirect; the cached view).
Truthful(r, k, seen) ==
  /\ seen \in Observation
  /\ ~seen.exists => ~Exists(r)
  /\ seen.exists => /\ made[r] = 1 /\ seen.uid = 1
                    /\ k.state \notin {"deleted", "failed"}

LEMMA DecideSound ==
  ASSUME LifecycleInv, NEW r, NEW k, NEW seen, Claimed(r, k), Truthful(r, k, seen)
  PROVE  IF NextCall(k, seen) = "none"
           THEN Sound(r, k, StepProgress(k, seen))
           ELSE Draft(r, k, NextCall(k, seen), StepProgress(k, seen))
<1>1. /\ row[r] \in Row /\ made[r] \in Nat /\ k.state \in ResourceStates
      /\ k.active \in BOOLEAN /\ k.uid \in Nat /\ k.fresh \in BOOLEAN
      /\ k.pending \in PendingActions
  BY DEF LifecycleInv, RemovalInv, TypeOK, Claimed, Work
<1>2. /\ PostMayLand(r) => k.pending = "create" /\ k.uid = 0 /\ made[r] = 0
      /\ k.uid \in {0, made[r]} /\ made[r] <= 1
      /\ made[r] = 1 /\ k.uid = 0 => k.pending = "create"
      /\ k.pending = "create" => k.state = "provisioning"
      /\ k.active <=> k.state \in {"provisioning", "deleting"}
      /\ k.state \in {"available", "degraded"} => k.uid # 0
      /\ k.state = "failed" => made[r] = 0 /\ ~PostMayLand(r)
      /\ k.state = "deleted" => ~PostMayLand(r)
  BY <1>1 DEF LifecycleInv, MarkerCoversPost, ObjectIsKnown, MarkerKeepsActive,
              StatesAreTrue, Claimed
<1>3. CASE seen.exists
  <2>1. made[r] = 1 /\ seen.uid = 1 /\ k.state \notin {"deleted", "failed"}
        /\ seen.ready \in BOOLEAN /\ seen.deps \in BOOLEAN /\ ~PostMayLand(r)
    BY <1>2, <1>3 DEF Truthful, Observation
  <2>2. CASE k.state = "deleting"
    BY <1>1, <1>2, <1>3, <2>1, <2>2
    DEF Sound, Draft, Claimed, NextCall, StepProgress, Removing, NeedsDelete,
        DeleteProgress, Observed, StartProgress, ActiveStates
  <2>3. CASE k.state # "deleting"
    BY <1>1, <1>2, <1>3, <2>1, <2>3
    DEF Sound, Draft, Claimed, NextCall, StepProgress, Removing, NeedsCreate,
        EnsureProgress, Settle, Degrade, Observed, StartProgress, ActiveStates,
        ResourceStates
  <2> QED BY <2>2, <2>3
<1>4. CASE ~seen.exists
  <2>1. ~Exists(r) /\ seen.ready \in BOOLEAN /\ seen.deps \in BOOLEAN
    BY <1>4 DEF Truthful, Observation
  <2>2. CASE Removing(k)
    BY <1>1, <1>2, <1>4, <2>1, <2>2
    DEF Sound, Claimed, NextCall, StepProgress, Removing, NeedsDelete,
        DeleteProgress, Observed, StartProgress, ActiveStates
  <2>3. CASE ~Removing(k)
    BY <1>1, <1>2, <1>4, <2>1, <2>3
    DEF Sound, Draft, Claimed, NextCall, StepProgress, Removing, NeedsCreate,
        EnsureProgress, Degrade, Observed, StartProgress, ActiveStates,
        ResourceStates
  <2> QED BY <2>2, <2>3
<1> QED BY <1>3, <1>4 DEF Truthful, Observation

LEMMA ObserveFailedSound ==
  ASSUME LifecycleInv, NEW r, NEW k, NEW kind, Claimed(r, k)
  PROVE  Sound(r, k, ObserveFailed(k, kind))
<1>1. /\ row[r] \in Row /\ made[r] \in Nat /\ k.state \in ResourceStates
      /\ k.active \in BOOLEAN /\ k.uid \in Nat /\ k.fresh \in BOOLEAN
      /\ k.pending \in PendingActions
  BY DEF LifecycleInv, RemovalInv, TypeOK, Claimed, Work
<1>2. /\ k.uid \in {0, made[r]}
      /\ k.pending = "create" => k.state = "provisioning"
      /\ k.active <=> k.state \in {"provisioning", "deleting"}
      /\ k.state \in {"available", "degraded"} => k.uid # 0
      /\ k.state = "failed" => made[r] = 0 /\ ~PostMayLand(r)
      /\ k.state = "deleted" => ~Exists(r)
  BY <1>1 DEF LifecycleInv, ObjectIsKnown, MarkerKeepsActive, StatesAreTrue, Claimed
<1> QED
  BY <1>1, <1>2 DEF Sound, Claimed, ObserveFailed, StartProgress, Removing,
                    ActiveStates, ResourceStates

\* The answers to a POST, true once the request is gone: it made the object,
\* it left nothing, or nobody knows.
LEMMA CreateSucceededSound ==
  ASSUME NEW r, NEW k \in Work, NEW p \in Progress, NEW ready \in BOOLEAN,
         Draft(r, k, "create", p), ~PostMayLand(r)', made'[r] = 1
  PROVE  Sound(r, k, CreateSucceeded(k, p, 1, ready))'
BY DEF Sound, Draft, CreateSucceeded, Settle, Degrade, Removing, Work, Progress,
       ActiveStates

LEMMA CreateFailedSound ==
  ASSUME NEW r, NEW k \in Work, NEW p \in Progress, NEW kind,
         Draft(r, k, "create", p), made'[r] \in Nat,
         kind # "uncertain" => ~PostMayLand(r)' /\ made'[r] = 0
  PROVE  Sound(r, k, CreateFailed(k, p, kind))'
BY DEF Sound, Draft, CreateFailed, Removing, Work, Progress, ActiveStates

\* The answers to a DELETE settle nothing.
LEMMA DeleteAnsweredSound ==
  ASSUME NEW r, NEW k \in Work, NEW p \in Progress, NEW kind,
         Draft(r, k, "delete", p), made'[r] = made[r], row'[r].pending # "create"
  PROVE  Sound(r, k, DeleteAnswered(k, p, kind))'
BY DEF Sound, Draft, DeleteAnswered, Removing, Work, Progress, ActiveStates

-----------------------------------------------------------------------------
(***************************************************************************)
(* The invariant by resource and by lane, and what leaves each part alone. *)
(***************************************************************************)
ResourceInv(r) ==
  /\ PostMayLand(r) => /\ row[r].pending = "create"
                       /\ row[r].uid = 0
                       /\ made[r] = 0
  /\ made[r] <= 1
  /\ Exists(r) => made[r] = 1
  /\ row[r].uid \in {0, made[r]}
  /\ made[r] = 1 /\ row[r].uid = 0 => row[r].pending = "create"
  /\ row[r].pending = "create" => row[r].state = "provisioning"
  /\ Active(row[r]) <=> row[r].state \in {"provisioning", "deleting"}
  /\ row[r].state = "none" => row[r] = NoRow /\ made[r] = 0
  /\ row[r].state \in {"none", "deleted", "failed"} => ~Exists(r) /\ ~PostMayLand(r)
  /\ row[r].state = "failed" => made[r] = 0
  /\ row[r].state \in {"available", "degraded"} => row[r].uid # 0

OnePost ==
  \A r \in Resources :
     /\ \A q1, q2 \in net : Posted(q1, r) /\ Posted(q2, r) => q1 = q2
     /\ \A w1, w2 \in Workers : Checking(w1, r) /\ Checking(w2, r) => w1 = w2
     /\ \A q \in net, w \in Workers : ~(Posted(q, r) /\ Checking(w, r))

View(w) ==
  LET r == work[w].res
  IN /\ Active(row[r]) = work[w].active
     /\ pc[w] \in {"claimed", "begin"} =>
          row[r].uid = work[w].uid /\ row[r].pending = work[w].pending
     /\ pc[w] \in {"check", "sent"} => row[r].pending = call[w]

LaneInv(w) ==
  held[w] = Fences =>
    /\ View(w)
    /\ pc[w] \in {"begin", "check", "sent"} =>
         Draft(work[w].res, work[w], call[w], prog[w])
    /\ pc[w] = "finish" => Sound(work[w].res, work[w], prog[w])

LEMMA Parts ==
  LifecycleInv <=>
    /\ RemovalInv /\ OneOwner /\ OnePost /\ WaitsForRequest /\ ChildrenBlockRemoval
    /\ \A r \in Resources : ResourceInv(r)
    /\ \A w \in Workers : LaneInv(w)
<1>1. /\ MarkerCoversPost /\ ObjectIsKnown /\ MarkerKeepsActive /\ StatesAreTrue
      <=> OnePost /\ \A r \in Resources : ResourceInv(r)
  BY DEF MarkerCoversPost, ObjectIsKnown, MarkerKeepsActive, StatesAreTrue, OnePost,
         ResourceInv
<1>2. FencedView /\ ConclusionHolds <=> \A w \in Workers : LaneInv(w)
  BY DEF FencedView, ConclusionHolds, LaneInv, View
<1> QED BY <1>1, <1>2 DEF LifecycleInv

LEMMA PartsNext ==
  ASSUME RemovalInv', OneOwner', OnePost', WaitsForRequest', ChildrenBlockRemoval',
         \A r \in Resources : ResourceInv(r)',
         \A w \in Workers : LaneInv(w)'
  PROVE  LifecycleInv'
<1>1. /\ MarkerCoversPost' /\ ObjectIsKnown' /\ MarkerKeepsActive' /\ StatesAreTrue'
  BY DEF MarkerCoversPost, ObjectIsKnown, MarkerKeepsActive, StatesAreTrue, OnePost,
         ResourceInv
<1>2. FencedView' /\ ConclusionHolds'
  BY DEF FencedView, ConclusionHolds, LaneInv, View
<1> QED BY <1>1, <1>2 DEF LifecycleInv

\* The step lets nobody send a POST who could not before.
NoNewPost ==
  /\ net' \subseteq net
  /\ \A w \in Workers : pc'[w] = "check" =>
       pc[w] = "check" /\ call'[w] = call[w] /\ work'[w] = work[w]

LEMMA NoNewPostKeeps ==
  ASSUME NoNewPost, OnePost
  PROVE  /\ OnePost'
         /\ \A r : PostMayLand(r)' => PostMayLand(r)
<1>1. OnePost'
  BY DEF NoNewPost, OnePost, Posted, Checking
<1>2. \A r : PostMayLand(r)' => PostMayLand(r)
  BY DEF NoNewPost, PostMayLand
<1> QED BY <1>1, <1>2

\* The step leaves r, its object and its row alone, but for lease and age.
Calm(r) ==
  /\ row'[r].state = row[r].state /\ Active(row'[r]) = Active(row[r])
  /\ row'[r].uid = row[r].uid /\ row'[r].pending = row[r].pending
  /\ row[r].state = "none" => row'[r] = row[r]
  /\ made'[r] = made[r]
  /\ Exists(r)' => Exists(r)
  /\ PostMayLand(r)' => PostMayLand(r)

LEMMA CalmResource ==
  ASSUME NEW r, ResourceInv(r), Calm(r)
  PROVE  ResourceInv(r)'
BY DEF ResourceInv, Calm, Active

LEMMA CalmSound ==
  ASSUME NEW r, NEW k, NEW p, Sound(r, k, p), Calm(r)
  PROVE  Sound(r, k, p)'
BY DEF Sound, Calm, Removing

\* A lane that the step does not concern, on a calm resource.
LEMMA CalmLane ==
  ASSUME NEW w \in Workers, LaneInv(w), held'[w] = Fences => held[w] = Fences,
         held[w] = Fences => Calm(work[w].res),
         pc'[w] = pc[w], call'[w] = call[w], work'[w] = work[w], prog'[w] = prog[w]
  PROVE  LaneInv(w)'
<1> SUFFICES ASSUME held'[w] = Fences PROVE LaneInv(w)'
  BY DEF LaneInv
<1>1. LaneInv(w) /\ held[w] = Fences /\ Calm(work[w].res)
  OBVIOUS
<1>2. View(w)'
  BY <1>1 DEF LaneInv, View, Calm
<1>3. ASSUME pc[w] \in {"begin", "check", "sent"}
      PROVE  Draft(work[w].res, work[w], call[w], prog[w])'
  BY <1>1, <1>3 DEF LaneInv, Draft, Calm
<1>4. ASSUME pc[w] = "finish" PROVE Sound(work[w].res, work[w], prog[w])'
  <2>1. Sound(work[w].res, work[w], prog[w])
    BY <1>1, <1>4 DEF LaneInv
  <2> QED BY <1>1, <2>1 DEF Sound, Calm, Removing
<1> QED BY <1>2, <1>3, <1>4 DEF LaneInv

-----------------------------------------------------------------------------
(***************************************************************************)
(* The actions of the API.                                                 *)
(***************************************************************************)
\* A step that leaves lanes, requests and objects alone and changes the row of
\* r, on which no lane holds its fences afterwards.
LEMMA OneRowChanges ==
  ASSUME LifecycleInv, RemovalInv', NEW r \in Resources, NEW x,
         row' = [row EXCEPT ![r] = x],
         UNCHANGED <<laneVars, kcVars>>,
         \A w \in Workers : /\ held'[w] \subseteq held[w]
                            /\ held'[w] = Fences => work[w].res # r,
         ResourceInv(r)', ChildrenBlockRemoval'
  PROVE  LifecycleInv'
<1> USE Parts
<1>0. TypeOK /\ TypeOK' /\ \A w \in Workers : work[w].res \in Resources
  BY DEF LifecycleInv, RemovalInv, TypeOK, Work
<1>1. NoNewPost
  BY DEF NoNewPost
<1>2. OnePost' /\ \A y : PostMayLand(y)' => PostMayLand(y)
  BY <1>1, NoNewPostKeeps
<1>3. \A y \in Resources : y # r => Calm(y)
  BY <1>0, <1>2 DEF Calm, TypeOK, Exists, Active
<1>4. \A y \in Resources : ResourceInv(y)'
  BY <1>3, CalmResource
<1>5. ASSUME NEW w \in Workers PROVE LaneInv(w)'
  <2>1. held'[w] = Fences => held[w] = Fences /\ Calm(work[w].res)
    BY <1>0, <1>3 DEF TypeOK
  <2>2. CASE held'[w] = Fences
    BY <2>1, <2>2, CalmLane
  <2>3. CASE held'[w] # Fences
    BY <2>3 DEF LaneInv
  <2> QED BY <2>2, <2>3
<1>6. OneOwner'
  BY <1>0 DEF OneOwner, TypeOK
<1>7. WaitsForRequest'
  BY DEF WaitsForRequest
<1> QED BY <1>2, <1>4, <1>5, <1>6, <1>7, PartsNext

LEMMA AcceptKeeps ==
  ASSUME LifecycleInv, RemovalInv', NEW r \in Resources,
         \/ r \in Vpcs /\ AcceptVPC(r)
         \/ r \in Subnets /\ AcceptSubnet(r)
  PROVE  LifecycleInv'
<1>1. /\ row' = [row EXCEPT ![r] = Accepted] /\ row[r].state = "none"
      /\ UNCHANGED <<held, laneVars, kcVars>>
  BY DEF AcceptVPC, AcceptSubnet
<1>2. TypeOK /\ ResourceInv(r)
  BY Parts DEF LifecycleInv, RemovalInv
<1>3. row'[r] = Accepted /\ made'[r] = 0 /\ ~Exists(r)' /\ ~PostMayLand(r)'
  BY <1>1, <1>2 DEF TypeOK, ResourceInv, Exists, PostMayLand
<1>4. ResourceInv(r)'
  BY <1>3 DEF ResourceInv, Accepted, NoRow, Active, ActiveStates
<1>5. \A w \in Workers : held'[w] = Fences => work[w].res # r
  BY <1>1 DEF LifecycleInv, RemovalInv, FencedState
<1>6. ChildrenBlockRemoval'
  BY <1>1, <1>2, <1>3, ResourcesAssumption
  DEF LifecycleInv, ChildrenBlockRemoval, AlreadyRemoved, Accepted, NoRow,
      AcceptVPC, AcceptSubnet, ParentReady, TypeOK, Resources
<1> QED BY <1>1, <1>4, <1>5, <1>6, OneRowChanges

LEMMA SupersedeKeeps ==
  ASSUME LifecycleInv, RemovalInv', NEW r \in Resources,
         \/ r \in Vpcs /\ DeleteVPC(r)
         \/ r \in Subnets /\ DeleteSubnet(r)
  PROVE  LifecycleInv'
<1>1. /\ row' = [row EXCEPT ![r] = AdmitDeletion(row[r])] /\ held' = Bump(r, Fences)
      /\ row[r].state \notin {"none", "deleting", "deleted"} /\ ~Active(row[r])
      /\ UNCHANGED <<laneVars, kcVars>>
  BY DEF DeleteVPC, DeleteSubnet, Supersede, AlreadyRemoved
<1>2. TypeOK /\ ResourceInv(r) /\ row[r] \in Row
  BY Parts DEF LifecycleInv, RemovalInv, TypeOK
<1>3. /\ row'[r].state = "deleting" /\ row'[r].op = "queued"
      /\ row'[r].uid = row[r].uid /\ row'[r].pending = row[r].pending
      /\ made'[r] = made[r] /\ Exists(r)' = Exists(r) /\ ~PostMayLand(r)'
  BY <1>1, <1>2 DEF TypeOK, ResourceInv, Exists, PostMayLand, AdmitDeletion, Row
<1>4. ResourceInv(r)'
  BY <1>1, <1>2, <1>3 DEF ResourceInv, Active, ActiveStates
<1>5. \A w \in Workers : /\ held'[w] \subseteq held[w]
                         /\ held'[w] = Fences => work[w].res # r
  BY <1>1, <1>2 DEF Bump, TypeOK, Fences
<1>6. ChildrenBlockRemoval'
  <2>1. CASE r \in Vpcs /\ DeleteVPC(r)
    BY <1>1, <1>2, <1>3, <2>1, ResourcesAssumption
    DEF LifecycleInv, ChildrenBlockRemoval, AlreadyRemoved, DeleteVPC,
        BlockedBySubnets, Children, TypeOK, Resources
  <2>2. CASE r \in Subnets /\ DeleteSubnet(r)
    BY <1>1, <1>2, <1>3, <2>2, ResourcesAssumption
    DEF LifecycleInv, ChildrenBlockRemoval, AlreadyRemoved, TypeOK, Resources
  <2> QED BY <2>1, <2>2
<1> QED BY <1>1, <1>4, <1>5, <1>6, OneRowChanges

-----------------------------------------------------------------------------
(***************************************************************************)
(* The steps of a lane and the answers of the provider that leave the rows *)
(* alone.                                                                  *)
(***************************************************************************)
\* Objects may go, requests may go, and a lane may reach a decision or a
\* conclusion that holds; the request another lane waits for stays.
LEMMA LanesMove ==
  ASSUME LifecycleInv, RemovalInv', UNCHANGED <<row, held, work, made>>,
         net' \subseteq net, \A r \in Resources : Exists(r)' => Exists(r),
         \A w \in Workers :
            \/ /\ pc'[w] = pc[w] /\ call'[w] = call[w] /\ prog'[w] = prog[w]
               /\ \A q \in net : q \notin net' =>
                    ~(q.from = w /\ Waits(q))
            \/ pc'[w] \in {"begin", "finish"} /\ LaneInv(w)'
  PROVE  LifecycleInv'
<1> USE Parts
<1>0. TypeOK /\ \A w \in Workers : work[w].res \in Resources
  BY DEF LifecycleInv, RemovalInv, TypeOK, Work
<1>1. NoNewPost
  BY <1>0 DEF NoNewPost, TypeOK
<1>2. OnePost' /\ \A y : PostMayLand(y)' => PostMayLand(y)
  BY <1>1, NoNewPostKeeps
<1>3. \A y \in Resources : Calm(y)
  BY <1>2 DEF Calm
<1>4. \A y \in Resources : ResourceInv(y)'
  BY <1>3, CalmResource
<1>5. ASSUME NEW w \in Workers PROVE LaneInv(w)'
  <2>1. CASE pc'[w] = pc[w] /\ call'[w] = call[w] /\ prog'[w] = prog[w]
    BY <1>0, <1>3, <2>1, CalmLane
  <2> QED BY <2>1
<1>6. OneOwner'
  BY DEF OneOwner
<1>7. WaitsForRequest'
  BY <1>0 DEF WaitsForRequest, Waits
<1>8. ChildrenBlockRemoval'
  BY DEF ChildrenBlockRemoval
<1> QED BY <1>2, <1>4, <1>5, <1>6, <1>7, <1>8, PartsNext

\* A lane reaches its conclusion.
LEMMA ConcludeInv ==
  ASSUME LifecycleInv, NEW w \in Workers, NEW p, Conclude(w, p),
         UNCHANGED <<row, held>>,
         held[w] = Fences => Sound(work[w].res, work[w], p)'
  PROVE  pc'[w] = "finish" /\ LaneInv(w)'
<1>1. /\ pc'[w] = "finish" /\ prog'[w] = p /\ work'[w] = work[w]
      /\ LaneInv(w)
  BY Parts DEF Conclude, LifecycleInv, RemovalInv, TypeOK
<1>2. held[w] = Fences => View(w)'
  BY <1>1 DEF LaneInv, View
<1>3. held[w] = Fences => Sound(work[w].res, work[w], prog[w])'
  BY <1>1 DEF Sound, Removing
<1> QED BY <1>1, <1>2, <1>3 DEF LaneInv

LEMMA FinalizeKeeps ==
  ASSUME LifecycleInv, RemovalInv', NEW r \in Resources, Finalize(r) \/ Vanish(r)
  PROVE  LifecycleInv'
BY LanesMove DEF Finalize, Vanish, Exists, LifecycleInv, RemovalInv, TypeOK

\* What a lane sees of its resource right after the claim.
LEMMA ClaimedView ==
  ASSUME LifecycleInv, NEW w \in Workers, pc[w] = "claimed", held[w] = Fences
  PROVE  Claimed(work[w].res, work[w])
BY Parts DEF Claimed, LifecycleInv, RemovalInv, TypeOK, Work, FencedState, LaneInv, View

LEMMA DecideLane ==
  ASSUME LifecycleInv, RemovalInv', NEW w \in Workers, NEW seen \in Observation,
         pc[w] = "claimed", Decide(w, seen),
         held[w] = Fences => Truthful(work[w].res, work[w], seen)
  PROVE  LifecycleInv'
<1> DEFINE r == work[w].res
           k == work[w]
           p == StepProgress(k, seen)
           c == NextCall(k, seen)
<1>0. TypeOK /\ LaneInv(w)
  BY Parts DEF LifecycleInv, RemovalInv
<1>1. /\ UNCHANGED <<row, held, work, net, obj, made>>
      /\ pc'[w] = IF c = "none" THEN "finish" ELSE "begin"
      /\ call'[w] = c /\ prog'[w] = p
      /\ \A x \in Workers : x # w =>
           pc'[x] = pc[x] /\ call'[x] = call[x] /\ prog'[x] = prog[x]
  BY <1>0 DEF Decide, TypeOK
<1>2. ASSUME held[w] = Fences
      PROVE  IF c = "none" THEN Sound(r, k, p) ELSE Draft(r, k, c, p)
  BY <1>2, ClaimedView, DecideSound
<1>3. PostMayLand(r)' => PostMayLand(r)
  BY <1>0, <1>1 DEF PostMayLand
<1>4. held[w] = Fences => View(w)'
  BY <1>0, <1>1 DEF LaneInv, View
<1>5. ASSUME held[w] = Fences, c = "none" PROVE Sound(work[w].res, work[w], prog[w])'
  <2>1. Sound(r, k, p)
    BY <1>2, <1>5
  <2> HIDE DEF p, c
  <2> QED BY <1>1, <1>3, <2>1 DEF Sound, Removing, Exists
<1>6. ASSUME held[w] = Fences, c # "none"
      PROVE  Draft(work[w].res, work[w], call[w], prog[w])'
  <2>1. Draft(r, k, c, p)
    BY <1>2, <1>6
  <2> HIDE DEF p, c
  <2> QED BY <1>1, <2>1 DEF Draft
<1>7. pc'[w] \in {"begin", "finish"} /\ LaneInv(w)'
  BY <1>1, <1>4, <1>5, <1>6 DEF LaneInv
<1> HIDE DEF p, c
<1> QED BY <1>1, <1>7, LanesMove DEF Exists

LEMMA ObserveKeeps ==
  ASSUME LifecycleInv, RemovalInv', NEW w \in Workers,
         ObserveDirect(w) \/ ObserveCached(w)
  PROVE  LifecycleInv'
<1> DEFINE r == work[w].res
<1>1. /\ work[w] \in Work /\ r \in Resources /\ made[r] \in Nat
      /\ HasDependencies(r) \in BOOLEAN /\ pc[w] = "claimed"
  BY DEF LifecycleInv, RemovalInv, TypeOK, Work, HasDependencies, BlockedBySubnets,
         ObserveDirect, ObserveCached
<1>2. ResourceInv(r) /\ (held[w] = Fences => Claimed(r, work[w]))
  BY <1>1, Parts, ClaimedView
<1>3. CASE ObserveDirect(w)
  <2>1. PICK seen \in Observation :
          /\ Decide(w, seen)
          /\ seen.exists <=> Exists(r)
          /\ seen.exists => seen.uid = made[r]
    <3>1. CASE ~Exists(r)
      <4> DEFINE s == [exists |-> FALSE, uid |-> 0, ready |-> FALSE, deps |-> HasDependencies(r)]
      <4>1. Decide(w, s) /\ s \in Observation /\ ~s.exists
        BY <1>1, <1>3, <3>1 DEF ObserveDirect, Observation
      <4> QED BY <3>1, <4>1
    <3>2. CASE Exists(r)
      <4>1. PICK ready \in BOOLEAN, deps \in BOOLEAN :
              Decide(w, [exists |-> TRUE, uid |-> made[r], ready |-> ready, deps |-> deps])
        BY <1>3, <3>2 DEF ObserveDirect
      <4> DEFINE s == [exists |-> TRUE, uid |-> made[r], ready |-> ready, deps |-> deps]
      <4>2. s \in Observation /\ s.exists /\ s.uid = made[r]
        BY <1>1 DEF Observation
      <4> QED BY <3>2, <4>1, <4>2
    <3> QED BY <3>1, <3>2
  <2>2. held[w] = Fences => Truthful(r, work[w], seen)
    BY <1>2, <2>1 DEF Truthful, ResourceInv, Claimed
  <2> QED BY <1>1, <2>1, <2>2, DecideLane
<1>4. CASE ObserveCached(w)
  <2>1. PICK seen \in Observation :
          Decide(w, seen) /\ seen.exists /\ seen.uid = work[w].uid
    <3>1. PICK ready \in BOOLEAN :
            Decide(w, [exists |-> TRUE, uid |-> work[w].uid, ready |-> ready, deps |-> FALSE])
      BY <1>4 DEF ObserveCached
    <3> DEFINE s == [exists |-> TRUE, uid |-> work[w].uid, ready |-> ready, deps |-> FALSE]
    <3>2. s \in Observation /\ s.exists /\ s.uid = work[w].uid
      BY <1>1 DEF Observation, Work
    <3> QED BY <3>1, <3>2
  <2>2. work[w].uid # 0 /\ work[w].state # "deleted"
    BY <1>4 DEF ObserveCached
  <2>3. held[w] = Fences => Truthful(r, work[w], seen)
    BY <1>1, <1>2, <2>1, <2>2 DEF Truthful, ResourceInv, Claimed
  <2> QED BY <1>1, <2>1, <2>3, DecideLane
<1> QED BY <1>3, <1>4

\* One lane concludes, and nothing else happens.
LEMMA ConcludeKeepsAll ==
  ASSUME LifecycleInv, RemovalInv', NEW w \in Workers, NEW p, Conclude(w, p),
         UNCHANGED <<dbVars, kcVars>>,
         held[w] = Fences => Sound(work[w].res, work[w], p)'
  PROVE  LifecycleInv'
<1>1. /\ UNCHANGED <<row, held, work, net, obj, made>>
      /\ \A x \in Workers : x # w =>
           pc'[x] = pc[x] /\ call'[x] = call[x] /\ prog'[x] = prog[x]
  BY DEF Conclude, LifecycleInv, RemovalInv, TypeOK
<1>2. pc'[w] = "finish" /\ LaneInv(w)'
  BY <1>1, ConcludeInv
<1> QED BY <1>1, <1>2, LanesMove DEF Exists

LEMMA ObserveFailsKeeps ==
  ASSUME LifecycleInv, RemovalInv', NEW w \in Workers, ObserveFails(w)
  PROVE  LifecycleInv'
<1>1. PICK kind, p : p = ObserveFailed(work[w], kind) /\ Conclude(w, p)
  BY DEF ObserveFails
<1>2. UNCHANGED <<dbVars, kcVars, work>> /\ pc[w] = "claimed"
  BY <1>1 DEF ObserveFails, Conclude
<1>3. held[w] = Fences => Sound(work[w].res, work[w], p)
  BY <1>1, <1>2, ClaimedView, ObserveFailedSound
<1>4. PostMayLand(work[w].res)' => PostMayLand(work[w].res)
  BY <1>1, <1>2 DEF PostMayLand, Conclude, LifecycleInv, RemovalInv, TypeOK
<1>5. held[w] = Fences => Sound(work[w].res, work[w], p)'
  BY <1>2, <1>3, <1>4 DEF Sound, Removing, Exists
<1> QED BY <1>1, <1>2, <1>5, ConcludeKeepsAll

\* Before the POST there is neither an object nor an identity, and no other
\* POST: a lane that turns back leaves none.
LEMMA CheckingAlone ==
  ASSUME LifecycleInv, NEW w \in Workers, Checking(w, work[w].res)
  PROVE  /\ made[work[w].res] = 0 /\ ~Exists(work[w].res)
         /\ \A q \in net : ~Posted(q, work[w].res)
         /\ \A x \in Workers : Checking(x, work[w].res) => x = w
<1>1. work[w].res \in Resources /\ PostMayLand(work[w].res)
  BY DEF LifecycleInv, RemovalInv, TypeOK, Work, Checking, PostMayLand
<1> QED BY <1>1, Parts DEF ResourceInv, OnePost

\* A lane whose fences match and that is in a call: what it drafted.
LEMMA CallDraft ==
  ASSUME LifecycleInv, NEW w \in Workers, pc[w] \in {"check", "sent"}
  PROVE  /\ work[w] \in Work /\ prog[w] \in Progress /\ work[w].res \in Resources
         /\ made[work[w].res] \in Nat
         /\ held[w] = Fences =>
              /\ Draft(work[w].res, work[w], call[w], prog[w])
              /\ row[work[w].res].pending = call[w]
BY Parts DEF LaneInv, View, LifecycleInv, RemovalInv, TypeOK, Work

LEMMA CheckFailedKeeps ==
  ASSUME LifecycleInv, RemovalInv', NEW w \in Workers, NEW kind,
         pc[w] = "check", call[w] = "create",
         Conclude(w, CreateFailed(work[w], prog[w], kind)), UNCHANGED <<dbVars, kcVars>>
  PROVE  LifecycleInv'
<1> DEFINE r == work[w].res
<1>1. PICK p : p = CreateFailed(work[w], prog[w], kind)
  OBVIOUS
<1>2. Checking(w, r) /\ Conclude(w, p) /\ UNCHANGED <<call, work>>
  BY <1>1 DEF Checking, Conclude
<1>3. ~PostMayLand(r)' /\ made'[r] = 0
  BY <1>2, CheckingAlone DEF PostMayLand, Posted, Checking, Conclude, LifecycleInv,
                             RemovalInv, TypeOK
<1>4. ASSUME held[w] = Fences PROVE Sound(work[w].res, work[w], p)'
  <2>1. PICK x, k : x = r /\ k = work[w]
    OBVIOUS
  <2>2. /\ k \in Work /\ prog[w] \in Progress /\ Draft(x, k, "create", prog[w])
        /\ p = CreateFailed(k, prog[w], kind) /\ ~PostMayLand(x)' /\ made'[x] = 0
    BY <1>1, <1>3, <1>4, <2>1, <1>2, CallDraft
  <2>3. PICK d : d = prog[w]
    OBVIOUS
  <2>4. Sound(x, k, CreateFailed(k, d, kind))'
    BY <2>2, <2>3, CreateFailedSound
  <2>5. CreateFailed(k, d, kind) = p /\ work'[w] = k
    BY <2>1, <2>2, <2>3, <1>2
  <2> QED BY <2>1, <2>4, <2>5
<1> QED BY <1>2, <1>4, ConcludeKeepsAll

\* The answer to a DELETE, or its failure.
LEMMA DeleteConcludes ==
  ASSUME LifecycleInv, NEW w \in Workers, NEW kind,
         pc[w] \in {"check", "sent"}, call[w] = "delete", held[w] = Fences,
         UNCHANGED <<row, made, work>>,
         NEW p, p = DeleteAnswered(work[w], prog[w], kind)
  PROVE  Sound(work[w].res, work[w], p)'
<1>1. PICK x, k, d : x = work[w].res /\ k = work[w] /\ d = prog[w]
  OBVIOUS
<1>2. /\ k \in Work /\ d \in Progress /\ Draft(x, k, "delete", d)
      /\ row'[x].pending # "create" /\ made'[x] = made[x]
  BY <1>1, CallDraft
<1>3. Sound(x, k, DeleteAnswered(k, d, kind))'
  BY <1>2, DeleteAnsweredSound
<1>4. DeleteAnswered(k, d, kind) = p /\ work'[w] = k
  BY <1>1
<1> QED BY <1>1, <1>3, <1>4

\* A POST whose fate nobody knows settles nothing.
LEMMA UncertainConcludes ==
  ASSUME LifecycleInv, NEW w \in Workers,
         pc[w] \in {"check", "sent"}, call[w] = "create", held[w] = Fences,
         UNCHANGED <<row, made, work>>,
         NEW p, p = CreateFailed(work[w], prog[w], "uncertain")
  PROVE  Sound(work[w].res, work[w], p)'
<1>1. PICK x, k, d : x = work[w].res /\ k = work[w] /\ d = prog[w]
  OBVIOUS
<1>2. k \in Work /\ d \in Progress /\ Draft(x, k, "create", d) /\ made'[x] \in Nat
  BY <1>1, CallDraft
<1>3. Sound(x, k, CreateFailed(k, d, "uncertain"))'
  BY <1>2, CreateFailedSound
<1>4. CreateFailed(k, d, "uncertain") = p /\ work'[w] = k
  BY <1>1
<1> QED BY <1>1, <1>3, <1>4

LEMMA CheckFailsKeeps ==
  ASSUME LifecycleInv, RemovalInv', NEW w \in Workers, CheckFails(w)
  PROVE  LifecycleInv'
<1>1. PICK kind, p : p = CallFailed(w, kind) /\ Conclude(w, p)
  BY DEF CheckFails
<1>2. pc[w] = "check" /\ UNCHANGED <<dbVars, kcVars, work>>
  BY <1>1 DEF CheckFails, Conclude
<1>3. CASE call[w] = "create"
  BY <1>1, <1>2, <1>3, CheckFailedKeeps DEF CallFailed
<1>4. CASE call[w] # "create"
  <2>1. held[w] = Fences => Sound(work[w].res, work[w], p)'
    BY <1>1, <1>2, <1>4, DeleteConcludes, CallDraft DEF CallFailed, Draft
  <2> QED BY <1>1, <1>2, <2>1, ConcludeKeepsAll
<1> QED BY <1>3, <1>4

LEMMA CallTimesOutKeeps ==
  ASSUME LifecycleInv, RemovalInv', NEW w \in Workers, CallTimesOut(w)
  PROVE  LifecycleInv'
<1>1. PICK p : p = CallFailed(w, "uncertain") /\ Conclude(w, p)
  BY DEF CallTimesOut
<1>2. pc[w] = "sent" /\ UNCHANGED <<dbVars, kcVars, work>>
  BY <1>1 DEF CallTimesOut, Conclude
<1>3. held[w] = Fences => Sound(work[w].res, work[w], p)'
  <2>1. CASE call[w] = "create"
    BY <1>1, <1>2, <2>1, UncertainConcludes DEF CallFailed
  <2>2. CASE call[w] # "create"
    BY <1>1, <1>2, <2>2, DeleteConcludes, CallDraft DEF CallFailed, Draft
  <2> QED BY <2>1, <2>2
<1> QED BY <1>1, <1>2, <1>3, ConcludeKeepsAll

\* The request leaves; what was a lane past BeginMutation is now a POST.
LEMMA SendKeeps ==
  ASSUME LifecycleInv, RemovalInv', NEW w \in Workers, NEW uid, Send(w, uid),
         pc[w] = "check", call[w] \in {"create", "delete"}
  PROVE  LifecycleInv'
<1> USE Parts
<1> DEFINE r == work[w].res
           q == [from |-> w, kind |-> call[w], res |-> r, uid |-> uid]
<1>0. TypeOK /\ \A x \in Workers : work[x].res \in Resources
  BY DEF LifecycleInv, RemovalInv, TypeOK, Work
<1>1. /\ net' = net \cup {q} /\ pc' = [pc EXCEPT ![w] = "sent"]
      /\ UNCHANGED <<call, work, prog, row, held, obj, made>>
      /\ q.from = w /\ q.kind = call[w] /\ q.res = r
  BY DEF Send
<1> HIDE DEF q
<1>2. \A y : PostMayLand(y)' => PostMayLand(y)
  BY <1>0, <1>1 DEF PostMayLand, TypeOK
<1>3. OnePost'
  <2>1. CASE call[w] = "create"
    <3>1. Checking(w, r)
      BY <2>1 DEF Checking
    <3>2. /\ \A z \in net : ~Posted(z, r)
          /\ \A x \in Workers : Checking(x, r) => x = w
      BY <3>1, CheckingAlone
    <3>3. \A x \in Workers, y \in Resources : Checking(x, y)' => x # w /\ Checking(x, y)
      BY <1>0, <1>1 DEF Checking, TypeOK
    <3>4. \A z, y : Posted(z, y)' => Posted(z, y) \/ (z = q /\ y = r)
      BY <1>1 DEF Posted
    <3> QED BY <3>2, <3>3, <3>4 DEF OnePost, Posted
  <2>2. CASE call[w] # "create"
    <3>1. \A x \in Workers, y \in Resources : Checking(x, y)' => Checking(x, y)
      BY <1>0, <1>1 DEF Checking, TypeOK
    <3>2. \A z, y : Posted(z, y)' => Posted(z, y)
      BY <1>1, <2>2 DEF Posted
    <3> QED BY <3>1, <3>2 DEF OnePost, Posted
  <2> QED BY <2>1, <2>2
<1>4. \A y \in Resources : Calm(y) /\ ResourceInv(y)'
  BY <1>1, <1>2, CalmResource DEF Calm, Exists
<1>5. ASSUME NEW x \in Workers PROVE LaneInv(x)'
  <2>1. CASE x # w
    BY <1>0, <1>1, <1>4, <2>1, CalmLane DEF TypeOK
  <2>2. CASE x = w
    <3>1. pc'[w] = "sent" /\ LaneInv(w)
      BY <1>0, <1>1 DEF TypeOK
    <3>2. held[w] = Fences => View(w)'
      BY <1>1, <3>1 DEF LaneInv, View
    <3>3. held[w] = Fences => Draft(work[w].res, work[w], call[w], prog[w])'
      BY <1>1, <3>1 DEF LaneInv, Draft
    <3> QED BY <1>1, <2>2, <3>1, <3>2, <3>3 DEF LaneInv
  <2> QED BY <2>1, <2>2
<1>6. OneOwner' /\ ChildrenBlockRemoval'
  BY <1>0, <1>1 DEF OneOwner, ChildrenBlockRemoval, TypeOK
<1>7. WaitsForRequest'
  <2> SUFFICES ASSUME NEW x \in Workers, pc'[x] = "sent"
               PROVE  /\ call'[x] \in {"create", "delete"}
                      /\ \E z \in net' : /\ z.from = x /\ z.kind = call'[x]
                                         /\ z.res = work'[x].res
    BY DEF WaitsForRequest
  <2>1. CASE x = w
    BY <1>1, <2>1
  <2>2. CASE x # w
    BY <1>0, <1>1, <2>2 DEF WaitsForRequest, TypeOK
  <2> QED BY <2>1, <2>2
<1> QED BY <1>3, <1>4, <1>5, <1>6, <1>7, PartsNext

LEMMA CheckKeeps ==
  ASSUME LifecycleInv, RemovalInv', NEW w \in Workers, CheckCreate(w) \/ CheckDelete(w)
  PROVE  LifecycleInv'
<1>1. CASE CheckCreate(w)
  <2>1. Checking(w, work[w].res) /\ pc[w] = "check" /\ call[w] = "create"
    BY <1>1 DEF CheckCreate, Checking
  <2>2. ~Exists(work[w].res)
    BY <2>1, CheckingAlone
  <2>3. \/ Send(w, 0)
        \/ /\ Conclude(w, CreateFailed(work[w], prog[w], "conflict"))
           /\ UNCHANGED <<dbVars, kcVars>>
    BY <1>1, <2>2 DEF CheckCreate
  <2> QED BY <2>1, <2>3, SendKeeps, CheckFailedKeeps
<1>2. CASE CheckDelete(w)
  <2>1. pc[w] = "check" /\ call[w] = "delete"
    BY <1>2 DEF CheckDelete
  <2>2. CASE Send(w, prog[w].uid)
    <3>1. PICK uid : uid = prog[w].uid
      OBVIOUS
    <3> QED BY <2>1, <2>2, <3>1, SendKeeps
  <2>3. CASE ~Send(w, prog[w].uid)
    <3>1. PICK kind, p : p = DeleteAnswered(work[w], prog[w], kind) /\ Conclude(w, p)
      BY <1>2, <2>3 DEF CheckDelete
    <3>2. UNCHANGED <<dbVars, kcVars, work>>
      BY <1>2, <2>3, <3>1 DEF CheckDelete, Conclude
    <3>3. held[w] = Fences => Sound(work[w].res, work[w], p)'
      BY <2>1, <3>1, <3>2, DeleteConcludes
    <3> QED BY <3>1, <3>2, <3>3, ConcludeKeepsAll
  <2> QED BY <2>2, <2>3
<1> QED BY <1>1, <1>2

-----------------------------------------------------------------------------
(***************************************************************************)
(* The transactions of a lane.                                             *)
(***************************************************************************)
\* A lane goes back to idle without a trace in the row.
LEMMA StepEndsInv ==
  ASSUME LifecycleInv, RemovalInv', NEW w \in Workers, StepEnds(w),
         held' = [held EXCEPT ![w] = {}], UNCHANGED <<row, kcVars>>
  PROVE  LifecycleInv'
<1> USE Parts
<1>0. TypeOK /\ \A x \in Workers : work[x].res \in Resources
  BY DEF LifecycleInv, RemovalInv, TypeOK, Work
<1>1. /\ pc'[w] = "idle" /\ held'[w] = {}
      /\ \A x \in Workers : x # w =>
           /\ pc'[x] = pc[x] /\ call'[x] = call[x] /\ work'[x] = work[x]
           /\ prog'[x] = prog[x] /\ held'[x] = held[x]
  BY <1>0 DEF StepEnds, TypeOK
<1>2. NoNewPost
  BY <1>1 DEF NoNewPost
<1>3. OnePost' /\ \A y : PostMayLand(y)' => PostMayLand(y)
  BY <1>2, NoNewPostKeeps
<1>4. \A y \in Resources : Calm(y) /\ ResourceInv(y)'
  BY <1>3, CalmResource DEF Calm, Exists
<1>5. ASSUME NEW x \in Workers PROVE LaneInv(x)'
  <2>1. CASE x # w
    BY <1>0, <1>1, <1>4, <2>1, CalmLane
  <2>2. CASE x = w
    BY <1>1, <2>2 DEF LaneInv, Fences
  <2> QED BY <2>1, <2>2
<1>6. OneOwner' /\ WaitsForRequest' /\ ChildrenBlockRemoval'
  BY <1>1 DEF OneOwner, WaitsForRequest, ChildrenBlockRemoval
<1> QED BY <1>3, <1>4, <1>5, <1>6, PartsNext

LEMMA ClaimInv ==
  ASSUME LifecycleInv, RemovalInv', NEW w \in Workers, NEW r \in Resources, Claim(w, r)
  PROVE  LifecycleInv'
<1> USE Parts
<1>0. TypeOK /\ row[r] \in Row /\ \A x \in Workers : work[x].res \in Resources
  BY DEF LifecycleInv, RemovalInv, TypeOK, Work
<1>1. /\ row'[r].state = row[r].state /\ Active(row'[r]) = Active(row[r])
      /\ row'[r].uid = row[r].uid /\ row'[r].pending = row[r].pending
      /\ row[r].state # "none"
      /\ \A y \in Resources : y # r => row'[y] = row[y]
  BY <1>0 DEF Claim, TypeOK, AcquireLease, Active, ActiveStates, Row
<1>2. /\ pc[w] = "idle" /\ pc'[w] = "claimed" /\ held'[w] = Fences
      /\ work'[w].res = r /\ work'[w].state = row[r].state
      /\ work'[w].active = Active(row[r]) /\ work'[w].uid = row[r].uid
      /\ work'[w].pending = row[r].pending
      /\ UNCHANGED <<call, prog, kcVars>>
      /\ \A x \in Workers : x # w =>
           pc'[x] = pc[x] /\ work'[x] = work[x]
  BY <1>0 DEF Claim, TypeOK, Bump
<1>3. \A x \in Workers : x # w =>
        /\ held'[x] \subseteq held[x]
        /\ work[x].res = r => "epoch" \notin held'[x]
  BY <1>0 DEF Claim, TypeOK, Bump
<1>4. NoNewPost
  BY <1>2 DEF NoNewPost
<1>5. OnePost' /\ \A y : PostMayLand(y)' => PostMayLand(y)
  BY <1>4, NoNewPostKeeps
<1>6. \A y \in Resources : Calm(y)
  BY <1>1, <1>2, <1>5 DEF Calm, Exists
<1>7. \A y \in Resources : ResourceInv(y)'
  BY <1>6, CalmResource
<1>8. ASSUME NEW x \in Workers PROVE LaneInv(x)'
  <2>1. CASE x # w
    <3>1. held'[x] = Fences => held[x] = Fences
      BY <1>0, <1>3, <2>1 DEF TypeOK
    <3> QED BY <1>0, <1>2, <1>6, <2>1, <3>1, CalmLane
  <2>2. CASE x = w
    BY <1>1, <1>2, <2>2 DEF LaneInv, View
  <2> QED BY <2>1, <2>2
<1>9. OneOwner'
  <2>1. \A x \in Workers : pc'[x] = "idle" => held'[x] = {}
    BY <1>2, <1>3 DEF OneOwner, Fences
  <2>2. ASSUME NEW x \in Workers, NEW y \in Workers,
               "epoch" \in held'[x], "epoch" \in held'[y], work'[x].res = work'[y].res
        PROVE  x = y
    BY <1>2, <1>3, <2>2 DEF OneOwner
  <2> QED BY <2>1, <2>2 DEF OneOwner
<1>10. WaitsForRequest' /\ ChildrenBlockRemoval'
  <2>1. WaitsForRequest'
    BY <1>2 DEF WaitsForRequest
  <2>2. \A y \in Resources : row'[y].state = row[y].state
    BY <1>1
  <2>3. ChildrenBlockRemoval'
    BY <2>2, ResourcesAssumption DEF ChildrenBlockRemoval, AlreadyRemoved, Resources
  <2> QED BY <2>1, <2>3
<1> QED BY <1>5, <1>7, <1>8, <1>9, <1>10, PartsNext

\* BeginMutation is granted: the marker is set before the request leaves.
LEMMA BeginGranted ==
  ASSUME LifecycleInv, RemovalInv', NEW w \in Workers, NEW uid,
         pc[w] = "begin", held[w] = Fences,
         uid = (IF call[w] = "create" THEN 0 ELSE prog[w].uid),
         MayBegin(row[work[w].res], call[w], uid),
         row' = [row EXCEPT ![work[w].res] = BeginProviderMutation(@, call[w], uid)],
         pc' = [pc EXCEPT ![w] = "check"],
         UNCHANGED <<call, work, prog, held, kcVars>>
  PROVE  LifecycleInv'
<1> USE Parts
<1> DEFINE r == work[w].res
<1>0. TypeOK /\ r \in Resources /\ row[r] \in Row /\ \A x \in Workers : work[x].res \in Resources
  BY DEF LifecycleInv, RemovalInv, TypeOK, Work
<1>1. /\ Draft(r, work[w], call[w], prog[w]) /\ View(w) /\ ResourceInv(r)
      /\ row[r].state = work[w].state
  BY <1>0 DEF LaneInv, LifecycleInv, RemovalInv, FencedState
<1>2. /\ row'[r].pending = call[w] /\ row'[r].uid = (IF row[r].uid = 0 THEN uid ELSE row[r].uid)
      /\ row'[r].state = row[r].state /\ row'[r].op = row[r].op
      /\ \A y \in Resources : y # r => row'[y] = row[y]
      /\ pc'[w] = "check" /\ \A x \in Workers : x # w => pc'[x] = pc[x]
  BY <1>0 DEF BeginProviderMutation, Row, TypeOK
<1>3. \A y : y # r => (PostMayLand(y)' => PostMayLand(y))
  BY <1>2 DEF PostMayLand
<1>4. \A y \in Resources : y # r => Calm(y)
  BY <1>2, <1>3 DEF Calm, Exists
<1>5. ASSUME call[w] = "create" PROVE ResourceInv(r)' /\ OnePost'
  <2>0. row[r].pending = "" /\ row[r].uid = 0 /\ work[w].state = "provisioning"
    BY <1>0, <1>1, <1>5 DEF MayBegin, Draft, Row
  <2>1. /\ row[r].pending = "" /\ row[r].uid = 0 /\ made[r] = 0 /\ ~PostMayLand(r)
        /\ row[r].state = "provisioning" /\ ~Exists(r) /\ Active(row[r])
    <3>1. ~PostMayLand(r)
      BY <1>1, <2>0 DEF ResourceInv
    <3>2. made[r] \in Nat
      BY <1>0 DEF TypeOK
    <3>3. made[r] # 1 /\ made[r] <= 1
      BY <1>1, <2>0 DEF ResourceInv
    <3>4. made[r] = 0
      BY <3>2, <3>3
    <3>5. ~Exists(r)
      BY <1>1, <3>3 DEF ResourceInv
    <3>6. row[r].state = "provisioning" /\ Active(row[r])
      BY <1>1, <2>0 DEF ResourceInv
    <3> QED BY <2>0, <3>1, <3>4, <3>5, <3>6
  <2>2. ResourceInv(r)'
    <3>1. row'[r].pending = "create" /\ row'[r].uid = 0 /\ Active(row'[r])
      BY <1>2, <1>5, <2>1 DEF Active
    <3>2. made'[r] = 0 /\ ~Exists(r)' /\ row'[r].state = "provisioning"
      BY <1>2, <2>1 DEF Exists
    <3> QED BY <3>1, <3>2 DEF ResourceInv
  <2>3. OnePost'
    <3>1. /\ \A z \in net : ~Posted(z, r)
          /\ \A x \in Workers : ~Checking(x, r)
      BY <2>1 DEF PostMayLand, Posted, Checking
    <3>2. \A x \in Workers, y \in Resources :
            Checking(x, y)' => Checking(x, y) \/ (x = w /\ y = r)
      BY <1>2 DEF Checking
    <3>3. \A z, y : Posted(z, y)' => Posted(z, y)
      BY DEF Posted
    <3> QED BY <3>1, <3>2, <3>3 DEF OnePost, Posted
  <2> QED BY <2>2, <2>3
<1>6. ASSUME call[w] = "delete" PROVE ResourceInv(r)' /\ OnePost'
  <2>1. uid = 1 /\ made[r] = 1 /\ row[r].state = "deleting" /\ ~PostMayLand(r)
    BY <1>1, <1>6 DEF Draft, ResourceInv
  <2>2. ~PostMayLand(r)'
    BY <1>2, <1>6, <2>1 DEF PostMayLand
  <2>3. ResourceInv(r)'
    BY <1>0, <1>1, <1>2, <1>6, <2>1, <2>2 DEF ResourceInv, Active, Exists
  <2>4. OnePost'
    <3>1. \A x \in Workers, y \in Resources : Checking(x, y)' => Checking(x, y)
      BY <1>2, <1>6 DEF Checking
    <3>2. \A z, y : Posted(z, y)' => Posted(z, y)
      BY DEF Posted
    <3> QED BY <3>1, <3>2 DEF OnePost, Posted
  <2> QED BY <2>3, <2>4
<1>7. ResourceInv(r)' /\ OnePost'
  BY <1>1, <1>5, <1>6 DEF Draft
<1>8. ASSUME NEW x \in Workers PROVE LaneInv(x)'
  <2>1. CASE x # w
    <3>1. held[x] = Fences => work[x].res # r
      BY <2>1 DEF OneOwner, Fences
    <3> QED BY <1>0, <1>2, <1>4, <2>1, <3>1, CalmLane
  <2>2. CASE x = w
    <3>1. View(w)'
      BY <1>1, <1>2 DEF View, Active
    <3>2. Draft(work[w].res, work[w], call[w], prog[w])'
      BY <1>1 DEF Draft
    <3> QED BY <1>2, <2>2, <3>1, <3>2 DEF LaneInv
  <2> QED BY <2>1, <2>2
<1>9. OneOwner' /\ WaitsForRequest'
  BY <1>2 DEF OneOwner, WaitsForRequest
<1>10. ChildrenBlockRemoval'
  BY <1>2, ResourcesAssumption DEF ChildrenBlockRemoval, AlreadyRemoved, Resources
<1> QED BY <1>4, <1>7, <1>8, <1>9, <1>10, CalmResource, PartsNext

LEMMA BeginKeeps ==
  ASSUME LifecycleInv, RemovalInv', NEW w \in Workers, BeginMutation(w)
  PROVE  LifecycleInv'
<1>1. PICK uid : uid = (IF call[w] = "create" THEN 0 ELSE prog[w].uid)
  OBVIOUS
<1>2. CASE Fenced(w) /\ MayBegin(row[work[w].res], call[w], uid)
  BY <1>1, <1>2, BeginGranted DEF BeginMutation, Fenced
<1>3. CASE ~(Fenced(w) /\ MayBegin(row[work[w].res], call[w], uid))
  BY <1>1, <1>3, StepEndsInv DEF BeginMutation
<1> QED BY <1>2, <1>3


\* Finish is accepted: the row takes over what the lane concluded.
LEMMA FinishedRow ==
  ASSUME NEW r, NEW k, NEW p \in Progress, ResourceInv(r), Sound(r, k, p), Keeps(k, p),
         k.state # "none", k.active \in BOOLEAN, Active(row[r]) = k.active,
         MayFinish(row[r], k.active, p), made[r] \in Nat,
         row[r] \in Row, row'[r] = FinishRow(row[r], k.active, p),
         made'[r] = made[r], Exists(r)' = Exists(r),
         PostMayLand(r)' => PostMayLand(r)
  PROVE  ResourceInv(r)'
<1>1. /\ row'[r].state = p.state
      /\ row'[r].op = (IF k.active THEN p.op ELSE row[r].op)
      /\ row'[r].uid = (IF row[r].uid = 0 THEN p.uid ELSE row[r].uid)
      /\ row'[r].pending = (IF p.clear THEN "" ELSE row[r].pending)
  BY DEF FinishRow, Row
<1>2. PostMayLand(r)' =>
        row'[r].pending = "create" /\ row'[r].uid = 0 /\ made'[r] = 0
  BY <1>1 DEF ResourceInv, Sound
<1>3. /\ made'[r] <= 1 /\ (Exists(r)' => made'[r] = 1)
      /\ row'[r].uid \in {0, made'[r]}
      /\ made'[r] = 1 /\ row'[r].uid = 0 => row'[r].pending = "create"
  <2>1. made'[r] <= 1 /\ (Exists(r)' => made'[r] = 1)
    BY DEF ResourceInv
  <2>2. row'[r].uid \in {0, made'[r]}
    BY <1>1 DEF ResourceInv, Sound
  <2>3. made'[r] = 1 /\ row'[r].uid = 0 => row[r].uid = 0 /\ p.uid = 0
    BY <1>1
  <2>4. made'[r] = 1 /\ row'[r].uid = 0 => row'[r].pending = "create"
    <3> HAVE made'[r] = 1 /\ row'[r].uid = 0
    <3>1. made[r] = 1 /\ row[r].uid = 0 /\ p.uid = 0
      BY <2>3
    <3>2. ~p.clear
      BY <3>1 DEF Sound
    <3>3. row[r].pending = "create"
      BY <3>1 DEF ResourceInv
    <3> QED BY <1>1, <3>2, <3>3
  <2> QED BY <2>1, <2>2, <2>4
<1>4. row'[r].pending = "create" => row'[r].state = "provisioning"
  BY <1>1 DEF Sound
<1>5. Active(row'[r]) <=> row'[r].state \in {"provisioning", "deleting"}
  <2>1. CASE k.active
    BY <1>1, <2>1 DEF Sound, Active
  <2>2. CASE ~k.active
    BY <1>1, <2>2 DEF Sound, Active
  <2> QED BY <2>1, <2>2
<1>6. row'[r].state # "none"
  BY <1>1 DEF Keeps
<1>7. row'[r].state \in {"deleted", "failed"} => ~Exists(r)' /\ ~PostMayLand(r)'
  <2>1. row'[r].state = "deleted" => ~Exists(r)' /\ ~PostMayLand(r)'
    BY <1>1 DEF Sound, ResourceInv
  <2>2. row'[r].state = "failed" => ~Exists(r)' /\ ~PostMayLand(r)'
    BY <1>1, <1>3 DEF Sound
  <2> QED BY <2>1, <2>2
<1>8. /\ row'[r].state = "failed" => made'[r] = 0
      /\ row'[r].state \in {"available", "degraded"} => row'[r].uid # 0
  BY <1>1 DEF Sound
<1> QED BY <1>2, <1>3, <1>4, <1>5, <1>6, <1>7, <1>8 DEF ResourceInv

LEMMA FinishAccepted ==
  ASSUME LifecycleInv, RemovalInv', NEW w \in Workers, NEW r, NEW k, NEW p,
         r = work[w].res, k = work[w], p = prog[w],
         pc[w] = "finish", held[w] = Fences, MayFinish(row[r], k.active, p),
         row' = [row EXCEPT ![r] = FinishRow(@, k.active, p)],
         held' = [Bump(r, {"version"}) EXCEPT ![w] = {}],
         StepEnds(w), UNCHANGED kcVars
  PROVE  LifecycleInv'
<1> USE Parts
<1>0. /\ TypeOK /\ \A x \in Workers : work[x].res \in Resources
      /\ r \in Resources /\ row[r] \in Row /\ k \in Work /\ p \in Progress
      /\ made[r] \in Nat
  BY DEF LifecycleInv, RemovalInv, TypeOK, Work
<1>1. /\ pc'[w] = "idle" /\ held'[w] = {}
      /\ \A x \in Workers : x # w =>
           /\ pc'[x] = pc[x] /\ call'[x] = call[x] /\ work'[x] = work[x]
           /\ prog'[x] = prog[x] /\ held'[x] \subseteq held[x]
           /\ held'[x] = Fences => held[x] = Fences /\ work[x].res # r
  BY <1>0 DEF StepEnds, TypeOK, Bump, Fences
<1>2. /\ row'[r] = FinishRow(row[r], k.active, p)
      /\ \A y \in Resources : y # r => row'[y] = row[y]
  BY <1>0 DEF TypeOK
<1>3. NoNewPost
  BY <1>1 DEF NoNewPost
<1>4. OnePost' /\ \A y : PostMayLand(y)' => PostMayLand(y)
  BY <1>3, NoNewPostKeeps
<1>5. \A y \in Resources : y # r => Calm(y)
  BY <1>2, <1>4 DEF Calm, Exists
<1>6. /\ ResourceInv(r) /\ Sound(r, k, p) /\ Keeps(k, p)
      /\ row[r].state = k.state /\ k.state # "none" /\ Active(row[r]) = k.active
  BY <1>0 DEF LaneInv, View, LifecycleInv, RemovalInv, DraftKeepsRemoval, FencedState
<1>7. ResourceInv(r)'
  BY <1>0, <1>2, <1>4, <1>6, FinishedRow DEF Work, Exists
<1>8. ASSUME NEW x \in Workers PROVE LaneInv(x)'
  <2>1. CASE x # w
    <3>1. held[x] = Fences => work[x].res # r
      BY <2>1 DEF OneOwner, Fences
    <3> QED BY <1>0, <1>1, <1>5, <2>1, <3>1, CalmLane
  <2>2. CASE x = w
    BY <1>1, <2>2 DEF LaneInv, Fences
  <2> QED BY <2>1, <2>2
<1>9. OneOwner' /\ WaitsForRequest'
  BY <1>1 DEF OneOwner, WaitsForRequest
<1>10. ChildrenBlockRemoval'
  <2>1. row'[r].state = p.state
    <3>1. FinishRow(row[r], k.active, p).state = p.state
      BY <1>0 DEF FinishRow, Row
    <3> QED BY <1>2, <3>1
  <2>2. p.state \notin {"none", "deleted"} => row[r].state \notin {"none", "deleted"}
    BY <1>6 DEF Keeps
  <2>3. AlreadyRemoved(row'[r]) => AlreadyRemoved(row[r])
    BY <1>6, <2>1 DEF AlreadyRemoved, Sound, Removing
  <2>4. ASSUME NEW s \in Subnets, row'[s].state \notin {"none", "deleted"}
        PROVE  ~AlreadyRemoved(row'[VpcOf[s]])
    <3>1. s \in Resources /\ VpcOf[s] \in Resources
      BY ResourcesAssumption DEF Resources
    <3>2. row[s].state \notin {"none", "deleted"}
      BY <1>2, <2>1, <2>2, <2>4, <3>1
    <3>3. AlreadyRemoved(row'[VpcOf[s]]) => AlreadyRemoved(row[VpcOf[s]])
      BY <1>2, <2>3, <3>1
    <3> QED BY <3>2, <3>3 DEF ChildrenBlockRemoval
  <2> QED BY <2>4 DEF ChildrenBlockRemoval
<1> QED BY <1>4, <1>5, <1>7, <1>8, <1>9, <1>10, CalmResource, PartsNext

LEMMA FinishKeeps ==
  ASSUME LifecycleInv, RemovalInv', NEW w \in Workers, Finish(w) \/ Crash(w)
  PROVE  LifecycleInv'
<1>1. PICK r, k, p : r = work[w].res /\ k = work[w] /\ p = prog[w]
  OBVIOUS
<1>2. CASE Crash(w)
  BY <1>2, StepEndsInv DEF Crash
<1>3. CASE Finish(w) /\ Fenced(w) /\ MayFinish(row[r], k.active, p)
  BY <1>1, <1>3, FinishAccepted DEF Finish, Fenced
<1>4. CASE Finish(w) /\ ~(Fenced(w) /\ MayFinish(row[r], k.active, p))
  BY <1>1, <1>4, StepEndsInv DEF Finish
<1> QED BY <1>2, <1>3, <1>4


-----------------------------------------------------------------------------
(***************************************************************************)
(* The provider answers.                                                   *)
(***************************************************************************)
\* The lanes when q has been answered with p.
LEMMA AnswerLanes ==
  ASSUME LifecycleInv, NEW q \in net, NEW p, Answer(q, p)
  PROVE  /\ q.from \in Workers /\ q.res \in Resources /\ net' = net \ {q}
         /\ UNCHANGED <<row, held, work, call>>
         /\ Waits(q) => Conclude(q.from, p)
         /\ \A x \in Workers : ~(x = q.from /\ Waits(q)) =>
              pc'[x] = pc[x] /\ prog'[x] = prog[x]
BY DEF LifecycleInv, RemovalInv, TypeOK, Request, Answer, Conclude

\* An answer that leaves the provider no more than it had.
LEMMA AnswerInv ==
  ASSUME LifecycleInv, RemovalInv', NEW q \in net, NEW p, Answer(q, p), made' = made,
         \A r \in Resources : Exists(r)' => Exists(r),
         Waits(q) /\ held[q.from] = Fences => Sound(q.res, work[q.from], p)'
  PROVE  LifecycleInv'
<1>1. /\ q.from \in Workers /\ q.res \in Resources /\ net' = net \ {q}
      /\ UNCHANGED <<row, held, work, call>>
      /\ Waits(q) => Conclude(q.from, p)
      /\ \A x \in Workers : ~(x = q.from /\ Waits(q)) =>
           pc'[x] = pc[x] /\ prog'[x] = prog[x]
  BY AnswerLanes
<1>2. Waits(q) => work[q.from].res = q.res
  BY DEF Waits
<1>3. Waits(q) => pc'[q.from] = "finish" /\ LaneInv(q.from)'
  BY <1>1, <1>2, ConcludeInv
<1>4. ASSUME NEW x \in Workers
      PROVE  \/ /\ pc'[x] = pc[x] /\ call'[x] = call[x] /\ prog'[x] = prog[x]
                /\ \A z \in net : z \notin net' => ~(z.from = x /\ Waits(z))
             \/ pc'[x] \in {"begin", "finish"} /\ LaneInv(x)'
  <2>1. CASE x = q.from /\ Waits(q)
    BY <1>3, <2>1
  <2>2. CASE ~(x = q.from /\ Waits(q))
    BY <1>1, <2>2
  <2> QED BY <2>1, <2>2
<1> QED BY <1>1, <1>4, LanesMove

\* The request was the only POST for its resource.
LEMMA OnlyPost ==
  ASSUME LifecycleInv, NEW q \in net, NEW p, Answer(q, p), q.kind = "create"
  PROVE  /\ made[q.res] = 0 /\ ~Exists(q.res) /\ ~PostMayLand(q.res)'
         /\ PostMayLand(q.res) /\ NoNewPost
<1> USE Parts
<1>1. /\ q.from \in Workers /\ q.res \in Resources /\ net' = net \ {q}
      /\ UNCHANGED <<row, held, work, call>>
      /\ Waits(q) => Conclude(q.from, p)
      /\ \A x \in Workers : ~(x = q.from /\ Waits(q)) =>
           pc'[x] = pc[x] /\ prog'[x] = prog[x]
  BY AnswerLanes
<1>2. PostMayLand(q.res) /\ Posted(q, q.res)
  BY DEF PostMayLand, Posted
<1>3. made[q.res] = 0 /\ ~Exists(q.res)
  BY <1>1, <1>2 DEF ResourceInv
<1>4. \A x \in Workers : pc'[x] = "check" => pc[x] = "check"
  <2>1. Waits(q) => pc'[q.from] = "finish"
    BY <1>1 DEF Conclude, LifecycleInv, RemovalInv, TypeOK
  <2> QED BY <1>1, <2>1
<1>5. NoNewPost
  BY <1>1, <1>4 DEF NoNewPost
<1>6. ~PostMayLand(q.res)'
  <2>1. \A z \in net' : ~(z.kind = "create" /\ z.res = q.res)
    BY <1>1, <1>2 DEF OnePost, Posted
  <2>2. \A x \in Workers : ~Checking(x, q.res)
    BY <1>1, <1>2 DEF OnePost
  <2>3. \A x \in Workers : ~Checking(x, q.res)'
    BY <1>1, <1>4, <2>2 DEF Checking
  <2> QED BY <2>1, <2>3 DEF PostMayLand, Checking
<1> QED BY <1>2, <1>3, <1>5, <1>6

LEMMA RefuseKeeps ==
  ASSUME LifecycleInv, RemovalInv', NEW q \in net, Refuse(q) \/ Lose(q)
  PROVE  LifecycleInv'
<1>1. PICK kind, p : /\ p = CallFailed(q.from, kind) /\ Answer(q, p)
                     /\ kind # "uncertain" \/ Lose(q)
  BY DEF Refuse, Lose
<1>2. UNCHANGED <<obj, made, row, work>> /\ q.from \in Workers
  BY <1>1, AnswerLanes DEF Refuse, Lose
<1>3. ASSUME Waits(q), held[q.from] = Fences
      PROVE  Sound(q.res, work[q.from], p)'
  <2>1. /\ pc[q.from] = "sent" /\ call[q.from] = q.kind /\ work[q.from].res = q.res
    BY <1>3 DEF Waits
  <2>2. CASE q.kind # "create"
    <3>1. call[q.from] = "delete" /\ p = DeleteAnswered(work[q.from], prog[q.from], kind)
      BY <1>1, <1>2, <1>3, <2>1, <2>2, CallDraft DEF CallFailed, Draft
    <3>2. Sound(work[q.from].res, work[q.from], p)'
      BY <1>2, <1>3, <2>1, <3>1, DeleteConcludes
    <3> QED BY <1>2, <2>1, <3>2
  <2>3. CASE q.kind = "create"
    <3>1. PICK x, k, d : x = q.res /\ k = work[q.from] /\ d = prog[q.from]
      OBVIOUS
    <3>2. /\ k \in Work /\ d \in Progress /\ Draft(x, k, "create", d)
          /\ made'[x] \in Nat
      BY <1>2, <1>3, <2>1, <2>3, <3>1, CallDraft
    <3>3. ~PostMayLand(x)' /\ made'[x] = 0
      BY <1>1, <1>2, <2>3, <3>1, OnlyPost
    <3>4. p = CreateFailed(k, d, kind)
      BY <1>1, <2>1, <2>3, <3>1 DEF CallFailed
    <3>5. Sound(x, k, p)'
      BY <3>2, <3>3, <3>4, CreateFailedSound
    <3> QED BY <1>2, <3>1, <3>5 DEF Sound, Removing
  <2> QED BY <2>2, <2>3
<1> QED BY <1>1, <1>2, <1>3, AnswerInv DEF Exists

LEMMA ApplyDeleteKeeps ==
  ASSUME LifecycleInv, RemovalInv', NEW q \in net, ApplyDelete(q)
  PROVE  LifecycleInv'
<1>1. PICK kind, p : p = DeleteAnswered(work[q.from], prog[q.from], kind) /\ Answer(q, p)
  BY DEF ApplyDelete
<1>2. UNCHANGED <<made, row, work>> /\ q.from \in Workers /\ q.res \in Resources
  BY <1>1, AnswerLanes DEF ApplyDelete
<1>3. \A r \in Resources : Exists(r)' => Exists(r)
  BY <1>2 DEF ApplyDelete, Exists, LifecycleInv, RemovalInv, TypeOK
<1>4. ASSUME Waits(q), held[q.from] = Fences
      PROVE  Sound(q.res, work[q.from], p)'
  <2>1. /\ pc[q.from] = "sent" /\ call[q.from] = "delete" /\ work[q.from].res = q.res
    BY <1>4 DEF Waits, ApplyDelete
  <2>2. Sound(work[q.from].res, work[q.from], p)'
    BY <1>1, <1>2, <1>4, <2>1, DeleteConcludes
  <2> QED BY <1>2, <2>1, <2>2
<1> QED BY <1>1, <1>2, <1>3, <1>4, AnswerInv

\* The one POST arrives.  The lane that waits for it learns the identity; a
\* lane that took over concluded that the creation is still under way.
LEMMA ApplyCreateKeeps ==
  ASSUME LifecycleInv, RemovalInv', NEW q \in net, ApplyCreate(q)
  PROVE  LifecycleInv'
<1> USE Parts
<1> DEFINE r == q.res
<1>0. TypeOK /\ \A x \in Workers : work[x].res \in Resources
  BY DEF LifecycleInv, RemovalInv, TypeOK, Work
<1>a. PICK ready \in BOOLEAN :
        Answer(q, CreateSucceeded(work[q.from], prog[q.from], made'[r], ready))
  BY DEF ApplyCreate
<1>1. PICK p :
        /\ p = CreateSucceeded(work[q.from], prog[q.from], made'[r], ready)
        /\ Answer(q, p)
  BY <1>a
<1>2. q.kind = "create"
  BY DEF ApplyCreate
<1>3. /\ q.from \in Workers /\ q.res \in Resources /\ net' = net \ {q}
      /\ UNCHANGED <<row, held, work, call>>
      /\ Waits(q) => Conclude(q.from, p)
      /\ \A x \in Workers : ~(x = q.from /\ Waits(q)) =>
           pc'[x] = pc[x] /\ prog'[x] = prog[x]
  BY <1>1, AnswerLanes
<1>4. /\ made[r] = 0 /\ ~Exists(r) /\ ~PostMayLand(r)'
      /\ PostMayLand(r) /\ NoNewPost
  BY <1>1, <1>2, OnlyPost
<1>5. /\ made'[r] = 1 /\ Exists(r)'
      /\ \A y \in Resources : y # r => made'[y] = made[y] /\ obj'[y] = obj[y]
  BY <1>0, <1>3, <1>4 DEF ApplyCreate, TypeOK, Exists
<1>6. OnePost' /\ \A y : PostMayLand(y)' => PostMayLand(y)
  BY <1>4, NoNewPostKeeps
<1>7. \A y \in Resources : y # r => Calm(y)
  BY <1>3, <1>5, <1>6 DEF Calm, Exists
<1>8. ResourceInv(r)'
  <2>1. /\ row[r].pending = "create" /\ row[r].uid = 0 /\ row[r].state = "provisioning"
        /\ Active(row[r])
    BY <1>3, <1>4 DEF ResourceInv
  <2> QED BY <1>3, <1>4, <1>5, <2>1 DEF ResourceInv
<1>9. ASSUME NEW x \in Workers PROVE LaneInv(x)'
  <2>1. CASE ~(x = q.from /\ Waits(q)) /\ work[x].res # r
    BY <1>0, <1>3, <1>7, <2>1, CalmLane
  <2>2. CASE ~(x = q.from /\ Waits(q)) /\ work[x].res = r
    <3> SUFFICES ASSUME held[x] = Fences PROVE LaneInv(x)'
      BY <1>3 DEF LaneInv
    <3>1. View(x)'
      BY <1>3, <2>2 DEF LaneInv, View
    <3>2. pc'[x] \in {"begin", "check", "sent"} =>
            Draft(work[x].res, work[x], call[x], prog[x])'
      BY <1>3, <1>4, <2>2 DEF LaneInv, Draft
    <3>3. pc'[x] = "finish" => Sound(work[x].res, work[x], prog[x])'
      <4> HAVE pc'[x] = "finish"
      <4>1. Sound(r, work[x], prog[x]) /\ row[r].pending = "create"
        BY <1>3, <1>4, <2>2 DEF LaneInv, ResourceInv
      <4>2. prog[x].uid = 0 /\ ~prog[x].clear /\ prog[x].state = "provisioning"
        BY <1>4, <4>1 DEF Sound
      <4> QED BY <1>3, <1>4, <1>5, <2>2, <4>1, <4>2 DEF Sound, Removing
    <3> QED BY <3>1, <3>2, <3>3 DEF LaneInv
  <2>3. CASE x = q.from /\ Waits(q)
    <3>1. PICK k, d : k = work[x] /\ d = prog[x]
      OBVIOUS
    <3>2. pc[x] = "sent" /\ call[x] = "create" /\ work[x].res = r
      BY <1>2, <2>3 DEF Waits
    <3>3. p = CreateSucceeded(k, d, 1, ready)
      BY <1>1, <1>5, <2>3, <3>1
    <3>4. held[x] = Fences => Sound(work[x].res, work[x], p)'
      <4> HAVE held[x] = Fences
      <4>1. k \in Work /\ d \in Progress /\ Draft(r, k, "create", d)
        BY <3>1, <3>2, CallDraft
      <4>2. Sound(r, k, p)'
        BY <1>4, <1>5, <3>3, <4>1, CreateSucceededSound
      <4> QED BY <1>3, <3>1, <3>2, <4>2 DEF Sound, Removing
    <3> QED BY <1>3, <2>3, <3>4, ConcludeInv
  <2> QED BY <2>1, <2>2, <2>3
<1>10. OneOwner'
  <2>1. \A x \in Workers : pc'[x] = "idle" => pc[x] = "idle"
    <3>1. Waits(q) => pc'[q.from] = "finish"
      BY <1>0, <1>3 DEF Conclude, TypeOK
    <3> QED BY <1>3, <3>1
  <2> QED BY <1>3, <2>1 DEF OneOwner
<1>11. WaitsForRequest'
  <2>1. Waits(q) => pc'[q.from] = "finish"
    BY <1>0, <1>3 DEF Conclude, TypeOK
  <2> QED BY <1>3, <2>1 DEF WaitsForRequest, Waits
<1>12. ChildrenBlockRemoval'
  BY <1>3 DEF ChildrenBlockRemoval
<1> QED BY <1>6, <1>7, <1>8, <1>9, <1>10, <1>11, <1>12, CalmResource, PartsNext


-----------------------------------------------------------------------------
(***************************************************************************)
(* Time, and all steps together.                                           *)
(***************************************************************************)
\* Nothing a lane or a resource relies on is a lease or an age.
LEMMA TimeKeeps ==
  ASSUME LifecycleInv, RemovalInv',
         \/ \E r \in Resources : LeaseExpires(r) \/ ObservationAges(r)
         \/ UNCHANGED vars
  PROVE  LifecycleInv'
<1> USE Parts
<1>0. TypeOK /\ \A x \in Workers : work[x].res \in Resources
  BY DEF LifecycleInv, RemovalInv, TypeOK, Work
<1>1. UNCHANGED <<held, laneVars, kcVars>>
  BY DEF LeaseExpires, ObservationAges, vars
<1>2. \A y \in Resources :
        /\ row'[y].state = row[y].state /\ row'[y].op = row[y].op
        /\ row'[y].uid = row[y].uid /\ row'[y].pending = row[y].pending
        /\ row[y].state = "none" => row'[y] = row[y]
  <2>1. CASE UNCHANGED vars
    BY <2>1 DEF vars
  <2>2. ASSUME NEW r \in Resources, LeaseExpires(r) \/ ObservationAges(r),
               NEW y \in Resources
        PROVE  /\ row'[y].state = row[y].state /\ row'[y].op = row[y].op
               /\ row'[y].uid = row[y].uid /\ row'[y].pending = row[y].pending
               /\ row[y].state = "none" => row'[y] = row[y]
    <3>1. row[y] \in Row /\ row[r].state # "none"
      <4>1. row[y] \in Row
        BY <1>0 DEF TypeOK
      <4>2. row[r].state = "none" => row[r] = NoRow
        BY DEF ResourceInv
      <4>3. row[r] # NoRow
        <5>1. row[r].lease \/ row[r].fresh
          BY <2>2 DEF LeaseExpires, ObservationAges
        <5>2. ~NoRow.lease /\ ~NoRow.fresh
          BY DEF NoRow
        <5> QED BY <5>1, <5>2
      <4> QED BY <4>1, <4>2, <4>3
    <3> QED BY <1>0, <2>2, <3>1 DEF LeaseExpires, ObservationAges, TypeOK, Row
  <2> QED BY <2>1, <2>2
<1>3. NoNewPost
  BY <1>1 DEF NoNewPost
<1>4. OnePost' /\ \A y : PostMayLand(y)' => PostMayLand(y)
  BY <1>3, NoNewPostKeeps
<1>5. \A y \in Resources : Calm(y) /\ ResourceInv(y)'
  BY <1>1, <1>2, <1>4, CalmResource DEF Calm, Exists, Active
<1>6. \A x \in Workers : LaneInv(x)'
  BY <1>0, <1>1, <1>5, CalmLane
<1>7. OneOwner' /\ WaitsForRequest'
  BY <1>1 DEF OneOwner, WaitsForRequest
<1>8. ChildrenBlockRemoval'
  BY <1>2, ResourcesAssumption DEF ChildrenBlockRemoval, AlreadyRemoved, Resources
<1> QED BY <1>4, <1>5, <1>6, <1>7, <1>8, PartsNext

LEMMA NextLifecycle == LifecycleInv /\ [Next]_vars => LifecycleInv'
<1> SUFFICES ASSUME LifecycleInv, [Next]_vars PROVE LifecycleInv'
  OBVIOUS
<1>0. RemovalInv'
  BY NextTypes, NextFenced, NextKeeps DEF LifecycleInv, RemovalInv
<1>1. ASSUME NEW v \in Vpcs, AcceptVPC(v) \/ DeleteVPC(v) PROVE LifecycleInv'
  BY <1>0, <1>1, AcceptKeeps, SupersedeKeeps DEF Resources
<1>2. ASSUME NEW s \in Subnets, AcceptSubnet(s) \/ DeleteSubnet(s) PROVE LifecycleInv'
  BY <1>0, <1>2, AcceptKeeps, SupersedeKeeps DEF Resources
<1>3. ASSUME NEW w \in Workers, LaneStep(w) PROVE LifecycleInv'
  BY <1>0, <1>3, ClaimInv, ObserveKeeps, ObserveFailsKeeps, BeginKeeps, CheckKeeps,
     CheckFailsKeeps, CallTimesOutKeeps, FinishKeeps DEF LaneStep
<1>4. ASSUME ProviderStep PROVE LifecycleInv'
  BY <1>0, <1>4, ApplyCreateKeeps, ApplyDeleteKeeps, RefuseKeeps, FinalizeKeeps
  DEF ProviderStep
<1>5. ASSUME \/ \E r \in Resources : LeaseExpires(r) \/ ObservationAges(r)
             \/ UNCHANGED vars
      PROVE  LifecycleInv'
  BY <1>0, <1>5, TimeKeeps
<1> QED BY <1>1, <1>2, <1>3, <1>4, <1>5 DEF Next

LEMMA InitLifecycle == Init => LifecycleInv
<1> SUFFICES ASSUME Init PROVE LifecycleInv
  OBVIOUS
<1>1. RemovalInv
  BY InitTypes DEF Init, RemovalInv, FencedState, DraftKeepsRemoval, Fences
<1>2. OneOwner /\ OnePost /\ WaitsForRequest
  BY DEF Init, OneOwner, OnePost, WaitsForRequest, Posted, Checking
<1>3. ChildrenBlockRemoval
  BY ResourcesAssumption DEF Init, ChildrenBlockRemoval, NoRow, Resources
<1>4. \A r \in Resources : ~PostMayLand(r) /\ ~Exists(r)
  BY DEF Init, PostMayLand, Exists
<1>5. \A r \in Resources : ResourceInv(r)
  <2>1. \A r \in Resources : row[r] = NoRow /\ made[r] = 0
    BY DEF Init
  <2>2. /\ NoRow.state = "none" /\ NoRow.uid = 0 /\ NoRow.pending = ""
        /\ ~Active(NoRow)
    BY DEF NoRow, Active, ActiveStates
  <2>3. ASSUME NEW r \in Resources PROVE ResourceInv(r)
    <3>1. /\ row[r].state = "none" /\ row[r].uid = 0 /\ row[r].pending = ""
          /\ ~Active(row[r]) /\ row[r] = NoRow /\ made[r] = 0
      BY <2>1, <2>2
    <3>2. made[r] <= 1 /\ row[r].uid \in {0, made[r]} /\ made[r] # 1
      <4>1. made[r] = 0 /\ row[r].uid = 0
        BY <3>1
      <4> HIDE <3>1
      <4> QED BY <4>1
    <3>3. Active(row[r]) <=> row[r].state \in {"provisioning", "deleting"}
      BY <3>1
    <3> QED BY <1>4, <3>1, <3>2, <3>3 DEF ResourceInv
  <2> QED BY <2>3
<1>6. \A w \in Workers : LaneInv(w)
  BY DEF Init, LaneInv, Fences
<1> QED BY <1>1, <1>2, <1>3, <1>5, <1>6, Parts

-----------------------------------------------------------------------------
\* In every reachable state a POST that may land finds the marker set, an
\* object is announced or recorded, and what a lane with matching fences is
\* about to record is true (worker.go, repository.go).
THEOREM LifecycleInvariant == Spec => []LifecycleInv
<1> QED BY InitLifecycle, NextLifecycle, PTL DEF Spec

LEMMA LifecycleImplies ==
  LifecycleInv =>
    /\ CreatedOnce /\ DeletedMeansGone /\ FailedLeavesNothing
    /\ ParentOutlivesChild /\ IdentityIsReal
<1> SUFFICES ASSUME LifecycleInv
             PROVE  /\ CreatedOnce /\ DeletedMeansGone /\ FailedLeavesNothing
                    /\ ParentOutlivesChild /\ IdentityIsReal
  OBVIOUS
<1>1. \A r \in Resources : ResourceInv(r)
  BY Parts
<1>2. CreatedOnce /\ DeletedMeansGone /\ FailedLeavesNothing /\ IdentityIsReal
  BY <1>1 DEF ResourceInv, CreatedOnce, DeletedMeansGone, FailedLeavesNothing,
              IdentityIsReal
<1>3. ParentOutlivesChild
  BY <1>1, Parts DEF ResourceInv, ChildrenBlockRemoval, ParentOutlivesChild, Resources
<1> QED BY <1>2, <1>3

\* The provider never gets a second object for one resource, however many
\* lanes retry and however late a POST lands.
THEOREM CreatedAtMostOnce == Spec => []CreatedOnce
BY LifecycleInvariant, LifecycleImplies, PTL

\* A row says deleted only when nothing is left and no POST can still land.
THEOREM DeletedIsGone == Spec => []DeletedMeansGone
BY LifecycleInvariant, LifecycleImplies, PTL

\* A row says failed only when the creation left nothing behind.
THEOREM FailedIsEmpty == Spec => []FailedLeavesNothing
BY LifecycleInvariant, LifecycleImplies, PTL

\* A VPC's removal is not admitted while a Subnet has, or may get, an object.
THEOREM ParentsOutlive == Spec => []ParentOutlivesChild
BY LifecycleInvariant, LifecycleImplies, PTL

\* A recorded identity is the identity of the object that was created.
THEOREM IdentitiesAreReal == Spec => []IdentityIsReal
BY LifecycleInvariant, LifecycleImplies, PTL

-----------------------------------------------------------------------------
(***************************************************************************)
(* ResourceLifecycle implements ResourceContract: every step of the API    *)
(* calls, the lanes, the provider and the clock shows a client nothing or  *)
(* a step of the contract.                                                 *)
(*                                                                         *)
(* ContractInv is needed for it: that the VPC of a Subnet in use is usable *)
(* (so that a POST never puts a Subnet under a VPC being removed), and     *)
(* that every DELETE under way belongs to a removal (so that no object is  *)
(* terminated for another reason).                                         *)
(***************************************************************************)
-----------------------------------------------------------------------------
(***************************************************************************)
(* What one step does to the states of the rows.                           *)
(***************************************************************************)
SameStates == \A r \in Resources : row'[r].state = row[r].state

\* r moves to a state for a reason that the contract knows.
ShownMove(r, state) ==
  /\ row'[r].state = state
  /\ \A y \in Resources : y # r => row'[y].state = row[y].state
  /\ UNCHANGED kcVars
  /\ \/ /\ state = "provisioning" /\ row[r].state = "none"
        /\ r \in Subnets => row[VpcOf[r]].state = "available" /\ ~SubnetOverlaps(r)
     \/ /\ state \in {"available", "degraded"} /\ made[r] = 1
        /\ row[r].state \in {"provisioning", "available", "degraded"}
     \/ /\ state = "failed" /\ row[r].state = "provisioning"
        /\ made[r] = 0 /\ ~Exists(r)
     \/ /\ state = "deleting" /\ row[r].state \notin {"none", "deleting", "deleted"}
        /\ \A s \in Children(r) : ~InUse(s)
     \/ /\ state = "deleted" /\ row[r].state = "deleting" /\ ~Exists(r)

\* A conclusion that the row takes over: it repeats the state or moves it.
LEMMA FinishShows ==
  ASSUME LifecycleInv, NEW w \in Workers, Finish(w)
  PROVE  SameStates \/ \E r \in Resources : \E state : ShownMove(r, state)
<1> DEFINE r == work[w].res
           k == work[w]
           p == prog[w]
<1>0. /\ r \in Resources /\ row[r] \in Row /\ k \in Work /\ p \in Progress
      /\ row \in [Resources -> Row] /\ made[r] \in Nat
  BY DEF LifecycleInv, RemovalInv, TypeOK, Work
<1>1. CASE UNCHANGED row
  BY <1>1 DEF SameStates
<1>2. CASE /\ held[w] = Fences
           /\ row' = [row EXCEPT ![r] = FinishRow(@, k.active, p)]
  <2>1. row'[r].state = p.state /\ \A y \in Resources : y # r => row'[y] = row[y]
    <3>1. FinishRow(row[r], k.active, p).state = p.state
      BY <1>0 DEF FinishRow, Row
    <3> QED BY <1>0, <1>2, <3>1
  <2>2. /\ ResourceInv(r) /\ Sound(r, k, p) /\ Keeps(k, p)
        /\ row[r].state = k.state /\ k.state # "none" /\ Active(row[r]) = k.active
    BY <1>0, <1>2, Parts DEF Finish, LaneInv, View, LifecycleInv, RemovalInv,
                             DraftKeepsRemoval, FencedState
  <2>3. UNCHANGED kcVars
    BY DEF Finish
  <2>4. CASE p.state = k.state
    BY <2>1, <2>2, <2>4 DEF SameStates
  <2>5. ASSUME p.state # k.state PROVE ShownMove(r, p.state)
    <3>1. p.state # "none" /\ k.state # "deleted"
      BY <2>2, <2>5 DEF Keeps
    <3>2. k.state = "deleting" => p.state = "deleted"
      BY <2>2, <2>5 DEF Keeps
    <3>3. p.state \notin {"provisioning", "deleting"}
      <4>1. p.state \in {"provisioning", "deleting"} =>
              k.state \in {"provisioning", "deleting"}
        BY <2>2 DEF Sound, ResourceInv
      <4>2. p.state = "deleting" => k.state = "deleting"
        BY <2>2, <3>1 DEF Sound, Removing
      <4> QED BY <2>5, <3>2, <4>1, <4>2
    <3>4. p.state \in {"available", "degraded", "failed", "deleted"}
      BY <1>0, <3>1, <3>3 DEF Progress, ResourceStates
    <3>5. CASE p.state \in {"available", "degraded"}
      <4>1. made[r] = 1
        BY <1>0, <2>2, <3>5 DEF Sound, ResourceInv
      <4>2. k.state \in {"provisioning", "available", "degraded"}
        BY <1>0, <2>2, <3>1, <3>2, <3>5, <4>1 DEF ResourceInv, Work, ResourceStates
      <4> QED BY <2>1, <2>2, <2>3, <3>5, <4>1, <4>2 DEF ShownMove
    <3>6. CASE p.state = "failed"
      <4>1. made[r] = 0
        BY <2>2, <3>6 DEF Sound
      <4>2. ~Exists(r) /\ k.state \notin {"available", "degraded"}
        BY <2>2, <4>1 DEF ResourceInv
      <4>3. k.state = "provisioning"
        BY <1>0, <2>2, <2>5, <3>1, <3>2, <3>6, <4>2 DEF Work, ResourceStates
      <4> QED BY <2>1, <2>2, <2>3, <3>6, <4>1, <4>2, <4>3 DEF ShownMove
    <3>7. CASE p.state = "deleted"
      <4>1. ~Exists(r) /\ k.state = "deleting"
        BY <2>2, <3>1, <3>7 DEF Sound, Removing
      <4> QED BY <2>1, <2>2, <2>3, <3>7, <4>1 DEF ShownMove
    <3> QED BY <3>4, <3>5, <3>6, <3>7
  <2> QED BY <1>0, <2>4, <2>5
<1> QED BY <1>1, <1>2 DEF Finish, Fenced


\* Besides Finish only the API calls move a state.
LEMMA StatesMove ==
  ASSUME LifecycleInv, [Next]_vars
  PROVE  SameStates \/ \E r \in Resources : \E state : ShownMove(r, state)
<1>0. TypeOK /\ \A w \in Workers : work[w].res \in Resources
  BY DEF LifecycleInv, RemovalInv, TypeOK, Work
<1>1. ASSUME NEW r \in Resources,
             \/ r \in Vpcs /\ AcceptVPC(r)
             \/ r \in Subnets /\ AcceptSubnet(r)
      PROVE  ShownMove(r, "provisioning")
  <2>1. Accepted.state = "provisioning"
    BY DEF Accepted, NoRow
  <2>2. /\ row[r].state = "none" /\ UNCHANGED kcVars
        /\ row' = [row EXCEPT ![r] = Accepted]
    BY <1>1 DEF AcceptVPC, AcceptSubnet
  <2>3. r \in Subnets => row[VpcOf[r]].state = "available" /\ ~SubnetOverlaps(r)
    BY <1>1, ResourcesAssumption DEF AcceptSubnet, ParentReady
  <2>4. row'[r] = Accepted /\ \A y \in Resources : y # r => row'[y] = row[y]
    BY <1>0, <2>2 DEF TypeOK
  <2> QED BY <2>1, <2>2, <2>3, <2>4 DEF ShownMove
<1>2. ASSUME NEW r \in Resources,
             \/ r \in Vpcs /\ DeleteVPC(r)
             \/ r \in Subnets /\ DeleteSubnet(r)
      PROVE  ShownMove(r, "deleting")
  <2>1. /\ row[r].state \notin {"none", "deleting", "deleted"} /\ UNCHANGED kcVars
        /\ row' = [row EXCEPT ![r] = AdmitDeletion(row[r])]
    BY <1>2 DEF DeleteVPC, DeleteSubnet, Supersede, AlreadyRemoved
  <2>2. AdmitDeletion(row[r]).state = "deleting"
    BY <1>0 DEF AdmitDeletion, TypeOK, Row
  <2>3. \A s \in Children(r) : ~InUse(s)
    BY <1>2, ResourcesAssumption DEF DeleteVPC, BlockedBySubnets, InUse, Children
  <2>4. row'[r].state = "deleting" /\ \A y \in Resources : y # r => row'[y] = row[y]
    BY <1>0, <2>1, <2>2 DEF TypeOK
  <2> QED BY <2>1, <2>3, <2>4 DEF ShownMove
<1>3. ASSUME NEW w \in Workers, NEW r \in Resources, Claim(w, r) PROVE SameStates
  BY <1>0, <1>3 DEF Claim, AcquireLease, SameStates, TypeOK, Row
<1>4. ASSUME NEW w \in Workers, BeginMutation(w) PROVE SameStates
  <2>1. CASE \E uid : row' = [row EXCEPT ![work[w].res] =
                                BeginProviderMutation(@, call[w], uid)]
    BY <1>0, <2>1 DEF BeginProviderMutation, SameStates, TypeOK, Row
  <2> QED BY <1>4, <2>1 DEF BeginMutation, SameStates
<1>5. ASSUME NEW w \in Workers,
             \/ ObserveDirect(w) \/ ObserveCached(w) \/ ObserveFails(w)
             \/ CheckCreate(w) \/ CheckDelete(w) \/ CheckFails(w)
             \/ CallTimesOut(w) \/ Crash(w)
      PROVE  SameStates
  <2>1. UNCHANGED row
    BY <1>5 DEF ObserveDirect, ObserveCached, ObserveFails, CheckCreate, CheckDelete,
                CheckFails, CallTimesOut, Crash, Decide, Send
  <2> QED BY <2>1 DEF SameStates
<1>6. ASSUME ProviderStep PROVE SameStates
  <2>1. UNCHANGED row
    BY <1>6 DEF ProviderStep, ApplyCreate, ApplyDelete, Refuse, Lose, Answer,
                Finalize, Vanish
  <2> QED BY <2>1 DEF SameStates
<1>7. ASSUME NEW r \in Resources, LeaseExpires(r) \/ ObservationAges(r)
      PROVE  SameStates
  BY <1>0, <1>7 DEF LeaseExpires, ObservationAges, SameStates, TypeOK, Row
<1>8. CASE UNCHANGED vars
  BY <1>8 DEF vars, SameStates
<1> QED
  BY <1>1, <1>2, <1>3, <1>4, <1>5, <1>6, <1>7, <1>8, FinishShows
  DEF Next, LaneStep, Resources

-----------------------------------------------------------------------------
(***************************************************************************)
(* ContractInv is inductive.                                               *)
(***************************************************************************)
LEMMA NextParents ==
  ASSUME ContractInv, [Next]_vars
  PROVE  ChildrenNeedParent' /\ OverlapsExclude'
<1>0. LifecycleInv /\ ChildrenNeedParent /\ OverlapsExclude
  BY DEF ContractInv
<1>1. \A s \in Subnets : s \in Resources /\ VpcOf[s] \in Resources /\ VpcOf[s] # s
  BY ResourcesAssumption DEF Resources
<1>2. CASE SameStates
  BY <1>0, <1>1, <1>2 DEF SameStates, ChildrenNeedParent, OverlapsExclude, InUse
<1>3. ASSUME NEW r \in Resources, NEW state, ShownMove(r, state)
      PROVE  ChildrenNeedParent' /\ OverlapsExclude'
  <2>1. \A s \in Subnets : s # r => InUse(s)' = InUse(s)
    BY <1>1, <1>3 DEF ShownMove, InUse
  <2>2. state # "provisioning" => (InUse(r)' => InUse(r))
    BY <1>3 DEF ShownMove, InUse
  <2>3. ASSUME NEW s \in Subnets, InUse(s)'
        PROVE  row'[VpcOf[s]].state \in {"available", "degraded"}
    <3>1. CASE s = r
      <4>1. row[VpcOf[s]].state \in {"available", "degraded"}
        BY <1>0, <1>3, <2>2, <2>3, <3>1 DEF ShownMove, ChildrenNeedParent
      <4> QED BY <1>1, <1>3, <3>1, <4>1 DEF ShownMove
    <3>2. CASE s # r
      <4>1. InUse(s) /\ row[VpcOf[s]].state \in {"available", "degraded"}
        BY <1>0, <2>1, <2>3, <3>2 DEF ChildrenNeedParent
      <4>2. CASE VpcOf[s] # r
        BY <1>1, <1>3, <4>1, <4>2 DEF ShownMove
      <4>3. CASE VpcOf[s] = r
        BY <1>3, <4>1, <4>3 DEF ShownMove, Children
      <4> QED BY <4>2, <4>3
    <3> QED BY <3>1, <3>2
  <2>4. ASSUME NEW s \in Subnets, NEW t \in Subnets, s # t, VpcOf[s] = VpcOf[t],
               <<s, t>> \in Overlapping, InUse(s)', InUse(t)'
        PROVE  FALSE
    <3>1. <<t, s>> \in Overlapping
      BY <2>4, ResourcesAssumption
    <3>2. CASE state = "provisioning" /\ s = r
      BY <1>3, <2>1, <2>4, <3>2 DEF ShownMove, SubnetOverlaps, Children, InUse
    <3>3. CASE state = "provisioning" /\ t = r
      BY <1>3, <2>1, <2>4, <3>1, <3>3 DEF ShownMove, SubnetOverlaps, Children, InUse
    <3>4. CASE state # "provisioning" \/ (s # r /\ t # r)
      BY <1>0, <2>1, <2>2, <2>4, <3>4 DEF OverlapsExclude
    <3> QED BY <3>2, <3>3, <3>4
  <2>5. ChildrenNeedParent'
    BY <2>3 DEF ChildrenNeedParent
  <2>6. OverlapsExclude'
    BY <2>4 DEF OverlapsExclude
  <2> QED BY <2>5, <2>6
<1> QED BY <1>0, <1>2, <1>3, StatesMove

\* A lane's work and call after a step, for all actions.
LEMMA RemovalsStay ==
  ASSUME ContractInv, TypeOK', RemovalStep,
         \A w \in Workers :
            \/ /\ pc'[w] \in {"idle", "claimed"}
               /\ Removing(work'[w]) => AlreadyRemoved(row[work'[w].res])
            \/ /\ work'[w] = work[w]
               /\ pc'[w] \in {"begin", "check", "sent"} /\ call'[w] = "delete" =>
                    Removing(work[w]),
         \A q \in net' : q \notin net /\ q.kind = "delete" =>
            AlreadyRemoved(row[q.res])
  PROVE  RemovalsAreWanted'
<1>1. \A r \in Resources : AlreadyRemoved(row[r]) => AlreadyRemoved(row'[r])
  BY DEF RemovalStep, AlreadyRemoved
<1>2. /\ \A w \in Workers : work[w].res \in Resources
      /\ \A q \in net : q.res \in Resources
      /\ \A q \in net' : q.res \in Resources
  BY DEF ContractInv, LifecycleInv, RemovalInv, TypeOK, Work, Request
<1>5. \A w \in Workers : work'[w].res \in Resources
  BY DEF TypeOK, Work
<1>3. ASSUME NEW w \in Workers
      PROVE  /\ Removing(work'[w]) => AlreadyRemoved(row'[work'[w].res])
             /\ pc'[w] \in {"begin", "check", "sent"} /\ call'[w] = "delete" =>
                  Removing(work'[w])
  BY <1>1, <1>2, <1>5 DEF ContractInv, RemovalsAreWanted
<1>4. ASSUME NEW q \in net', q.kind = "delete" PROVE AlreadyRemoved(row'[q.res])
  BY <1>1, <1>2, <1>4 DEF ContractInv, RemovalsAreWanted
<1> QED BY <1>3, <1>4 DEF RemovalsAreWanted


LEMMA NextRemovals == ASSUME ContractInv, [Next]_vars PROVE RemovalsAreWanted'
<1>0. /\ RemovalInv /\ TypeOK /\ RemovalsAreWanted /\ TypeOK' /\ RemovalStep
  BY NextTypes, NextSticks DEF ContractInv, LifecycleInv, RemovalInv
<1>1. ASSUME UNCHANGED <<laneVars, net>> PROVE RemovalsAreWanted'
  BY <1>0, <1>1, RemovalsStay DEF RemovalsAreWanted
<1>2. ASSUME NEW w \in Workers, NEW r \in Resources, Claim(w, r)
      PROVE  RemovalsAreWanted'
  <2>1. /\ pc'[w] = "claimed" /\ work'[w].res = r /\ work'[w].state = row[r].state
        /\ \A x \in Workers : x # w => pc'[x] = pc[x] /\ work'[x] = work[x]
        /\ UNCHANGED <<call, net>>
    BY <1>0, <1>2 DEF Claim, TypeOK
  <2>2. Removing(work'[w]) => AlreadyRemoved(row[work'[w].res])
    BY <2>1 DEF Removing, AlreadyRemoved
  <2> QED BY <1>0, <2>1, <2>2, RemovalsStay DEF RemovalsAreWanted
<1>3. ASSUME NEW w \in Workers, NEW seen, Decide(w, seen) PROVE RemovalsAreWanted'
  <2>1. /\ call'[w] = NextCall(work[w], seen)
        /\ \A x \in Workers : x # w => pc'[x] = pc[x] /\ call'[x] = call[x]
        /\ UNCHANGED <<work, net>>
    BY <1>0, <1>3 DEF Decide, TypeOK
  <2>2. NextCall(work[w], seen) = "delete" => Removing(work[w])
    BY DEF NextCall
  <2> QED BY <1>0, <2>1, <2>2, RemovalsStay DEF RemovalsAreWanted
<1>4. ASSUME NEW w \in Workers, NEW p, Conclude(w, p), net' \subseteq net
      PROVE  RemovalsAreWanted'
  <2>1. /\ pc'[w] = "finish" /\ UNCHANGED <<call, work>>
        /\ \A x \in Workers : x # w => pc'[x] = pc[x]
    BY <1>0, <1>4 DEF Conclude, TypeOK
  <2> QED BY <1>0, <1>4, <2>1, RemovalsStay DEF RemovalsAreWanted
<1>5. ASSUME NEW w \in Workers, StepEnds(w), UNCHANGED net PROVE RemovalsAreWanted'
  <2>1. /\ pc'[w] = "idle" /\ work'[w] = NoWork
        /\ \A x \in Workers : x # w =>
             pc'[x] = pc[x] /\ work'[x] = work[x] /\ call'[x] = call[x]
    BY <1>0, <1>5 DEF StepEnds, TypeOK
  <2>2. ~Removing(NoWork)
    BY DEF Removing, NoWork
  <2> QED BY <1>0, <1>5, <2>1, <2>2, RemovalsStay DEF RemovalsAreWanted
<1>6. ASSUME NEW w \in Workers, pc[w] = "begin", pc' = [pc EXCEPT ![w] = "check"],
             UNCHANGED <<call, work, net>>
      PROVE  RemovalsAreWanted'
  <2>1. \A x \in Workers : x # w => pc'[x] = pc[x]
    BY <1>0, <1>6 DEF TypeOK
  <2> QED BY <1>0, <1>6, <2>1, RemovalsStay DEF RemovalsAreWanted
<1>7. ASSUME NEW w \in Workers, NEW uid, pc[w] = "check", Send(w, uid)
      PROVE  RemovalsAreWanted'
  <2>1. /\ \A x \in Workers : x # w => pc'[x] = pc[x]
        /\ UNCHANGED <<call, work>>
    BY <1>0, <1>7 DEF Send, TypeOK
  <2>2. call[w] = "delete" => AlreadyRemoved(row[work[w].res])
    BY <1>0, <1>7 DEF RemovalsAreWanted
  <2>3. \A q \in net' : q \notin net /\ q.kind = "delete" => AlreadyRemoved(row[q.res])
    BY <1>7, <2>2 DEF Send
  <2>4. \A x \in Workers : pc'[x] \in {"begin", "check", "sent"} /\ call'[x] = "delete"
          => Removing(work[x])
    BY <1>0, <1>7, <2>1 DEF RemovalsAreWanted
  <2> QED BY <1>0, <2>1, <2>3, <2>4, RemovalsStay
<1>8. ASSUME NEW w \in Workers, LaneStep(w) PROVE RemovalsAreWanted'
  <2>1. CASE ObserveDirect(w) \/ ObserveCached(w)
    BY <1>3, <2>1 DEF ObserveDirect, ObserveCached
  <2>2. CASE ObserveFails(w) \/ CheckFails(w) \/ CallTimesOut(w)
    BY <1>4, <2>2 DEF ObserveFails, CheckFails, CallTimesOut
  <2>3. CASE BeginMutation(w)
    BY <1>5, <1>6, <2>3 DEF BeginMutation
  <2>4. CASE CheckCreate(w)
    BY <1>4, <1>7, <2>4 DEF CheckCreate
  <2>5. CASE CheckDelete(w)
    BY <1>4, <1>7, <2>5 DEF CheckDelete
  <2>6. CASE Finish(w) \/ Crash(w)
    BY <1>5, <2>6 DEF Finish, Crash
  <2> QED BY <1>2, <1>8, <2>1, <2>2, <2>3, <2>4, <2>5, <2>6 DEF LaneStep
<1>9. ASSUME NEW q \in net, ApplyCreate(q) \/ ApplyDelete(q) \/ Refuse(q) \/ Lose(q)
      PROVE  RemovalsAreWanted'
  <2>1. PICK p : Answer(q, p)
    BY <1>9 DEF ApplyCreate, ApplyDelete, Refuse, Lose
  <2>2. net' \subseteq net /\ q.from \in Workers
    BY <1>0, <2>1 DEF Answer, TypeOK, Request
  <2>3. CASE Waits(q)
    BY <1>4, <2>1, <2>2, <2>3 DEF Answer
  <2>4. CASE ~Waits(q)
    <3>1. UNCHANGED laneVars
      BY <2>1, <2>4 DEF Answer
    <3> QED BY <1>0, <2>2, <3>1, RemovalsStay DEF RemovalsAreWanted
  <2> QED BY <2>3, <2>4
<1>10. ASSUME NEW r \in Resources,
              \/ AcceptVPC(r) \/ AcceptSubnet(r) \/ Supersede(r) \/ Finalize(r)
              \/ Vanish(r) \/ LeaseExpires(r) \/ ObservationAges(r)
       PROVE  RemovalsAreWanted'
  BY <1>1, <1>10 DEF AcceptVPC, AcceptSubnet, Supersede, Finalize, Vanish,
                     LeaseExpires, ObservationAges
<1>11. CASE UNCHANGED vars
  BY <1>1, <1>11 DEF vars
<1> QED
  BY <1>8, <1>9, <1>10, <1>11
  DEF Next, ProviderStep, DeleteVPC, DeleteSubnet, Resources

LEMMA NextContractInv == ContractInv /\ [Next]_vars => ContractInv'
BY NextLifecycle, NextParents, NextRemovals DEF ContractInv

LEMMA InitContractInv == Init => ContractInv
<1> SUFFICES ASSUME Init PROVE ContractInv
  OBVIOUS
<1>1. LifecycleInv
  BY InitLifecycle
<1>2. \A s \in Subnets : ~InUse(s)
  BY DEF Init, InUse, NoRow, Resources
<1>3. RemovalsAreWanted
  BY DEF Init, RemovalsAreWanted, NoWork, Removing
<1> QED BY <1>1, <1>2, <1>3 DEF ContractInv, ChildrenNeedParent, OverlapsExclude

\* In every reachable state a Subnet in use has a usable VPC, no two Subnets
\* that share addresses are in use, and every DELETE belongs to a removal.
THEOREM ContractInvariant == Spec => []ContractInv
<1> QED BY InitContractInv, NextContractInv, PTL DEF Spec

\* Two Subnets that share addresses never have objects at the same time: the
\* check of the rows when a Subnet is accepted (SubnetOverlaps) is enough.
THEOREM DisjointObjects == Spec => []DisjointOnProvider
<1>1. ContractInv => DisjointOnProvider
  <2> SUFFICES ASSUME ContractInv PROVE DisjointOnProvider
    OBVIOUS
  <2>1. \A r \in Resources : ResourceInv(r)
    BY Parts DEF ContractInv
  <2>2. \A s \in Subnets : Exists(s) => InUse(s)
    BY <2>1 DEF ResourceInv, InUse, Resources
  <2> QED BY <2>2 DEF ContractInv, OverlapsExclude, DisjointOnProvider
<1> QED BY <1>1, ContractInvariant, PTL


-----------------------------------------------------------------------------
(***************************************************************************)
(* The refinement.                                                         *)
(***************************************************************************)
Shown == [r \in Resources |-> row[r].state]

Object == [r \in Resources |->
             IF obj[r] # "absent" THEN obj[r] ELSE IF made[r] = 0 THEN "never" ELSE "past"]

\* Moves of a shown state are moves of the contract.
LEMMA ShownImplements ==
  ASSUME ContractInv, NEW r \in Resources, NEW state, ShownMove(r, state)
  PROVE  Contract!Next
<1>0. /\ \A y \in Resources : ResourceInv(y)
      /\ \A y \in Resources : made[y] \in Nat
      /\ ChildrenNeedParent
  BY Parts DEF ContractInv, LifecycleInv, RemovalInv, TypeOK
<1>1. Shown' = [Shown EXCEPT ![r] = state] /\ Object' = Object
  BY DEF ShownMove, Shown, Object
<1>2. Shown[r] = row[r].state /\ Resources = Contract!Resources
  BY DEF Shown, Resources, Contract!Resources
<1>3. Contract!Show(r, state)
  BY <1>1 DEF Shown, Object, Contract!Show
<1>4. CASE state = "provisioning"
  <2>1. row[r].state = "none" /\ (r \in Subnets => row[VpcOf[r]].state = "available")
    BY <1>4 DEF ShownMove
  <2>2. Contract!Ask(r)
    BY <1>3, <1>4, <2>1, ResourcesAssumption DEF Contract!Ask, Resources
  <2> QED BY <1>2, <2>2 DEF Contract!Next
<1>5. CASE state \in {"available", "degraded"}
  <2>1. /\ made[r] = 1 /\ row[r].state \in {"provisioning", "available", "degraded"}
    BY <1>5 DEF ShownMove
  <2>2. Object[r] # "never"
    BY <1>0, <2>1 DEF Object, ContractInv, LifecycleInv, RemovalInv, TypeOK
  <2>3. Contract!Confirm(r)
    BY <1>3, <1>5, <2>1, <2>2 DEF Contract!Confirm, Contract!Usable, Object
  <2> QED BY <1>2, <2>3 DEF Contract!Next
<1>6. CASE state = "failed"
  <2>1. row[r].state = "provisioning" /\ Object[r] = "never"
    BY <1>6 DEF ShownMove, Object, Exists
  <2>2. Contract!GiveUp(r)
    BY <1>3, <1>6, <2>1 DEF Contract!GiveUp, Object
  <2> QED BY <1>2, <2>2 DEF Contract!Next
<1>7. CASE state = "deleting"
  <2>1. /\ row[r].state \notin {"none", "deleting", "deleted"}
        /\ \A s \in Children(r) : ~InUse(s)
    BY <1>7 DEF ShownMove
  <2>2. ASSUME NEW s \in Children(r)
        PROVE  s \in Resources /\ row[s].state \in {"none", "deleted"} /\ ~Exists(s)
    BY <1>0, <2>1, <2>2 DEF Children, InUse, ResourceInv, Resources
  <2>3. \A s \in Contract!Children(r) :
          /\ Shown[s] \in {"none", "deleted"} /\ Object[s] \in {"never", "past"}
    BY <2>2 DEF Contract!Children, Children, Shown, Object, Exists
  <2>4. Contract!Remove(r)
    BY <1>3, <1>7, <2>1, <2>3 DEF Contract!Remove, Contract!Over, Shown, Object
  <2> QED BY <1>2, <2>4 DEF Contract!Next
<1>8. CASE state = "deleted"
  <2>1. row[r].state = "deleting" /\ Object[r] \in {"never", "past"}
    BY <1>8 DEF ShownMove, Object, Exists
  <2>2. Contract!Close(r)
    BY <1>3, <1>8, <2>1 DEF Contract!Close, Contract!Over, Object
  <2> QED BY <1>2, <2>2 DEF Contract!Next
<1> QED BY <1>4, <1>5, <1>6, <1>7, <1>8 DEF ShownMove


\* Moves of an object are moves of the contract.
LEMMA ObjectImplements ==
  ASSUME ContractInv, [Next]_vars, ProviderStep
  PROVE  Contract!Next \/ UNCHANGED <<Shown, Object>>
<1>0. /\ \A y \in Resources : ResourceInv(y)
      /\ TypeOK /\ ChildrenNeedParent /\ RemovalsAreWanted /\ LifecycleInv
  BY Parts DEF ContractInv, LifecycleInv, RemovalInv
<1>1. UNCHANGED row
  BY DEF ProviderStep, ApplyCreate, ApplyDelete, Refuse, Lose, Answer, Finalize, Vanish
<1>2. Shown' = Shown /\ Resources = Contract!Resources
  BY <1>1 DEF Shown, Resources, Contract!Resources
<1>3. ASSUME NEW r \in Resources, NEW what, Object' = [Object EXCEPT ![r] = what]
      PROVE  Contract!Become(r, what)
  BY <1>1, <1>3 DEF Object, Contract!Become
<1>4. ASSUME NEW q \in net, ApplyCreate(q) PROVE Contract!Next
  <2> DEFINE r == q.res
  <2>1. PICK p : Answer(q, p)
    BY <1>4 DEF ApplyCreate
  <2>2. r \in Resources /\ q.kind = "create"
    BY <1>0, <1>4 DEF ApplyCreate, TypeOK, Request
  <2>3. made[r] = 0 /\ ~Exists(r) /\ PostMayLand(r)
    BY <1>0, <2>1, <2>2, OnlyPost
  <2>4. obj' = [obj EXCEPT ![r] = "live"] /\ made' = [made EXCEPT ![r] = 1]
    BY <1>0, <1>4, <2>2, <2>3 DEF ApplyCreate, TypeOK
  <2>5. Object[r] = "never" /\ Object' = [Object EXCEPT ![r] = "live"]
    BY <1>0, <2>2, <2>3, <2>4 DEF Object, Exists, TypeOK
  <2>6. row[r].state = "provisioning"
    BY <1>0, <2>2, <2>3 DEF ResourceInv
  <2>7. r \in Subnets => row[VpcOf[r]].state \in {"available", "degraded"}
    BY <1>0, <2>6 DEF ChildrenNeedParent, InUse
  <2>8. Contract!Become(r, "live")
    BY <1>3, <2>2, <2>5
  <2>9. Contract!Appear(r)
    BY <2>2, <2>5, <2>6, <2>7, <2>8, ResourcesAssumption
    DEF Contract!Appear, Contract!Usable, Object, Resources
  <2> QED BY <1>2, <2>2, <2>9 DEF Contract!Next
<1>5. ASSUME NEW q \in net, ApplyDelete(q)
      PROVE  Contract!Next \/ UNCHANGED <<Shown, Object>>
  <2> DEFINE r == q.res
  <2>1. r \in Resources /\ q.kind = "delete" /\ made' = made
    BY <1>0, <1>5 DEF ApplyDelete, TypeOK, Request
  <2>2. CASE obj' = obj
    BY <1>2, <2>1, <2>2 DEF Object
  <2>3. CASE obj' # obj
    <3>1. Exists(r) /\ obj' = [obj EXCEPT ![r] = "terminating"]
      BY <1>5, <2>3 DEF ApplyDelete
    <3>2. obj[r] = "live"
      BY <1>0, <2>1, <2>3, <3>1 DEF Exists, TypeOK
    <3>3. row[r].state = "deleting"
      BY <1>0, <2>1, <3>1 DEF RemovalsAreWanted, AlreadyRemoved, ResourceInv
    <3>4. Object[r] = "live" /\ Object' = [Object EXCEPT ![r] = "terminating"]
      BY <1>0, <2>1, <3>1, <3>2 DEF Object, TypeOK
    <3>5. Contract!Become(r, "terminating")
      BY <1>3, <2>1, <3>4
    <3>6. Contract!Terminate(r)
      BY <2>1, <3>3, <3>4, <3>5 DEF Contract!Terminate, Object
    <3> QED BY <1>2, <2>1, <3>6 DEF Contract!Next
  <2> QED BY <2>2, <2>3
<1>6. ASSUME NEW q \in net, Refuse(q) \/ Lose(q)
      PROVE  UNCHANGED <<Shown, Object>>
  BY <1>2, <1>6 DEF Refuse, Lose, Object
<1>7. ASSUME NEW r \in Resources, Finalize(r) \/ Vanish(r) PROVE Contract!Next
  <2>1. /\ obj[r] \in {"live", "terminating"} /\ made' = made
        /\ obj' = [obj EXCEPT ![r] = "absent"]
    BY <1>7 DEF Finalize, Vanish
  <2>2. made[r] = 1
    BY <1>0, <2>1 DEF ResourceInv, Exists
  <2>3. Object[r] = obj[r] /\ Object' = [Object EXCEPT ![r] = "past"]
    <3>1. Object[r] = obj[r]
      BY <2>1 DEF Object
    <3>2. /\ obj'[r] = "absent" /\ made'[r] # 0
          /\ \A y \in Resources : y # r => obj'[y] = obj[y] /\ made'[y] = made[y]
      BY <1>0, <2>1, <2>2 DEF TypeOK
    <3>3. Object' = [Object EXCEPT ![r] = "past"]
      BY <3>2 DEF Object
    <3> QED BY <3>1, <3>3
  <2>4. Contract!Become(r, "past")
    BY <1>3, <2>3
  <2>5. CASE Finalize(r)
    <3>1. Object[r] = "terminating"
      BY <2>3, <2>5 DEF Finalize
    <3>2. Contract!Vanish(r)
      BY <2>4, <3>1 DEF Contract!Vanish, Object
    <3> QED BY <1>2, <3>2 DEF Contract!Next
  <2>6. CASE Vanish(r)
    <3>1. Object[r] = "live"
      BY <2>3, <2>6 DEF Vanish
    <3>2. Contract!Lose(r)
      BY <2>4, <3>1 DEF Contract!Lose, Object
    <3> QED BY <1>2, <3>2 DEF Contract!Next
  <2> QED BY <1>7, <2>5, <2>6
<1> QED BY <1>4, <1>5, <1>6, <1>7 DEF ProviderStep

LEMMA NextImplements ==
  ContractInv /\ [Next]_vars => [Contract!Next]_(Contract!vars)
<1> SUFFICES ASSUME ContractInv, [Next]_vars
             PROVE  Contract!Next \/ UNCHANGED <<Shown, Object>>
  BY DEF Contract!vars, Shown, Object
<1>1. CASE ProviderStep
  BY <1>1, ObjectImplements
<1>2. CASE ~ProviderStep
  <2>1. UNCHANGED <<obj, made>>
    <3>1. ASSUME NEW w \in Workers, LaneStep(w) PROVE UNCHANGED <<obj, made>>
      BY <3>1 DEF LaneStep, Claim, ObserveDirect, ObserveCached, ObserveFails, Decide,
                  BeginMutation, CheckCreate, CheckDelete, CheckFails, CallTimesOut,
                  Send, Finish, Crash
    <3> QED BY <1>2, <3>1 DEF Next, vars, AcceptVPC, AcceptSubnet, DeleteVPC,
                              DeleteSubnet, Supersede, LeaseExpires, ObservationAges
  <2>2. CASE SameStates
    BY <2>1, <2>2 DEF SameStates, Shown, Object
  <2>3. ASSUME NEW r \in Resources, NEW state, ShownMove(r, state) PROVE Contract!Next
    BY <2>3, ShownImplements
  <2> QED BY <2>2, <2>3, StatesMove DEF ContractInv
<1> QED BY <1>1, <1>2

\* Every step of the API calls, the lanes, the provider and the clock is a
\* step of the contract, or changes nothing a client can see, whatever fails.
THEOREM KeepsTheContract == Spec => KeepsContract
<1>1. Init => Contract!Init
  <2> SUFFICES ASSUME Init PROVE Contract!Init
    OBVIOUS
  <2>1. NoRow.state = "none"
    BY DEF NoRow
  <2> QED BY <2>1 DEF Init, Contract!Init, Resources, Contract!Resources
<1>2. ContractInv /\ [Next]_vars => [Contract!Next]_(Contract!vars)
  BY NextImplements
<1> QED BY <1>1, <1>2, ContractInvariant, PTL DEF Spec, KeepsContract, Contract!Spec
=============================================================================
