----------------------------- MODULE Observation -----------------------------
(***************************************************************************)
(* The shared observation of a process (kc_observation.go): a Watch that   *)
(* gives hints, an audit that collects complete views, durable             *)
(* notifications that wake the lanes, and the lanes that apply what they   *)
(* read to the rows all processes share.                                   *)
(*                                                                         *)
(* Sequence numbers, epochs and collection times are only compared, so a   *)
(* collection carries the outcome of each comparison:                      *)
(*   dirty    objects whose change was recorded after its sequence number  *)
(*   current  its epoch is still the observer's                            *)
(*   since    lanes whose boundary lies before its collection time         *)
(*   after    rows whose last evidence was applied before that time        *)
(* An object stands for the relationship keys it is indexed by, its state  *)
(* for a count of changes; the hash of a row's evidence is the states it   *)
(* was computed from.                                                      *)
(***************************************************************************)
EXTENDS Naturals, FiniteSets

CONSTANTS
  Objects,       \* provider objects
  Targets,       \* durable rows: attachments, resources, resources being removed
  KindOf,        \* "attachment", "resource" or "removal", per target
  ObjectsOf,     \* the objects a target is about
  Lanes, ProcessOf,
  QueueCapacity, \* hints kept between two flushes
  ChangesFactor, \* change records kept, per hint (8 in the code)
  MaxChanges,    \* bound on the changes of an object
  MaxRows,       \* bound on the rows that are accepted
  MaxFaults      \* bound on failures and continuity boundaries

Processes == {ProcessOf[w] : w \in Lanes}

Kinds == {"attachment", "resource", "removal"}

ASSUME ObservationAssumption ==
  /\ KindOf \in [Targets -> Kinds]
  /\ ObjectsOf \in [Targets -> SUBSET Objects]
  /\ QueueCapacity \in Nat /\ ChangesFactor \in Nat
  /\ MaxChanges \in Nat /\ MaxRows \in Nat /\ MaxFaults \in Nat

VARIABLES
  world,     \* the state of every object
  seen,      \* the state the Watch of a process has delivered
  changes,   \* objects in the map of changes
  pending,   \* hints for the next flush
  overflow,  \* hints were lost: everything is to be woken
  out,       \* targets a flush still has to notify
  run,       \* the collection under way
  view,      \* the last complete collection
  row,       \* the durable rows
  lane,      \* the step a lane is in
  got,       \* the collection a lane works with
  owed,      \* targets of a view whose change was delivered and not yet notified
  faults

watchVars == <<world, seen, changes, pending, overflow>>
vars == <<world, seen, changes, pending, overflow, out, run, view, row, lane,
          got, owed, faults>>

-----------------------------------------------------------------------------
States == [Objects -> 0..MaxChanges]

Nothing == [o \in Objects |-> 0]

\* auditView, complete or under way (todo: the objects still to be listed).
Collection ==
  [on : BOOLEAN, todo : SUBSET Objects, data : States, targets : SUBSET Targets,
   gen : [Targets -> Nat], dirty : SUBSET Objects, current : BOOLEAN,
   since : SUBSET Lanes, after : SUBSET Targets]

NoCollection ==
  [on |-> FALSE, todo |-> {}, data |-> Nothing, targets |-> {},
   gen |-> [t \in Targets |-> 0], dirty |-> {}, current |-> FALSE,
   since |-> {}, after |-> {}]

\* noted: the states whose delivery led to the last notification of the row.
Row == [known : BOOLEAN, requested : Nat, processed : Nat, due : BOOLEAN,
        backoff : BOOLEAN, applied : States, evidence : BOOLEAN, noted : States]

NoRow == [known |-> FALSE, requested |-> 0, processed |-> 0, due |-> FALSE,
          backoff |-> FALSE, applied |-> Nothing, evidence |-> FALSE,
          noted |-> Nothing]

\* fresh: only a collection begun after the lane's boundary will do.
\* base: the states when the row was claimed.
Step == [pc : {"idle", "wait", "use", "finish"}, on : Targets, req : Nat,
         fresh : BOOLEAN, ok : BOOLEAN, data : States, cov : Nat, base : States]

NoStep == [pc |-> "idle", on |-> CHOOSE t \in Targets : TRUE, req |-> 0,
           fresh |-> TRUE, ok |-> FALSE, data |-> Nothing, cov |-> 0, base |-> Nothing]

Init ==
  /\ world    = Nothing
  /\ seen     = [p \in Processes |-> Nothing]
  /\ changes  = [p \in Processes |-> {}]
  /\ pending  = [p \in Processes |-> {}]
  /\ overflow = [p \in Processes |-> FALSE]
  /\ out      = [p \in Processes |-> {}]
  /\ run      = [p \in Processes |-> NoCollection]
  /\ view     = [p \in Processes |-> NoCollection]
  /\ row      = [t \in Targets |-> NoRow]
  /\ lane     = [w \in Lanes |-> NoStep]
  /\ got      = [w \in Lanes |-> NoCollection]
  /\ owed     = [p \in Processes |-> {}]
  /\ faults   = 0

\* The newer state of each object.
Later(a, b) == [o \in Objects |-> IF a[o] > b[o] THEN a[o] ELSE b[o]]

Fault == faults < MaxFaults /\ faults' = faults + 1

\* Every collection of process p, those its lanes work with included, passes
\* through F.
Everywhere(p, F(_)) ==
  LET Apply(v) == IF v.on THEN F(v) ELSE v
  IN /\ run'  = [run  EXCEPT ![p] = Apply(@)]
     /\ view' = [view EXCEPT ![p] = Apply(@)]
     /\ got'  = [w \in Lanes |->
                   IF ProcessOf[w] = p THEN Apply(got[w]) ELSE got[w]]

\* An epoch has ended: no record of changes is needed any more.
Invalid(v) == [v EXCEPT !.current = FALSE, !.dirty = {}]

Dirty(v, o) == IF v.current THEN [v EXCEPT !.dirty = @ \cup {o}] ELSE v

-----------------------------------------------------------------------------
(***************************************************************************)
(* The cluster and the Watch.                                              *)
(***************************************************************************)
Change(o) ==
  /\ world[o] < MaxChanges
  /\ world' = [world EXCEPT ![o] = @ + 1]
  /\ UNCHANGED <<seen, changes, pending, overflow, out, run, view, row, lane,
                 got, owed, faults>>

\* A row is accepted: it is due at once.
Register(t) ==
  /\ ~row[t].known /\ Cardinality({u \in Targets : row[u].known}) < MaxRows
  /\ row' = [row EXCEPT ![t].known = TRUE, ![t].due = TRUE]
  /\ UNCHANGED <<watchVars, out, run, view, lane, got, owed, faults>>

\* The targets of v that objects are about.
About(v, objects) == {t \in v.targets : ObjectsOf[t] \cap objects # {}}

ChangesFull(p) == Cardinality(changes[p]) >= QueueCapacity * ChangesFactor

\* A full map of changes is cleared, and the new epoch invalidates every
\* collection instead.
Recorded(p, v, o) == IF ChangesFull(p) THEN Invalid(v) ELSE Dirty(v, o)

\* changed: the handler of Watch events.
Changed(p, o) ==
  LET full == o \notin pending[p] /\ Cardinality(pending[p]) >= QueueCapacity
  IN /\ seen[p][o] < world[o]
     /\ seen'     = [seen EXCEPT ![p][o] = world[o]]
     /\ changes'  = [changes EXCEPT ![p] = (IF ChangesFull(p) THEN {} ELSE @) \cup {o}]
     /\ pending'  = [pending EXCEPT ![p] = IF full THEN @ ELSE @ \cup {o}]
     /\ overflow' = [overflow EXCEPT ![p] = @ \/ full \/ ChangesFull(p)]
     /\ owed'     = [owed EXCEPT ![p] = @ \cup About(view[p], {o})]
     /\ Everywhere(p, LAMBDA v : Recorded(p, v, o))
     /\ UNCHANGED <<world, out, row, lane, faults>>

\* A Watch starts again or reports an error: what it delivered before proves
\* nothing about what follows.
SourceBoundary(p) ==
  /\ overflow' = [overflow EXCEPT ![p] = TRUE]
  /\ Everywhere(p, Invalid)
  /\ Fault
  /\ UNCHANGED <<world, seen, changes, pending, out, row, lane, owed>>

-----------------------------------------------------------------------------
(***************************************************************************)
(* flush: hints become durable notifications of the targets that the last  *)
(* view knows, one transaction each.                                       *)
(***************************************************************************)
Hinted_ForgetsOverflow(p) == About(view[p], pending[p])

Hinted(p) == IF overflow[p] THEN view[p].targets ELSE About(view[p], pending[p])

Flush(p) ==
  /\ view[p].on /\ out[p] = {}
  /\ pending[p] # {} \/ overflow[p]
  /\ out' = [out EXCEPT ![p] = Hinted(p)]
  /\ pending'  = [pending EXCEPT ![p] = {}]
  /\ overflow' = [overflow EXCEPT ![p] = FALSE]
  /\ UNCHANGED <<world, seen, changes, run, view, row, lane, got, owed, faults>>

\* NotifyResource and NotifyAttachment: a backoff is a lower bound.
Notify(p, t) ==
  /\ t \in out[p]
  /\ out' = [out EXCEPT ![p] = @ \ {t}]
  /\ row' = [row EXCEPT ![t].requested = @ + 1,
                        ![t].due = @ \/ ~row[t].backoff,
                        ![t].noted = Later(@, seen[p])]
  /\ owed' = [owed EXCEPT ![p] = @ \ {t}]
  /\ UNCHANGED <<watchVars, run, view, lane, got, faults>>

\* The rest of the flush is given up; everything is woken the next time.
NotifyFails(p) ==
  /\ out[p] # {}
  /\ out'      = [out EXCEPT ![p] = {}]
  /\ overflow' = [overflow EXCEPT ![p] = TRUE]
  /\ Fault
  /\ UNCHANGED <<world, seen, changes, pending, run, view, row, lane, got, owed>>

-----------------------------------------------------------------------------
(***************************************************************************)
(* refresh and collect: one collection at a time, whoever asks.  Sequence, *)
(* epoch, generations and time are taken before the first object is        *)
(* listed.                                                                 *)
(***************************************************************************)
Waits(w) == lane[w].pc = "wait" /\ lane[w].fresh

Collect_MovesBoundaries(p) ==
  /\ ~run[p].on
  /\ run' = [run EXCEPT ![p] =
       [on |-> TRUE, todo |-> Objects, data |-> Nothing,
        targets |-> {t \in Targets : row[t].known},
        gen |-> [t \in Targets |-> row[t].requested],
        dirty |-> {}, current |-> TRUE, since |-> {}, after |-> Targets]]
  /\ UNCHANGED <<watchVars, out, view, row, lane, got, owed, faults>>

\* A lane whose boundary no finished collection satisfies, or the audit loop.
Collect(p) ==
  /\ ~run[p].on
  /\ run' = [run EXCEPT ![p] =
       [on |-> TRUE, todo |-> Objects, data |-> Nothing,
        targets |-> {t \in Targets : row[t].known},
        gen |-> [t \in Targets |-> row[t].requested],
        dirty |-> {}, current |-> TRUE,
        since |-> {w \in Lanes : ProcessOf[w] = p /\ Waits(w)},
        after |-> Targets]]
  /\ UNCHANGED <<watchVars, out, view, row, lane, got, owed, faults>>

ListAll(p, o) ==
  /\ o \in run[p].todo
  /\ run' = [run EXCEPT ![p].data[o] = world[o], ![p].todo = @ \ {o}]
  /\ UNCHANGED <<watchVars, out, view, row, lane, got, owed, faults>>

\* The waiters of this collection get its result, those it is new enough for
\* keep it; the others wait for the next one.
Collected(p) ==
  /\ run[p].on /\ run[p].todo = {}
  /\ view' = [view EXCEPT ![p] = run[p]]
  /\ run'  = [run EXCEPT ![p] = NoCollection]
  /\ UNCHANGED <<watchVars, out, row, lane, got, owed, faults>>

Fails(w) == [lane[w] EXCEPT !.pc = "finish", !.ok = FALSE, !.cov = 0]

\* An error of the collection is an error for everyone who joined it.
CollectFails(p) ==
  /\ run[p].on
  /\ run'  = [run EXCEPT ![p] = NoCollection]
  /\ lane' = [w \in Lanes |->
                IF ProcessOf[w] = p /\ lane[w].pc = "wait" THEN Fails(w)
                                                           ELSE lane[w]]
  /\ Fault
  /\ UNCHANGED <<watchVars, out, view, row, got, owed>>

\* snapshot: a complete collection that is not older than the boundary.
NewEnough(w) ==
  /\ view[ProcessOf[w]].on
  /\ lane[w].fresh => w \in view[ProcessOf[w]].since

Snapshot(w) ==
  /\ lane[w].pc = "wait" /\ KindOf[lane[w].on] # "resource" /\ NewEnough(w)
  /\ got'  = [got EXCEPT ![w] = [view[ProcessOf[w]] EXCEPT !.since = {}]]
  /\ lane' = [lane EXCEPT ![w].pc = "use"]
  /\ UNCHANGED <<watchVars, out, run, view, row, owed, faults>>

-----------------------------------------------------------------------------
(***************************************************************************)
(* A lane's step: claim a due row, observe, finish.                        *)
(***************************************************************************)
\* The lane's boundary is now: no collection so far is new enough for it.
Boundary(w) ==
  /\ run'  = [p \in Processes |-> [run[p]  EXCEPT !.since = @ \ {w}]]
  /\ view' = [p \in Processes |-> [view[p] EXCEPT !.since = @ \ {w}]]

Working(t) == \E w \in Lanes : lane[w].pc # "idle" /\ lane[w].on = t

\* A removal needs a fresh collection; an attachment does when its owner has
\* closed the submission or the last view is too old.
Freshness(kind) == CASE kind = "removal"  -> {TRUE}
                     [] kind = "resource" -> {FALSE}
                     [] OTHER             -> BOOLEAN

Claim(w, t) ==
  /\ lane[w].pc = "idle"
  /\ row[t].known /\ row[t].due /\ ~Working(t)
  /\ \E fresh \in Freshness(KindOf[t]) :
       lane' = [lane EXCEPT ![w] =
                  [NoStep EXCEPT !.pc = "wait", !.on = t, !.fresh = fresh,
                                 !.req = row[t].requested,
                                 !.base = IF KindOf[t] = "removal" THEN world
                                                                   ELSE Nothing]]
  /\ Boundary(w)
  /\ UNCHANGED <<watchVars, out, row, got, owed, faults>>

Restrict(t, data) == [o \in Objects |-> IF o \in ObjectsOf[t] THEN data[o] ELSE 0]

Covers_IgnoresAge(w, v) ==
  v.gen[lane[w].on] >= lane[w].req

\* ObservationProof.Covers.
Covers(w, v) ==
  LET t == lane[w].on
  IN /\ v.gen[t] >= lane[w].req
     /\ \/ t \in v.after
        \/ row[t].evidence /\ Restrict(t, v.data) = row[t].applied

Valid_IgnoresChanges(v, objects) == v.current

\* KCObservation.valid.
Valid(v, objects) == v.current /\ v.dirty \cap objects = {}

Concludes(w, v) ==
  [lane[w] EXCEPT !.pc = "finish", !.ok = TRUE,
                  !.data = Restrict(lane[w].on, v.data),
                  !.cov  = v.gen[lane[w].on]]

\* ObserveAttachment: a view that does not cover the requirement, or that a
\* recorded change contradicts, moves the boundary and is replaced.
ObserveAttachment(w) ==
  LET t == lane[w].on
      usable == Covers(w, got[w]) /\ Valid(got[w], ObjectsOf[t])
  IN /\ lane[w].pc = "use" /\ KindOf[t] = "attachment"
     /\ got' = [got EXCEPT ![w] = NoCollection]
     /\ \/ /\ usable
           /\ lane' = [lane EXCEPT ![w] = Concludes(w, got[w])]
           /\ UNCHANGED <<run, view>>
        \/ /\ ~usable
           /\ lane' = [lane EXCEPT ![w].pc = "wait", ![w].fresh = TRUE]
           /\ Boundary(w)
     /\ UNCHANGED <<watchVars, out, row, owed, faults>>

\* completeDependencies: the boundary stays, and a change of the dependants
\* that is known by now is an error.
CompleteDependencies(w) ==
  LET t == lane[w].on
  IN /\ lane[w].pc = "use" /\ KindOf[t] = "removal"
     /\ got'  = [got EXCEPT ![w] = NoCollection]
     /\ lane' = [lane EXCEPT ![w] = IF Valid(got[w], ObjectsOf[t])
                                      THEN [Concludes(w, got[w]) EXCEPT !.cov = lane[w].req]
                                      ELSE Fails(w)]
     /\ UNCHANGED <<watchVars, out, run, view, row, owed, faults>>

\* Observe of a resource with a recorded identity: the last view if it covers
\* the requirement, a current request otherwise.
ObserveResource(w) ==
  LET t == lane[w].on
      v == view[ProcessOf[w]]
  IN /\ lane[w].pc = "wait" /\ KindOf[t] = "resource"
     /\ \/ /\ v.on /\ Valid(v, ObjectsOf[t]) /\ Covers(w, v)
           /\ lane' = [lane EXCEPT ![w] = Concludes(w, v)]
        \/ lane' = [lane EXCEPT ![w] =
             [lane[w] EXCEPT !.pc = "finish", !.ok = TRUE,
                             !.data = Restrict(t, world), !.cov = lane[w].req]]
     /\ UNCHANGED <<watchVars, out, run, view, row, got, owed, faults>>

\* The request context of the step ends.
ObserveTimesOut(w) ==
  /\ lane[w].pc \in {"wait", "use"}
  /\ lane' = [lane EXCEPT ![w] = Fails(w)]
  /\ got'  = [got EXCEPT ![w] = NoCollection]
  /\ Fault
  /\ UNCHANGED <<watchVars, out, run, view, row, owed>>

Least(a, b) == IF a < b THEN a ELSE b

Greatest(a, b) == IF a < b THEN b ELSE a

\* coveredGeneration.
Covered(w) == IF lane[w].ok THEN Least(lane[w].cov, lane[w].req) ELSE 0

\* ReleaseLease: a notification since the claim keeps the row due, except
\* under a backoff.
StillDue(w) == lane[w].ok /\ row[lane[w].on].requested > Covered(w)

Finish(w) ==
  LET t == lane[w].on
      Aged(v) == [v EXCEPT !.after = @ \ {t}]
  IN /\ lane[w].pc = "finish"
     /\ row' = [row EXCEPT ![t] =
          [@ EXCEPT !.processed = Greatest(row[t].processed, Covered(w)),
                    !.due       = StillDue(w),
                    !.backoff   = ~lane[w].ok,
                    !.applied   = IF lane[w].ok THEN lane[w].data ELSE row[t].applied,
                    !.evidence  = row[t].evidence \/ lane[w].ok]]
     /\ lane' = [lane EXCEPT ![w] = NoStep]
     /\ IF lane[w].ok
          THEN /\ run'  = [p \in Processes |-> Aged(run[p])]
               /\ view' = [p \in Processes |-> Aged(view[p])]
               /\ got'  = [x \in Lanes |-> Aged(got[x])]
          ELSE UNCHANGED <<run, view, got>>
     /\ UNCHANGED <<watchVars, out, owed, faults>>

\* next_run_at or retry_not_before has passed.
Deadline(t) ==
  /\ row[t].known /\ ~row[t].due /\ ~Working(t)
  /\ row' = [row EXCEPT ![t].due = TRUE, ![t].backoff = FALSE]
  /\ UNCHANGED <<watchVars, out, run, view, lane, got, owed, faults>>

\* Stop and a later start, or a crash: the memory of the process is gone, the
\* rows stay due; the new informers list everything again.
Restart(p) ==
  LET Mine(w) == ProcessOf[w] = p
  IN /\ seen'     = [seen EXCEPT ![p] = Nothing]
     /\ changes'  = [changes EXCEPT ![p] = {}]
     /\ pending'  = [pending EXCEPT ![p] = {}]
     /\ overflow' = [overflow EXCEPT ![p] = FALSE]
     /\ out'      = [out EXCEPT ![p] = {}]
     /\ run'      = [run EXCEPT ![p] = NoCollection]
     /\ view'     = [view EXCEPT ![p] = NoCollection]
     /\ lane'     = [w \in Lanes |-> IF Mine(w) THEN NoStep ELSE lane[w]]
     /\ got'      = [w \in Lanes |-> IF Mine(w) THEN NoCollection ELSE got[w]]
     /\ owed'     = [owed EXCEPT ![p] = {}]
     /\ Fault
     /\ UNCHANGED <<world, row>>

-----------------------------------------------------------------------------
Next ==
  \/ \E o \in Objects : Change(o)
  \/ \E t \in Targets : Register(t) \/ Deadline(t)
  \/ \E p \in Processes :
       \/ \E o \in Objects : Changed(p, o) \/ ListAll(p, o)
       \/ SourceBoundary(p) \/ Flush(p) \/ NotifyFails(p)
       \/ \E t \in Targets : Notify(p, t)
       \/ Collect(p) \/ Collected(p) \/ CollectFails(p) \/ Restart(p)
  \/ \E w \in Lanes :
       \/ \E t \in Targets : Claim(w, t)
       \/ Snapshot(w) \/ ObserveAttachment(w) \/ CompleteDependencies(w)
       \/ ObserveResource(w) \/ ObserveTimesOut(w) \/ Finish(w)

Spec == Init /\ [][Next]_vars

(***************************************************************************)
(* Fairness.  auditLoop keeps collecting; a collection and a step are      *)
(* bounded by timeouts; rows are claimed in the order of next_run_at;      *)
(* deadlines are time.  The Watch promises nothing: neither deliveries nor *)
(* flushes are fair.                                                       *)
(***************************************************************************)
LaneRuns(w) ==
  \/ Snapshot(w) \/ ObserveAttachment(w) \/ CompleteDependencies(w)
  \/ ObserveResource(w) \/ Finish(w)

Fairness ==
  /\ \A p \in Processes :
       /\ WF_vars(Collect(p)) /\ WF_vars(Collected(p))
       /\ \A o \in Objects : WF_vars(ListAll(p, o))
  /\ \A w \in Lanes : WF_vars(LaneRuns(w))
  /\ \A t \in Targets : /\ WF_vars(Deadline(t))
                        /\ SF_vars(\E w \in Lanes : Claim(w, t))

LiveSpec == Spec /\ Fairness

-----------------------------------------------------------------------------
\* The shapes of the observer's memory and of the rows.
TypeOK ==
  /\ world \in States
  /\ seen \in [Processes -> States]
  /\ changes \in [Processes -> SUBSET Objects]
  /\ pending \in [Processes -> SUBSET Objects]
  /\ overflow \in [Processes -> BOOLEAN]
  /\ out \in [Processes -> SUBSET Targets]
  /\ run \in [Processes -> Collection]
  /\ view \in [Processes -> Collection]
  /\ row \in [Targets -> Row]
  /\ lane \in [Lanes -> Step]
  /\ got \in [Lanes -> Collection]
  /\ owed \in [Processes -> SUBSET Targets]
  /\ faults \in 0..MaxFaults

\* Covers: whichever replica a row is claimed by, and however old the view it
\* holds, the facts of a row never go back to an earlier state of an object
\* (docs/specs/cr-observation.md section 3: the second replica's older cache).
FactsNeverRegress ==
  [][\A t \in Targets, o \in Objects :
       row'[t].applied[o] >= row[t].applied[o]]_vars

\* valid: what a lane concludes from a view is not behind what the Watch of
\* its own process had delivered by then, whatever was cleared, coalesced or
\* broke off during the collection.
NotBehindWatch ==
  [][\A w \in Lanes :
       LET p == ProcessOf[w]
           t == lane[w].on
       IN lane[w].pc \in {"wait", "use"} /\ lane'[w].pc = "finish" /\ lane'[w].ok
            => \A o \in ObjectsOf[t] : lane'[w].data[o] >= seen[p][o]]_vars

\* coveredGeneration, ReleaseLease: a row whose notifications all count as
\* processed shows every state that led to one of them.
ProcessedIsApplied ==
  \A t \in Targets :
     row[t].processed = row[t].requested
       => \A o \in ObjectsOf[t] : row[t].applied[o] >= row[t].noted[o]

\* NotifyResource, ReleaseLease: a row with an unprocessed notification is due,
\* being worked on, or backing off after a failure; the wake-up is not lost
\* to a Finish that was under way.
NoLostWakeup ==
  \A t \in Targets :
     row[t].requested > row[t].processed
       => row[t].due \/ row[t].backoff \/ Working(t)

\* changed, flush: a delivered change of a target that the view knows is
\* still queued for it, or the overflow flag stands for it, until the target
\* was notified; a failed transaction or a full queue drops nothing.
HintsAreKept ==
  \A p \in Processes : \A t \in owed[p] :
     \/ overflow[p] \/ t \in out[p]
     \/ pending[p] \cap ObjectsOf[t] # {}

\* From the delivery of a change to the row's next step nothing gets lost.
NoHintIsLost == HintsAreKept /\ NoLostWakeup /\ ProcessedIsApplied

\* refresh: a removal's dependency check rests on a collection that began
\* after the check: it shows everything that existed then.
DependenciesAreFresh ==
  [][\A w \in Lanes :
       lane[w].pc = "use" /\ KindOf[lane[w].on] = "removal"
         /\ lane'[w].pc = "finish" /\ lane'[w].ok
         => \A o \in ObjectsOf[lane[w].on] :
              lane'[w].data[o] >= lane[w].base[o]]_vars

\* What a lane concludes from a collection is as new as it takes it for.
ConclusionsAreCurrent == NotBehindWatch /\ DependenciesAreFresh

\* refresh: a caller with a fixed boundary is served although others keep
\* audits in flight.
DependencyCheckEnds ==
  \A w \in Lanes :
     lane[w].pc = "wait" /\ KindOf[lane[w].on] = "removal" ~> lane[w].pc # "wait"

\* auditLoop and the durable deadlines: with the Watch dead and every hint
\* lost, the rows still come to show the final state of their objects.
ChangesAreApplied ==
  \A t \in Targets :
     []<>(row[t].known => \A o \in ObjectsOf[t] : row[t].applied[o] = world[o])

\* Both promises of progress.
ObservationProgress == ChangesAreApplied /\ DependencyCheckEnds
=============================================================================
