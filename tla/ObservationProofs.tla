-------------------------- MODULE ObservationProofs --------------------------
(***************************************************************************)
(* The shared observation, proved for any number of objects, rows, lanes   *)
(* and processes, any size of the queues and any number of failures.       *)
(*                                                                         *)
(* Three comparisons protect a row: the sequence numbers of changes, the   *)
(* requested generation and the time of the last evidence.  Good says what *)
(* each of them proves about a collection, object by object, as soon as    *)
(* the object has been listed: they were all taken before.  GoodLane says  *)
(* that a lane which has concluded carries this over to the row, however   *)
(* long it takes to finish.                                                *)
(***************************************************************************)
EXTENDS Observation, TLAPS

-----------------------------------------------------------------------------
(***************************************************************************)
(* The invariant.                                                          *)
(***************************************************************************)
LaneType == [pc : {"idle", "wait", "use", "finish"}, on : Targets \cup {NoStep.on}, req : Nat,
             fresh : BOOLEAN, ok : BOOLEAN, data : States, cov : Nat, base : States]

ObservationTypeOK ==
  /\ world \in States
  /\ seen \in [Processes -> States]
  /\ changes \in [Processes -> SUBSET Objects]
  /\ pending \in [Processes -> SUBSET Objects]
  /\ overflow \in [Processes -> BOOLEAN]
  /\ out \in [Processes -> SUBSET Targets]
  /\ run \in [Processes -> Collection]
  /\ view \in [Processes -> Collection]
  /\ row \in [Targets -> Row]
  /\ lane \in [Lanes -> LaneType]
  /\ got \in [Lanes -> Collection]
  /\ owed \in [Processes -> SUBSET Targets]

\* What the collection v of process p shows of the objects it has listed: what
\* the Watch delivered unless it is marked (sequence numbers, epoch), what was
\* applied to a row before it began (collection time), what led to the
\* notifications it covers (generations), and all that existed when a lane
\* that waited for it was given its row.
Good(p, v) ==
  /\ \A t \in Targets : v.gen[t] <= row[t].requested
  /\ \A o \in Objects : v.data[o] <= world[o]
  /\ v.on => \A o \in Objects \ v.todo :
       /\ v.current /\ o \notin v.dirty => seen[p][o] <= v.data[o]
       /\ \A t \in v.after : row[t].applied[o] <= v.data[o]
       /\ \A t \in Targets : o \in ObjectsOf[t] /\ row[t].requested <= v.gen[t]
                               => row[t].noted[o] <= v.data[o]
       /\ \A w \in v.since : lane[w].base[o] <= v.data[o]

GoodCollections ==
  /\ \A p \in Processes : Good(p, run[p]) /\ Good(p, view[p]) /\ view[p].todo = {}
  /\ \A w \in Lanes : Good(ProcessOf[w], got[w]) /\ got[w].todo = {} /\ got[w].since = {}

\* A view only ever gains targets, so that who is owed a notification is known
\* to the next flush.
TargetsGrow ==
  \A p \in Processes :
    /\ view[p].targets \subseteq {t \in Targets : row[t].known}
    /\ run[p].targets \subseteq {t \in Targets : row[t].known}
    /\ run[p].on => view[p].targets \subseteq run[p].targets
    /\ owed[p] \subseteq view[p].targets

\* Nobody is ahead of the world.
GoodRow(t) ==
  /\ row[t].processed <= row[t].requested
  /\ \A o \in Objects : /\ row[t].applied[o] <= world[o] /\ row[t].noted[o] <= world[o]
                        /\ o \notin ObjectsOf[t] => row[t].applied[o] = 0

NobodyAhead ==
  /\ \A p \in Processes, o \in Objects : seen[p][o] <= world[o]
  /\ \A t \in Targets : GoodRow(t)
  /\ \A w \in Lanes, o \in Objects : lane[w].base[o] <= world[o]

\* A lane in a step has its row for itself.
Owns(w, t) ==
  /\ t \in Targets /\ row[t].due /\ lane[w].req <= row[t].requested
  /\ \A x \in Lanes : lane[x].pc # "idle" /\ lane[x].on = t => x = w

\* The base of a removal is what existed when the row was claimed.
HasBase(w, t) ==
  KindOf[t] = "removal" =>
    /\ lane[w].fresh
    /\ \A o \in Objects :
         /\ row[t].applied[o] <= lane[w].base[o]
         /\ lane[w].req = row[t].requested => row[t].noted[o] <= lane[w].base[o]

HasGot(w, t) ==
  lane[w].pc = "use" =>
    /\ got[w].on
    /\ KindOf[t] = "removal" => \A o \in Objects : lane[w].base[o] <= got[w].data[o]

\* What a lane concluded is at least as new as what the row shows, and shows
\* what led to the notifications it will count as processed.
HasConcluded(w, t) ==
  lane[w].pc = "finish" /\ lane[w].ok =>
    \A o \in Objects :
      /\ lane[w].data[o] <= world[o] /\ row[t].applied[o] <= lane[w].data[o]
      /\ o \notin ObjectsOf[t] => lane[w].data[o] = 0
      /\ o \in ObjectsOf[t] /\ row[t].requested <= lane[w].cov /\ lane[w].req = row[t].requested
           => row[t].noted[o] <= lane[w].data[o]

GoodStep(w, t) == Owns(w, t) /\ HasBase(w, t) /\ HasGot(w, t) /\ HasConcluded(w, t)

GoodLane(w) == lane[w].pc # "idle" => GoodStep(w, lane[w].on)

GoodLanes == \A w \in Lanes : GoodLane(w)

\* A row with an unprocessed notification is due even while it is worked on.
StillAwake ==
  \A t \in Targets :
    row[t].requested > row[t].processed => row[t].due \/ row[t].backoff

ObservationInv ==
  /\ ObservationTypeOK /\ GoodCollections /\ TargetsGrow /\ NobodyAhead /\ GoodLanes
  /\ StillAwake /\ HintsAreKept /\ ProcessedIsApplied


-----------------------------------------------------------------------------
(***************************************************************************)
(* What a collection shows stays true of it.                               *)
(***************************************************************************)
USE DEF watchVars

LEMMA StatesAreNat ==
  ASSUME NEW s \in States, NEW o \in Objects
  PROVE  s[o] \in Nat
  BY ObservationAssumption DEF States

LEMMA NothingType == Nothing \in States /\ \A o \in Objects : Nothing[o] = 0
  BY ObservationAssumption DEF States, Nothing

\* What a step may do around a collection without making it less good.
QuietFor(p, v) ==
  /\ \A o \in Objects : world[o] <= world'[o] /\ seen'[p][o] <= seen[p][o]
  /\ \A t \in Targets : /\ row[t].requested <= row'[t].requested
                        /\ row'[t].requested = row[t].requested => row'[t].noted = row[t].noted
  /\ \A t \in v.after : row'[t].applied = row[t].applied
  /\ \A w \in v.since : lane'[w].base = lane[w].base \/ lane'[w].base = Nothing

LEMMA QuietGood ==
  ASSUME ObservationTypeOK, ObservationTypeOK', NEW p \in Processes, NEW v \in Collection,
         Good(p, v), QuietFor(p, v)
  PROVE  Good(p, v)'
<1>1. \A t \in Targets : /\ row[t].requested \in Nat /\ row'[t].requested \in Nat
                         /\ row[t].applied \in States /\ row'[t].applied \in States
                         /\ row[t].noted \in States /\ row'[t].noted \in States
  BY DEF ObservationTypeOK, Row
<1>2. \A o \in Objects : /\ world[o] \in Nat /\ world'[o] \in Nat /\ seen[p][o] \in Nat
                         /\ seen'[p][o] \in Nat
  BY StatesAreNat DEF ObservationTypeOK
<1>3. /\ \A o \in Objects : v.data[o] \in Nat
      /\ v.gen \in [Targets -> Nat] /\ v.after \subseteq Targets /\ v.since \subseteq Lanes
  BY StatesAreNat DEF Collection
<1>4. \A w \in Lanes, o \in Objects : lane[w].base[o] \in Nat /\ lane'[w].base[o] \in Nat
  BY StatesAreNat DEF ObservationTypeOK, LaneType
<1>5. \A t \in Targets : v.gen[t] <= row'[t].requested
  BY <1>1, <1>3 DEF Good, QuietFor
<1>6. \A o \in Objects : v.data[o] <= world'[o]
  BY <1>2, <1>3 DEF Good, QuietFor
<1>7. ASSUME v.on, NEW o \in Objects \ v.todo
      PROVE  /\ v.current /\ o \notin v.dirty => seen'[p][o] <= v.data[o]
             /\ \A t \in v.after : row'[t].applied[o] <= v.data[o]
             /\ \A t \in Targets : o \in ObjectsOf[t] /\ row'[t].requested <= v.gen[t]
                                     => row'[t].noted[o] <= v.data[o]
             /\ \A w \in v.since : lane'[w].base[o] <= v.data[o]
  <2>1. v.current /\ o \notin v.dirty => seen'[p][o] <= v.data[o]
    BY <1>2, <1>3, <1>7 DEF Good, QuietFor
  <2>2. \A t \in v.after : row'[t].applied[o] <= v.data[o]
    BY <1>7 DEF Good, QuietFor
  <2>3. ASSUME NEW t \in Targets, o \in ObjectsOf[t], row'[t].requested <= v.gen[t]
        PROVE  row'[t].noted[o] <= v.data[o]
    <3>1. row'[t].requested = row[t].requested /\ row[t].requested <= v.gen[t]
      BY <1>1, <1>3, <2>3 DEF Good, QuietFor
    <3> QED BY <1>7, <2>3, <3>1 DEF Good, QuietFor
  <2>4. ASSUME NEW w \in v.since PROVE lane'[w].base[o] <= v.data[o]
    BY <1>3, <1>4, <1>7, NothingType DEF Good, QuietFor
  <2> QED BY <2>1, <2>2, <2>3, <2>4
<1> QED BY <1>5, <1>6, <1>7 DEF Good

\* A step that leaves every collection, and what collections are compared
\* with, alone.
Quiet ==
  /\ UNCHANGED <<run, view, got, seen>>
  /\ \A o \in Objects : world[o] <= world'[o]
  /\ \A t \in Targets : /\ row[t].requested <= row'[t].requested
                        /\ row'[t].requested = row[t].requested => row'[t].noted = row[t].noted
                        /\ row'[t].applied = row[t].applied
  /\ \A w \in Lanes : lane'[w].base = lane[w].base \/ lane'[w].base = Nothing

LEMMA QuietCollections ==
  ASSUME ObservationInv, ObservationTypeOK', Quiet
  PROVE  GoodCollections'
<1>1. \A p \in Processes, o \in Objects : seen[p][o] \in Nat
  BY StatesAreNat DEF ObservationInv, ObservationTypeOK
<1>2. ASSUME NEW p \in Processes, NEW v \in Collection, Good(p, v)
      PROVE  Good(p, v)'
  <2>1. QuietFor(p, v)
    BY <1>1 DEF Quiet, QuietFor, Collection
  <2> QED BY <1>2, <2>1, QuietGood DEF ObservationInv
<1>3. ASSUME NEW p \in Processes
      PROVE  Good(p, run[p])' /\ Good(p, view[p])' /\ view'[p].todo = {}
  <2>1. PICK r, v : r = run[p] /\ v = view[p]
    OBVIOUS
  <2>2. Good(p, r)' /\ Good(p, v)'
    BY <1>2, <2>1 DEF ObservationInv, ObservationTypeOK, GoodCollections
  <2> QED BY <2>1, <2>2 DEF Quiet, ObservationInv, GoodCollections
<1>4. ASSUME NEW w \in Lanes
      PROVE  Good(ProcessOf[w], got[w])' /\ got'[w].todo = {} /\ got'[w].since = {}
  <2>1. PICK g : g = got[w]
    OBVIOUS
  <2>2. Good(ProcessOf[w], g)'
    BY <1>2, <2>1 DEF ObservationInv, ObservationTypeOK, GoodCollections, Processes
  <2> QED BY <2>1, <2>2 DEF Quiet, ObservationInv, GoodCollections
<1> QED BY <1>3, <1>4 DEF GoodCollections

\* The first state.
LEMMA ObservationInit == Init => ObservationInv
<1> SUFFICES ASSUME Init PROVE ObservationInv
  OBVIOUS
<1>1. NoCollection \in Collection /\ NoRow \in Row
  BY NothingType DEF NoCollection, Collection, NoRow, Row
<1>2. NoStep \in LaneType
  BY NothingType DEF NoStep, LaneType
<1>3. ObservationTypeOK
  BY <1>1, <1>2, NothingType DEF Init, ObservationTypeOK
<1>4. \A p : Good(p, NoCollection)
  BY NothingType DEF Init, Good, NoCollection, NoRow
<1>5. GoodCollections /\ TargetsGrow
  BY <1>4 DEF Init, GoodCollections, NoCollection, TargetsGrow, Processes
<1>6. NobodyAhead /\ GoodLanes
  BY NothingType DEF Init, NobodyAhead, GoodRow, GoodLanes, GoodLane, NoRow, NoStep
<1>7. StillAwake /\ HintsAreKept /\ ProcessedIsApplied
  BY NothingType, ObservationAssumption DEF Init, StillAwake, HintsAreKept, ProcessedIsApplied, NoRow
<1> QED BY <1>3, <1>5, <1>6, <1>7 DEF ObservationInv


-----------------------------------------------------------------------------
(***************************************************************************)
(* Steps that leave the lanes and what the rows show alone.                *)
(***************************************************************************)
LEMMA RowFields ==
  ASSUME NEW r \in Row
  PROVE  /\ r.requested \in Nat /\ r.processed \in Nat /\ r.applied \in States
         /\ r.noted \in States
         /\ \A o \in Objects : r.applied[o] \in Nat /\ r.noted[o] \in Nat
<1>1. /\ r.requested \in Nat /\ r.processed \in Nat /\ r.applied \in States
      /\ r.noted \in States
  BY DEF Row
<1> QED BY <1>1, StatesAreNat

LEMMA LaneFields ==
  ASSUME NEW s \in LaneType
  PROVE  /\ s.req \in Nat /\ s.cov \in Nat /\ s.base \in States /\ s.data \in States
         /\ \A o \in Objects : s.base[o] \in Nat /\ s.data[o] \in Nat
<1>1. s.req \in Nat /\ s.cov \in Nat /\ s.base \in States /\ s.data \in States
  BY DEF LaneType
<1> QED BY <1>1, StatesAreNat

LEMMA CollectionFields ==
  ASSUME NEW v \in Collection
  PROVE  /\ v.data \in States /\ v.gen \in [Targets -> Nat]
         /\ \A o \in Objects : v.data[o] \in Nat
<1>1. v.data \in States /\ v.gen \in [Targets -> Nat]
  BY DEF Collection
<1> QED BY <1>1, StatesAreNat

\* What a lane may see change around it.
AroundLanes ==
  /\ \A o \in Objects : world[o] <= world'[o]
  /\ \A w \in Lanes : lane[w].pc = "use" /\ lane'[w].pc = "use" =>
                        got'[w].on = got[w].on /\ got'[w].data = got[w].data
  /\ \A t \in Targets : /\ row'[t].applied = row[t].applied
                        /\ row'[t].processed = row[t].processed
                        /\ row[t].due => row'[t].due
                        /\ \/ row'[t].requested = row[t].requested /\ row'[t].noted = row[t].noted
                           \/ row'[t].requested = row[t].requested + 1

LEMMA LanesUntouched ==
  ASSUME ObservationInv, ObservationTypeOK', AroundLanes, NEW w \in Lanes, lane'[w] = lane[w],
         lane[w].pc # "idle" =>
           \A x \in Lanes : lane'[x].pc # "idle" /\ lane'[x].on = lane[w].on =>
                              x = w \/ (lane[x].pc # "idle" /\ lane[x].on = lane[w].on)
  PROVE  GoodLane(w)'
<1> SUFFICES ASSUME lane[w].pc # "idle" PROVE GoodLane(w)'
  BY DEF GoodLane
<1>0. PICK t : t = lane[w].on
  OBVIOUS
<1>1. Owns(w, t) /\ HasBase(w, t) /\ HasGot(w, t) /\ HasConcluded(w, t)
  BY <1>0 DEF ObservationInv, GoodLanes, GoodLane, GoodStep
<1>2. t \in Targets
  BY <1>1 DEF Owns
<1>3. /\ row[t].requested \in Nat /\ row'[t].requested \in Nat /\ lane[w].req \in Nat
      /\ \A o \in Objects : world[o] \in Nat /\ world'[o] \in Nat /\ lane[w].data[o] \in Nat
  BY <1>2, RowFields, LaneFields, StatesAreNat DEF ObservationInv, ObservationTypeOK
<1>4. /\ row'[t].applied = row[t].applied
      /\ row[t].due => row'[t].due
      /\ \/ row'[t].requested = row[t].requested /\ row'[t].noted = row[t].noted
         \/ row'[t].requested = row[t].requested + 1
  BY <1>2 DEF AroundLanes
<1>5. /\ row[t].requested <= row'[t].requested /\ lane[w].req <= row'[t].requested
      /\ lane[w].req = row'[t].requested => row'[t].requested = row[t].requested
                                            /\ row'[t].noted = row[t].noted
  BY <1>1, <1>3, <1>4 DEF Owns
<1>6. \A o \in Objects : lane[w].data[o] <= world[o] => lane[w].data[o] <= world'[o]
  BY <1>3 DEF AroundLanes
<1>7. Owns(w, t)'
  BY <1>0, <1>1, <1>2, <1>4, <1>5 DEF Owns
<1>8. HasBase(w, t)'
  BY <1>1, <1>4, <1>5 DEF HasBase
<1>9. HasGot(w, t)'
  BY <1>1 DEF HasGot, AroundLanes
<1>10. HasConcluded(w, t)'
  BY <1>1, <1>4, <1>5, <1>6 DEF HasConcluded
<1> QED BY <1>0, <1>7, <1>8, <1>9, <1>10 DEF GoodLane, GoodStep


\* No lane moves: what is left to show is what the step is about.
LEMMA Calm ==
  ASSUME ObservationInv, ObservationTypeOK', AroundLanes, UNCHANGED lane,
         GoodCollections', TargetsGrow', HintsAreKept',
         \A p \in Processes, o \in Objects : seen'[p][o] <= world'[o],
         \A t \in Targets :
           /\ row[t].due \/ row[t].backoff => row'[t].due \/ row'[t].backoff
           /\ row'[t].requested = row[t].requested + 1 => row'[t].due \/ row'[t].backoff
           /\ \A o \in Objects : row'[t].noted[o] <= world'[o]
  PROVE  ObservationInv'
<1>1. \A t \in Targets :
        /\ row[t].requested \in Nat /\ row[t].processed \in Nat
        /\ row'[t].requested \in Nat /\ row'[t].processed \in Nat
        /\ \A o \in Objects : row[t].applied[o] \in Nat
  BY RowFields DEF ObservationInv, ObservationTypeOK
<1>2. \A o \in Objects : /\ world[o] \in Nat /\ world'[o] \in Nat /\ world[o] <= world'[o]
                         /\ \A w \in Lanes : lane[w].base[o] \in Nat
  BY LaneFields, StatesAreNat DEF ObservationInv, ObservationTypeOK, AroundLanes
<1>3. \A t \in Targets : GoodRow(t)'
  <2> SUFFICES ASSUME NEW t \in Targets PROVE GoodRow(t)'
    OBVIOUS
  <2>1. GoodRow(t)
    BY DEF ObservationInv, NobodyAhead
  <2>2. /\ row'[t].applied = row[t].applied /\ row'[t].processed = row[t].processed
        /\ row'[t].requested = row[t].requested \/ row'[t].requested = row[t].requested + 1
    BY DEF AroundLanes
  <2>3. row'[t].processed <= row'[t].requested
    BY <1>1, <2>1, <2>2 DEF GoodRow
  <2>4. \A o \in Objects : row'[t].applied[o] <= world'[o]
    BY <1>1, <1>2, <2>1, <2>2 DEF GoodRow
  <2> QED BY <2>1, <2>2, <2>3, <2>4 DEF GoodRow
<1>4. NobodyAhead'
  BY <1>2, <1>3 DEF ObservationInv, NobodyAhead
<1>5. GoodLanes'
  BY LanesUntouched DEF GoodLanes
<1>6. StillAwake'
  BY <1>1 DEF ObservationInv, StillAwake, AroundLanes
<1>7. ProcessedIsApplied'
  <2> SUFFICES ASSUME NEW t \in Targets, row'[t].processed = row'[t].requested,
                      NEW o \in ObjectsOf[t]
               PROVE  row'[t].applied[o] >= row'[t].noted[o]
    BY DEF ProcessedIsApplied
  <2>1. row'[t].requested = row[t].requested /\ row'[t].noted = row[t].noted
        /\ row[t].processed = row[t].requested /\ row'[t].applied = row[t].applied
    BY <1>1 DEF AroundLanes, ObservationInv, NobodyAhead, GoodRow
  <2> QED BY <2>1 DEF ObservationInv, ProcessedIsApplied
<1> QED BY <1>4, <1>5, <1>6, <1>7 DEF ObservationInv

\* Objects change, rows are accepted, deadlines pass.
LEMMA WorldKeeps ==
  ASSUME ObservationInv,
         \/ \E o \in Objects : Change(o)
         \/ \E t \in Targets : Register(t) \/ Deadline(t)
  PROVE  ObservationInv'
<1> USE DEF ObservationInv
<1>0. UNCHANGED <<seen, changes, pending, overflow, out, run, view, lane, got, owed>>
  BY DEF Change, Register, Deadline
<1>1. ASSUME NEW o \in Objects, Change(o) PROVE ObservationInv'
  <2>1. world[o] \in 0..MaxChanges /\ world[o] + 1 \in 0..MaxChanges
    BY <1>1, ObservationAssumption DEF Change, ObservationTypeOK, States
  <2>2. world' \in States /\ \A x \in Objects : world[x] <= world'[x]
    <3>1. \A x \in Objects : world[x] \in Nat
      BY StatesAreNat DEF ObservationTypeOK
    <3> QED BY <1>1, <2>1, <3>1 DEF Change, ObservationTypeOK, States
  <2>3. ObservationTypeOK'
    BY <1>0, <1>1, <2>2 DEF Change, ObservationTypeOK
  <2>4. \A p \in Processes, x \in Objects : seen'[p][x] <= world'[x]
    <3>1. \A p \in Processes, x \in Objects : seen[p][x] \in Nat /\ world[x] \in Nat
                                              /\ world'[x] \in Nat
      BY <2>2, StatesAreNat DEF ObservationTypeOK
    <3> QED BY <1>0, <2>2, <3>1 DEF NobodyAhead
  <2>5. \A t \in Targets, x \in Objects : row[t].noted[x] <= world'[x]
    <3>1. \A t \in Targets, x \in Objects : row[t].noted[x] \in Nat /\ world[x] \in Nat
                                            /\ world'[x] \in Nat
      BY <2>2, RowFields, StatesAreNat DEF ObservationTypeOK
    <3> QED BY <2>2, <3>1 DEF NobodyAhead, GoodRow
  <2>6. row' = row
    BY <1>1 DEF Change
  <2>7. AroundLanes
    BY <1>0, <2>2, <2>6 DEF AroundLanes
  <2>8. GoodCollections'
    <3>1. Quiet
      BY <1>0, <2>2, <2>6, RowFields DEF Quiet, ObservationTypeOK
    <3> QED BY <2>3, <3>1, QuietCollections
  <2>9. TargetsGrow' /\ HintsAreKept'
    BY <1>0, <2>6 DEF TargetsGrow, HintsAreKept
  <2> QED BY <1>0, <2>3, <2>4, <2>5, <2>6, <2>7, <2>8, <2>9, RowFields, Calm DEF ObservationTypeOK
<1>2. ASSUME NEW t \in Targets, Register(t) \/ Deadline(t) PROVE ObservationInv'
  <2>1. world' = world
    BY <1>2 DEF Register, Deadline
  <2>2. /\ [row[t] EXCEPT !.known = TRUE, !.due = TRUE] \in Row
        /\ [row[t] EXCEPT !.due = TRUE, !.backoff = FALSE] \in Row
    BY DEF ObservationTypeOK, Row
  <2>3. row' \in [Targets -> Row]
    BY <1>2, <2>2 DEF Register, Deadline, ObservationTypeOK
  <2>4. ObservationTypeOK'
    BY <1>0, <2>1, <2>3 DEF ObservationTypeOK
  <2>5. \A u \in Targets :
          /\ row'[u].applied = row[u].applied /\ row'[u].processed = row[u].processed
          /\ row'[u].requested = row[u].requested /\ row'[u].noted = row[u].noted
          /\ row[u].due => row'[u].due
          /\ row[u].known => row'[u].known
          /\ row[u].due \/ row[u].backoff => row'[u].due \/ row'[u].backoff
    <3>1. row[t] \in Row /\ \A u \in Targets : u # t => row'[u] = row[u]
      BY <1>2 DEF Register, Deadline, ObservationTypeOK
    <3>2. \/ row'[t] = [row[t] EXCEPT !.known = TRUE, !.due = TRUE]
          \/ row'[t] = [row[t] EXCEPT !.due = TRUE, !.backoff = FALSE]
      BY <1>2 DEF Register, Deadline, ObservationTypeOK
    <3>3. /\ row'[t].applied = row[t].applied /\ row'[t].processed = row[t].processed
          /\ row'[t].requested = row[t].requested /\ row'[t].noted = row[t].noted
      BY <3>1, <3>2 DEF Row
    <3>4. row'[t].due /\ (row[t].known => row'[t].known)
      BY <3>1, <3>2 DEF Row
    <3> QED BY <3>1, <3>3, <3>4
  <2>6. \A u \in Targets : row[u].requested \in Nat
    BY RowFields DEF ObservationTypeOK
  <2>7. \A o \in Objects : world[o] \in Nat
    BY StatesAreNat DEF ObservationTypeOK
  <2>8. AroundLanes
    BY <1>0, <2>1, <2>5, <2>7 DEF AroundLanes
  <2>9. GoodCollections'
    <3>1. Quiet
      BY <1>0, <2>1, <2>5, <2>6, <2>7 DEF Quiet
    <3> QED BY <2>4, <3>1, QuietCollections
  <2>10. TargetsGrow' /\ HintsAreKept'
    BY <1>0, <2>5 DEF TargetsGrow, HintsAreKept
  <2>11. /\ \A p \in Processes, o \in Objects : seen'[p][o] <= world'[o]
         /\ \A u \in Targets, o \in Objects : row'[u].noted[o] <= world'[o]
    BY <1>0, <2>1, <2>5 DEF NobodyAhead, GoodRow
  <2> QED BY <1>0, <2>4, <2>5, <2>6, <2>8, <2>9, <2>10, <2>11, Calm
<1> QED BY <1>1, <1>2


-----------------------------------------------------------------------------
(***************************************************************************)
(* The Watch and the hints.                                                *)
(***************************************************************************)
\* A flush, complete or broken off.
LEMMA FlushKeeps ==
  ASSUME ObservationInv, NEW p \in Processes, Flush(p) \/ NotifyFails(p)
  PROVE  ObservationInv'
<1> USE DEF ObservationInv
<1>0. UNCHANGED <<world, seen, changes, run, view, row, lane, got, owed>>
  BY DEF Flush, NotifyFails
<1>1. Hinted(p) \subseteq Targets
  BY DEF Hinted, About, ObservationTypeOK, Collection
<1>2. ObservationTypeOK'
  <2>1. /\ out' \in [Processes -> SUBSET Targets] /\ pending' \in [Processes -> SUBSET Objects]
        /\ overflow' \in [Processes -> BOOLEAN]
    <3>0. /\ out \in [Processes -> SUBSET Targets] /\ pending \in [Processes -> SUBSET Objects]
          /\ overflow \in [Processes -> BOOLEAN]
      BY DEF ObservationTypeOK
    <3>1. \/ out' = [out EXCEPT ![p] = Hinted(p)]
          \/ out' = [out EXCEPT ![p] = {}]
      BY DEF Flush, NotifyFails
    <3>2. \/ pending' = [pending EXCEPT ![p] = {}]
          \/ pending' = pending
      BY DEF Flush, NotifyFails
    <3>3. \/ overflow' = [overflow EXCEPT ![p] = FALSE]
          \/ overflow' = [overflow EXCEPT ![p] = TRUE]
      BY DEF Flush, NotifyFails
    <3>4. out' \in [Processes -> SUBSET Targets]
      BY <1>1, <3>0, <3>1
    <3>5. pending' \in [Processes -> SUBSET Objects]
      BY <3>0, <3>2
    <3>6. overflow' \in [Processes -> BOOLEAN]
      BY <3>0, <3>3
    <3> QED BY <3>4, <3>5, <3>6
  <2> QED BY <1>0, <2>1 DEF ObservationTypeOK
<1>3. HintsAreKept'
  <2>1. \A q \in Processes : q # p => /\ out'[q] = out[q] /\ overflow'[q] = overflow[q]
                                      /\ pending'[q] = pending[q]
    BY DEF Flush, NotifyFails, ObservationTypeOK
  <2>2. CASE Flush(p)
    <3>1. out'[p] = Hinted(p) /\ out[p] = {}
      BY <2>2 DEF Flush, ObservationTypeOK
    <3>2. \A t \in owed[p] : t \in Hinted(p)
      BY <3>1 DEF HintsAreKept, TargetsGrow, Hinted, About
    <3> QED BY <1>0, <2>1, <3>1, <3>2 DEF HintsAreKept
  <2>3. CASE NotifyFails(p)
    <3>1. overflow'[p] = TRUE
      BY <2>3 DEF NotifyFails, ObservationTypeOK
    <3> QED BY <1>0, <2>1, <3>1 DEF HintsAreKept
  <2> QED BY <2>2, <2>3
<1>4. TargetsGrow'
  BY <1>0 DEF TargetsGrow
<1>5. \A t \in Targets : row[t].requested \in Nat
  BY RowFields DEF ObservationTypeOK
<1>6. \A o \in Objects : world[o] \in Nat
  BY StatesAreNat DEF ObservationTypeOK
<1>7. AroundLanes /\ Quiet
  BY <1>0, <1>5, <1>6 DEF AroundLanes, Quiet
<1>8. GoodCollections'
  BY <1>2, <1>7, QuietCollections
<1> QED BY <1>0, <1>2, <1>3, <1>4, <1>5, <1>7, <1>8, Calm DEF NobodyAhead, GoodRow

\* A durable notification.
LEMMA NotifyKeeps ==
  ASSUME ObservationInv, NEW p \in Processes, NEW t \in Targets, Notify(p, t)
  PROVE  ObservationInv'
<1> USE DEF ObservationInv
<1>0. UNCHANGED <<world, seen, changes, pending, overflow, run, view, lane, got>>
  BY DEF Notify
<1>1. /\ row[t] \in Row /\ seen[p] \in States /\ row[t].noted \in States
      /\ row[t].requested \in Nat
      /\ \A o \in Objects : /\ row[t].noted[o] \in Nat /\ seen[p][o] \in Nat /\ world[o] \in Nat
                            /\ row[t].noted[o] <= world[o] /\ seen[p][o] <= world[o]
  BY RowFields, StatesAreNat DEF ObservationTypeOK, NobodyAhead, GoodRow
<1>2. PICK n : n = Later(row[t].noted, seen[p])
  OBVIOUS
<1>3. n \in States /\ \A o \in Objects : n[o] <= world[o]
  BY <1>1, <1>2 DEF Later, States
<1>4. PICK d : d \in BOOLEAN /\ (d <=> row[t].due \/ ~row[t].backoff)
  OBVIOUS
<1>5. row'[t] = [row[t] EXCEPT !.requested = row[t].requested + 1, !.due = d, !.noted = n]
  <2>1. row'[t] = [row[t] EXCEPT !.requested = row[t].requested + 1,
                                 !.due = row[t].due \/ ~row[t].backoff, !.noted = n]
    BY <1>2 DEF Notify, ObservationTypeOK
  <2>2. (row[t].due \/ ~row[t].backoff) = d
    BY <1>4
  <2> QED BY <2>1, <2>2
<1>6. /\ row'[t] \in Row /\ row'[t].requested = row[t].requested + 1 /\ row'[t].noted = n
      /\ row'[t].applied = row[t].applied /\ row'[t].processed = row[t].processed
      /\ row'[t].due = d /\ row'[t].known = row[t].known /\ row'[t].backoff = row[t].backoff
  <2>1. row[t].requested + 1 \in Nat
    BY <1>1
  <2>2. PICK m : m = row[t].requested + 1
    OBVIOUS
  <2>3. row'[t] = [row[t] EXCEPT !.requested = m, !.due = d, !.noted = n] /\ m \in Nat
    BY <1>5, <2>1, <2>2
  <2>4. row'[t] \in Row
    BY <1>1, <1>3, <1>4, <2>3 DEF Row
  <2>5. /\ row'[t].requested = m /\ row'[t].noted = n
        /\ row'[t].applied = row[t].applied /\ row'[t].processed = row[t].processed
        /\ row'[t].due = d /\ row'[t].known = row[t].known /\ row'[t].backoff = row[t].backoff
    BY <1>1, <2>3 DEF Row
  <2> QED BY <2>2, <2>4, <2>5
<1>7. \A u \in Targets : u # t => row'[u] = row[u]
  BY DEF Notify, ObservationTypeOK
<1>8. row' \in [Targets -> Row]
  BY <1>6 DEF Notify, ObservationTypeOK
<1>9. ObservationTypeOK'
  BY <1>0, <1>8 DEF Notify, ObservationTypeOK
<1>10. HintsAreKept' /\ TargetsGrow'
  <2>1. /\ \A q \in Processes : q # p => out'[q] = out[q] /\ owed'[q] = owed[q]
        /\ out'[p] = out[p] \ {t} /\ owed'[p] = owed[p] \ {t}
    BY DEF Notify, ObservationTypeOK
  <2>2. HintsAreKept'
    BY <1>0, <2>1 DEF HintsAreKept
  <2>3. \A u \in Targets : row'[u].known = row[u].known
    BY <1>6, <1>7
  <2>4. TargetsGrow'
    BY <1>0, <2>1, <2>3 DEF TargetsGrow
  <2> QED BY <2>2, <2>4
<1>11. \A u \in Targets :
         /\ row[u].requested \in Nat /\ row'[u].applied = row[u].applied
         /\ row'[u].processed = row[u].processed
         /\ row[u].due => row'[u].due
         /\ row[u].due \/ row[u].backoff => row'[u].due \/ row'[u].backoff
         /\ \/ row'[u].requested = row[u].requested /\ row'[u].noted = row[u].noted
            \/ row'[u].requested = row[u].requested + 1 /\ (row'[u].due \/ row'[u].backoff)
  <2>1. \A u \in Targets : row[u].requested \in Nat
    BY RowFields DEF ObservationTypeOK
  <2>2. /\ row[t].due => row'[t].due
        /\ row'[t].due \/ row'[t].backoff
    BY <1>4, <1>6
  <2> QED BY <1>6, <1>7, <2>1, <2>2
<1>12. \A o \in Objects : world[o] \in Nat
  BY <1>1
<1>13. AroundLanes /\ Quiet
  BY <1>0, <1>11, <1>12 DEF AroundLanes, Quiet
<1>14. GoodCollections'
  BY <1>9, <1>13, QuietCollections
<1>15. /\ \A q \in Processes, o \in Objects : seen'[q][o] <= world'[o]
       /\ \A u \in Targets, o \in Objects : row'[u].noted[o] <= world'[o]
  BY <1>0, <1>3, <1>6, <1>7 DEF NobodyAhead, GoodRow
<1> QED BY <1>0, <1>9, <1>10, <1>11, <1>13, <1>14, <1>15, Calm


\* u is the collection v of process p, marked for what was delivered to p.
Marked(p, v, u) ==
  /\ u \in Collection
  /\ u.on = v.on /\ u.todo = v.todo /\ u.data = v.data /\ u.targets = v.targets
  /\ u.gen = v.gen /\ u.since = v.since /\ u.after = v.after
  /\ \A o \in Objects : u.on /\ u.current /\ o \notin u.dirty =>
       v.current /\ o \notin v.dirty /\ seen'[p][o] = seen[p][o]

LEMMA MarkedGood ==
  ASSUME NEW p \in Processes, NEW v, NEW u, Good(p, v), Marked(p, v, u),
         UNCHANGED <<world, row, lane>>
  PROVE  Good(p, u)'
  BY DEF Good, Marked

\* The handler of the Watch.
LEMMA InvalidMarks ==
  ASSUME NEW p, NEW v \in Collection
  PROVE  Marked(p, v, Invalid(v))
  BY DEF Marked, Invalid, Collection

LEMMA DirtyMarks ==
  ASSUME NEW p \in Processes, NEW v \in Collection, NEW x \in Objects,
         \A o \in Objects : o # x => seen'[p][o] = seen[p][o]
  PROVE  Marked(p, v, Dirty(v, x))
<1>1. CASE v.current
  <2>1. PICK u : u = [v EXCEPT !.dirty = v.dirty \cup {x}]
    OBVIOUS
  <2>2. u \in Collection
    BY <2>1 DEF Collection
  <2>3. /\ u.on = v.on /\ u.todo = v.todo /\ u.data = v.data /\ u.targets = v.targets
        /\ u.gen = v.gen /\ u.since = v.since /\ u.after = v.after /\ u.current = v.current
        /\ u.dirty = v.dirty \cup {x}
    BY <2>1 DEF Collection
  <2>4. Dirty(v, x) = u
    BY <1>1, <2>1 DEF Dirty
  <2> QED BY <1>1, <2>2, <2>3, <2>4 DEF Marked
<1>2. CASE ~v.current
  BY <1>2 DEF Dirty, Marked
<1> QED BY <1>1, <1>2

AllMarked ==
  /\ \A q \in Processes : Marked(q, run[q], run'[q]) /\ Marked(q, view[q], view'[q])
  /\ \A w \in Lanes : Marked(ProcessOf[w], got[w], got'[w])
  /\ run' \in [Processes -> Collection] /\ view' \in [Processes -> Collection]
  /\ got' \in [Lanes -> Collection]

\* A recorded change, or a new epoch, reaches every collection of the process.
LEMMA ChangeMarks ==
  ASSUME ObservationTypeOK, NEW p \in Processes, NEW x \in Objects, Changed(p, x)
  PROVE  AllMarked
<1>1. /\ \A q \in Processes : q # p => seen'[q] = seen[q]
      /\ \A o \in Objects : o # x => seen'[p][o] = seen[p][o]
  BY DEF Changed, ObservationTypeOK, States
<1>2. \A q \in Processes, v \in Collection : q # p => Marked(q, v, v)
  BY <1>1 DEF Marked
<1>3. ASSUME NEW v \in Collection
      PROVE  Marked(p, v, IF v.on THEN Recorded(p, v, x) ELSE v)
  <2>1. ~v.on => Marked(p, v, v)
    BY DEF Marked
  <2> QED BY <1>1, <2>1, InvalidMarks, DirtyMarks DEF Recorded
<1>4. /\ run'  = [run  EXCEPT ![p] = IF run[p].on THEN Recorded(p, run[p], x) ELSE run[p]]
      /\ view' = [view EXCEPT ![p] = IF view[p].on THEN Recorded(p, view[p], x) ELSE view[p]]
      /\ got'  = [w \in Lanes |->
                    IF ProcessOf[w] = p
                      THEN (IF got[w].on THEN Recorded(p, got[w], x) ELSE got[w])
                      ELSE got[w]]
  BY DEF Changed, Everywhere
<1>5. \A q \in Processes : Marked(q, run[q], run'[q]) /\ Marked(q, view[q], view'[q])
  BY <1>2, <1>3, <1>4 DEF ObservationTypeOK
<1>6. \A w \in Lanes : Marked(ProcessOf[w], got[w], got'[w])
  BY <1>2, <1>3, <1>4 DEF ObservationTypeOK, Processes
<1>7. /\ \A q \in Processes : run'[q] \in Collection /\ view'[q] \in Collection
      /\ \A w \in Lanes : got'[w] \in Collection
  BY <1>5, <1>6 DEF Marked
<1> QED BY <1>4, <1>5, <1>6, <1>7 DEF AllMarked, ObservationTypeOK

LEMMA BoundaryMarks ==
  ASSUME ObservationTypeOK, NEW p \in Processes, SourceBoundary(p)
  PROVE  AllMarked
<1>1. \A q, v : v \in Collection => Marked(q, v, v)
  BY DEF SourceBoundary, Marked
<1>2. \A v \in Collection : Marked(p, v, IF v.on THEN Invalid(v) ELSE v)
  BY <1>1, InvalidMarks
<1>3. /\ run'  = [run  EXCEPT ![p] = IF run[p].on THEN Invalid(run[p]) ELSE run[p]]
      /\ view' = [view EXCEPT ![p] = IF view[p].on THEN Invalid(view[p]) ELSE view[p]]
      /\ got'  = [w \in Lanes |->
                    IF ProcessOf[w] = p THEN (IF got[w].on THEN Invalid(got[w]) ELSE got[w])
                                        ELSE got[w]]
  BY DEF SourceBoundary, Everywhere
<1>4. \A q \in Processes : Marked(q, run[q], run'[q]) /\ Marked(q, view[q], view'[q])
  BY <1>1, <1>2, <1>3 DEF ObservationTypeOK
<1>5. \A w \in Lanes : Marked(ProcessOf[w], got[w], got'[w])
  BY <1>1, <1>2, <1>3 DEF ObservationTypeOK
<1>6. /\ \A q \in Processes : run'[q] \in Collection /\ view'[q] \in Collection
      /\ \A w \in Lanes : got'[w] \in Collection
  BY <1>4, <1>5 DEF Marked
<1> QED BY <1>3, <1>4, <1>5, <1>6 DEF AllMarked, ObservationTypeOK

LEMMA MarkedCollections ==
  ASSUME ObservationInv, AllMarked, UNCHANGED <<world, row, lane>>
  PROVE  GoodCollections'
<1> USE DEF ObservationInv
<1>1. ASSUME NEW p \in Processes
      PROVE  Good(p, run[p])' /\ Good(p, view[p])' /\ view'[p].todo = {}
  <2>1. PICK r, v : r = run'[p] /\ v = view'[p]
    OBVIOUS
  <2>2. Good(p, r)' /\ Good(p, v)'
    BY <2>1, MarkedGood DEF GoodCollections, AllMarked
  <2> QED BY <2>1, <2>2 DEF GoodCollections, AllMarked, Marked
<1>2. ASSUME NEW w \in Lanes
      PROVE  Good(ProcessOf[w], got[w])' /\ got'[w].todo = {} /\ got'[w].since = {}
  <2>1. PICK g : g = got'[w]
    OBVIOUS
  <2>2. Good(ProcessOf[w], g)'
    BY <2>1, MarkedGood DEF GoodCollections, AllMarked, Processes
  <2> QED BY <2>1, <2>2 DEF GoodCollections, AllMarked, Marked
<1> QED BY <1>1, <1>2 DEF GoodCollections

LEMMA WatchKeeps ==
  ASSUME ObservationInv, NEW p \in Processes,
         SourceBoundary(p) \/ \E o \in Objects : Changed(p, o)
  PROVE  ObservationInv'
<1> USE DEF ObservationInv
<1>0. UNCHANGED <<world, out, row, lane>>
  BY DEF SourceBoundary, Changed
<1>1. AllMarked
  BY BoundaryMarks, ChangeMarks
<1>2. GoodCollections'
  BY <1>0, <1>1, MarkedCollections
<1>3. \A t \in Targets : row[t].requested \in Nat
  BY RowFields DEF ObservationTypeOK
<1>4. \A o \in Objects : world[o] \in Nat
  BY StatesAreNat DEF ObservationTypeOK
<1>5. AroundLanes
  BY <1>0, <1>1, <1>3, <1>4 DEF AroundLanes, AllMarked, Marked
<1>6. CASE SourceBoundary(p)
  <2>1. ObservationTypeOK'
    BY <1>0, <1>1, <1>6 DEF SourceBoundary, AllMarked, ObservationTypeOK
  <2>2. HintsAreKept'
    BY <1>0, <1>6 DEF SourceBoundary, HintsAreKept, ObservationTypeOK
  <2>3. TargetsGrow'
    BY <1>0, <1>1, <1>6 DEF SourceBoundary, TargetsGrow, AllMarked, Marked
  <2>4. UNCHANGED seen
    BY <1>6 DEF SourceBoundary
  <2> QED BY <1>0, <1>2, <1>3, <1>5, <2>1, <2>2, <2>3, <2>4, Calm DEF NobodyAhead, GoodRow
<1>7. ASSUME NEW x \in Objects, Changed(p, x) PROVE ObservationInv'
  <2>1. /\ seen' = [seen EXCEPT ![p][x] = world[x]]
        /\ owed' = [owed EXCEPT ![p] = @ \cup About(view[p], {x})]
    BY <1>7 DEF Changed
  <2>2. ObservationTypeOK'
    <3>1. seen' \in [Processes -> States]
      BY <2>1 DEF ObservationTypeOK, States
    <3>2. owed' \in [Processes -> SUBSET Targets]
      BY <2>1 DEF ObservationTypeOK, About, Collection
    <3>3. /\ changes' \in [Processes -> SUBSET Objects] /\ pending' \in [Processes -> SUBSET Objects]
          /\ overflow' \in [Processes -> BOOLEAN]
      BY <1>7 DEF Changed, ObservationTypeOK
    <3> QED BY <1>0, <1>1, <3>1, <3>2, <3>3 DEF AllMarked, ObservationTypeOK
  <2>3. HintsAreKept'
    <3>1. \A q \in Processes : q # p => /\ owed'[q] = owed[q] /\ overflow'[q] = overflow[q]
                                        /\ pending'[q] = pending[q]
      BY <1>7 DEF Changed, ObservationTypeOK
    <3>2. /\ overflow[p] => overflow'[p]
          /\ pending[p] \subseteq pending'[p]
          /\ x \in pending'[p] \/ overflow'[p]
      BY <1>7 DEF Changed, ObservationTypeOK
    <3>3. owed'[p] = owed[p] \cup About(view[p], {x})
      BY <2>1 DEF ObservationTypeOK
    <3>4. \A t \in About(view[p], {x}) : x \in ObjectsOf[t]
      BY DEF About
    <3>5. out' = out
      BY <1>0
    <3>6. ASSUME NEW q \in Processes, q # p, NEW t \in owed'[q]
          PROVE  overflow'[q] \/ t \in out'[q] \/ pending'[q] \cap ObjectsOf[t] # {}
      BY <3>1, <3>5, <3>6 DEF HintsAreKept
    <3>7. ASSUME NEW t \in owed'[p]
          PROVE  overflow'[p] \/ t \in out'[p] \/ pending'[p] \cap ObjectsOf[t] # {}
      <4>1. CASE t \in owed[p]
        BY <3>2, <3>5, <4>1 DEF HintsAreKept
      <4>2. CASE t \in About(view[p], {x})
        BY <3>2, <3>4, <4>2
      <4> QED BY <3>3, <3>7, <4>1, <4>2
    <3> QED BY <3>6, <3>7 DEF HintsAreKept
  <2>4. TargetsGrow'
    <3>1. \A q \in Processes : owed'[q] \subseteq owed[q] \cup view[q].targets
      BY <2>1 DEF ObservationTypeOK, About
    <3> QED BY <1>0, <1>1, <3>1 DEF TargetsGrow, AllMarked, Marked
  <2>5. \A q \in Processes, o \in Objects : seen'[q][o] <= world'[o]
    BY <1>0, <1>4, <2>1 DEF ObservationTypeOK, NobodyAhead, States
  <2> QED BY <1>0, <1>2, <1>3, <1>5, <2>2, <2>3, <2>4, <2>5, Calm DEF NobodyAhead, GoodRow
<1> QED BY <1>6, <1>7


-----------------------------------------------------------------------------
(***************************************************************************)
(* Collecting.                                                             *)
(***************************************************************************)
\* u is v with fewer promises.
Narrower(v, u) ==
  /\ u.on = v.on /\ u.todo = v.todo /\ u.data = v.data /\ u.gen = v.gen
  /\ u.current = v.current /\ u.dirty = v.dirty /\ u.targets = v.targets
  /\ u.since \subseteq v.since /\ u.after \subseteq v.after

LEMMA NarrowerGood ==
  ASSUME NEW p, NEW v, NEW u, Good(p, v), Narrower(v, u)
  PROVE  Good(p, u)
  BY DEF Good, Narrower

LEMMA NoCollectionGood ==
  ASSUME ObservationTypeOK
  PROVE  /\ NoCollection \in Collection
         /\ \A p : Good(p, NoCollection)
<1>1. NoCollection \in Collection
  BY NothingType DEF NoCollection, Collection
<1>2. \A t \in Targets : row[t].requested \in Nat
  BY RowFields DEF ObservationTypeOK
<1>3. \A o \in Objects : world[o] \in Nat
  BY StatesAreNat DEF ObservationTypeOK
<1> QED BY <1>1, <1>2, <1>3, NothingType DEF Good, NoCollection

\* Nothing a collection is compared with changes.
LEMMA StillGood ==
  ASSUME NEW p, NEW v, Good(p, v), UNCHANGED <<world, seen, row, lane>>
  PROVE  Good(p, v)'
  BY DEF Good

LEMMA CollectionsStillGood ==
  ASSUME UNCHANGED <<world, seen, row, lane, got>>, GoodCollections,
         \A p \in Processes : Good(p, run'[p]) /\ Good(p, view'[p]) /\ view'[p].todo = {}
  PROVE  GoodCollections'
<1>1. ASSUME NEW p \in Processes
      PROVE  Good(p, run[p])' /\ Good(p, view[p])' /\ view'[p].todo = {}
  <2>1. PICK r, v : r = run'[p] /\ v = view'[p]
    OBVIOUS
  <2>2. Good(p, r)' /\ Good(p, v)'
    BY <2>1, StillGood
  <2> QED BY <2>1, <2>2
<1>2. ASSUME NEW w \in Lanes
      PROVE  Good(ProcessOf[w], got[w])' /\ got'[w].todo = {} /\ got'[w].since = {}
  <2>1. PICK g : g = got[w]
    OBVIOUS
  <2>2. Good(ProcessOf[w], g)'
    BY <2>1, StillGood DEF GoodCollections
  <2> QED BY <2>1, <2>2 DEF GoodCollections
<1> QED BY <1>1, <1>2 DEF GoodCollections

\* A collection begins, lists an object, is complete.
LEMMA CollectKeeps ==
  ASSUME ObservationInv, NEW p \in Processes,
         Collect(p) \/ Collected(p) \/ \E o \in Objects : ListAll(p, o)
  PROVE  ObservationInv'
<1> USE DEF ObservationInv
<1>0. UNCHANGED <<world, seen, changes, pending, overflow, out, row, lane, got, owed>>
  BY DEF Collect, Collected, ListAll
<1>1. /\ \A t \in Targets : row[t].requested \in Nat
      /\ \A o \in Objects : world[o] \in Nat
      /\ run[p] \in Collection /\ view[p] \in Collection
  BY RowFields, StatesAreNat DEF ObservationTypeOK
<1>2. AroundLanes
  BY <1>0, <1>1 DEF AroundLanes
<1>3. HintsAreKept'
  BY <1>0 DEF HintsAreKept
<1>4. ASSUME run' \in [Processes -> Collection], view' \in [Processes -> Collection],
             \A q \in Processes : q # p => run'[q] = run[q] /\ view'[q] = view[q],
             Good(p, run'[p]), Good(p, view'[p]), view'[p].todo = {}, TargetsGrow'
      PROVE  ObservationInv'
  <2>1. ObservationTypeOK'
    BY <1>0, <1>4 DEF ObservationTypeOK
  <2>2. GoodCollections'
    BY <1>0, <1>4, CollectionsStillGood DEF GoodCollections
  <2> QED BY <1>0, <1>1, <1>2, <1>3, <1>4, <2>1, <2>2, Calm DEF NobodyAhead, GoodRow
<1>5. CASE Collect(p)
  <2>1. PICK c : c = [on |-> TRUE, todo |-> Objects, data |-> Nothing,
                      targets |-> {t \in Targets : row[t].known},
                      gen |-> [t \in Targets |-> row[t].requested],
                      dirty |-> {}, current |-> TRUE,
                      since |-> {w \in Lanes : ProcessOf[w] = p /\ Waits(w)},
                      after |-> Targets]
    OBVIOUS
  <2>2. run' = [run EXCEPT ![p] = c] /\ view' = view
    BY <1>5, <2>1 DEF Collect
  <2>3. c \in Collection
    BY <1>1, <2>1, NothingType DEF Collection
  <2>4. Good(p, c)
    BY <1>1, <2>1, NothingType DEF Good
  <2>5. run'[p] = c /\ \A q \in Processes : q # p => run'[q] = run[q]
    BY <2>2 DEF ObservationTypeOK
  <2>6. TargetsGrow'
    BY <1>0, <2>1, <2>2, <2>5 DEF TargetsGrow
  <2> QED
    BY <1>4, <2>2, <2>3, <2>4, <2>5, <2>6 DEF ObservationTypeOK, GoodCollections
<1>6. ASSUME NEW o \in Objects, ListAll(p, o) PROVE ObservationInv'
  <2>1. PICK c : c = [run[p] EXCEPT !.data[o] = world[o], !.todo = @ \ {o}]
    OBVIOUS
  <2>2. run' = [run EXCEPT ![p] = c] /\ view' = view
    BY <1>6, <2>1 DEF ListAll
  <2>3. PICK d : d = [run[p].data EXCEPT ![o] = world[o]]
    OBVIOUS
  <2>4. d \in States /\ d[o] = world[o] /\ \A x \in Objects : x # o => d[x] = run[p].data[x]
    BY <1>1, <2>3, CollectionFields DEF States, ObservationTypeOK
  <2>5. c = [run[p] EXCEPT !.data = d, !.todo = run[p].todo \ {o}]
    BY <1>1, <2>1, <2>3 DEF Collection
  <2>6. c \in Collection
    BY <1>1, <2>4, <2>5 DEF Collection
  <2>7. /\ c.on = run[p].on /\ c.data = d /\ c.todo = run[p].todo \ {o} /\ c.gen = run[p].gen
        /\ c.current = run[p].current /\ c.dirty = run[p].dirty /\ c.targets = run[p].targets
        /\ c.since = run[p].since /\ c.after = run[p].after
        /\ c.after \subseteq Targets /\ c.since \subseteq Lanes
    BY <1>1, <2>5 DEF Collection
  <2>8. Good(p, c)
    <3>1. Good(p, run[p])
      BY DEF GoodCollections
    <3>2. \A x \in Objects : c.data[x] <= world[x]
      BY <1>1, <2>4, <2>7, <3>1 DEF Good
    <3>3. /\ seen[p][o] <= c.data[o]
          /\ \A t \in Targets : row[t].applied[o] <= c.data[o] /\ row[t].noted[o] <= c.data[o]
          /\ \A w \in Lanes : lane[w].base[o] <= c.data[o]
      BY <2>4, <2>7 DEF NobodyAhead, GoodRow
    <3>4. \A t \in Targets : c.gen[t] <= row[t].requested
      BY <2>7, <3>1 DEF Good
    <3>5. ASSUME c.on, NEW x \in Objects \ c.todo
          PROVE  /\ c.current /\ x \notin c.dirty => seen[p][x] <= c.data[x]
                 /\ \A t \in c.after : row[t].applied[x] <= c.data[x]
                 /\ \A t \in Targets : x \in ObjectsOf[t] /\ row[t].requested <= c.gen[t]
                                         => row[t].noted[x] <= c.data[x]
                 /\ \A w \in c.since : lane[w].base[x] <= c.data[x]
      <4>1. CASE x = o
        BY <2>7, <3>3, <4>1
      <4>2. CASE x # o
        BY <2>4, <2>7, <3>1, <3>5, <4>2 DEF Good
      <4> QED BY <4>1, <4>2
    <3> QED BY <3>2, <3>4, <3>5 DEF Good
  <2>9. run'[p] = c /\ \A q \in Processes : q # p => run'[q] = run[q]
    BY <2>2 DEF ObservationTypeOK
  <2>10. TargetsGrow'
    BY <1>0, <2>2, <2>7, <2>9 DEF TargetsGrow
  <2> QED
    BY <1>4, <2>2, <2>6, <2>8, <2>9, <2>10 DEF ObservationTypeOK, GoodCollections
<1>7. CASE Collected(p)
  <2>1. view' = [view EXCEPT ![p] = run[p]] /\ run' = [run EXCEPT ![p] = NoCollection]
    BY <1>7 DEF Collected
  <2>2. run[p].todo = {} /\ run[p].on
    BY <1>7 DEF Collected
  <2>3. /\ run'[p] = NoCollection /\ view'[p] = run[p]
        /\ \A q \in Processes : q # p => run'[q] = run[q] /\ view'[q] = view[q]
    BY <2>1 DEF ObservationTypeOK
  <2>4. TargetsGrow'
    BY <1>0, <2>2, <2>3 DEF TargetsGrow, NoCollection
  <2> QED
    BY <1>1, <1>4, <2>1, <2>2, <2>3, <2>4, NoCollectionGood
    DEF ObservationTypeOK, GoodCollections
<1> QED BY <1>5, <1>6, <1>7

-----------------------------------------------------------------------------
(***************************************************************************)
(* The steps of the lanes.                                                 *)
(***************************************************************************)
LEMMA CollectionsKept ==
  ASSUME ObservationTypeOK, ObservationTypeOK',
         \A p \in Processes : /\ Good(p, run'[p]) /\ QuietFor(p, run'[p])
                              /\ Good(p, view'[p]) /\ QuietFor(p, view'[p])
                              /\ view'[p].todo = {},
         \A w \in Lanes : /\ Good(ProcessOf[w], got'[w]) /\ QuietFor(ProcessOf[w], got'[w])
                          /\ got'[w].todo = {} /\ got'[w].since = {}
  PROVE  GoodCollections'
<1>1. ASSUME NEW p \in Processes
      PROVE  Good(p, run[p])' /\ Good(p, view[p])' /\ view'[p].todo = {}
  <2>1. PICK r, v : r = run'[p] /\ v = view'[p]
    OBVIOUS
  <2>2. r \in Collection /\ v \in Collection
    BY <2>1 DEF ObservationTypeOK
  <2>3. Good(p, r)' /\ Good(p, v)'
    BY <2>1, <2>2, QuietGood
  <2> QED BY <2>1, <2>3
<1>2. ASSUME NEW w \in Lanes
      PROVE  Good(ProcessOf[w], got[w])' /\ got'[w].todo = {} /\ got'[w].since = {}
  <2>1. PICK g, p : g = got'[w] /\ p = ProcessOf[w]
    OBVIOUS
  <2>2. g \in Collection /\ p \in Processes
    BY <2>1 DEF ObservationTypeOK, Processes
  <2>3. Good(p, g)'
    BY <2>1, <2>2, QuietGood
  <2> QED BY <2>1, <2>3
<1> QED BY <1>1, <1>2 DEF GoodCollections

\* Nothing a collection is compared with changes but a boundary that it does
\* not promise anything about.
LEMMA LaneQuiet ==
  ASSUME ObservationTypeOK, UNCHANGED <<world, seen, row>>, NEW p \in Processes,
         NEW v \in Collection,
         \A w \in v.since : lane'[w].base = lane[w].base \/ lane'[w].base = Nothing
  PROVE  QuietFor(p, v)
<1>1. \A t \in Targets : row[t].requested \in Nat
  BY RowFields DEF ObservationTypeOK
<1>2. \A o \in Objects : world[o] \in Nat /\ seen[p][o] \in Nat
  BY StatesAreNat DEF ObservationTypeOK
<1> QED BY <1>1, <1>2 DEF QuietFor, Collection

\* Whoever enters a step enters it on a row nobody works on.
Newcomers ==
  \A x \in Lanes : lane'[x].pc # "idle" =>
    \/ lane[x].pc # "idle" /\ lane'[x].on = lane[x].on
    \/ ~Working(lane'[x].on)

\* Lanes move, rows and hints stay: what is left to show is about the lanes
\* that moved.
LEMMA LanesMove ==
  ASSUME ObservationInv, ObservationTypeOK', UNCHANGED <<world, row>>,
         GoodCollections', TargetsGrow', HintsAreKept', Newcomers,
         \A p \in Processes, o \in Objects : seen'[p][o] <= world[o],
         \A w \in Lanes :
           \/ lane'[w] = lane[w] /\ got'[w] = got[w]
           \/ /\ lane'[w].pc = "use" => lane[w].pc # "use"
              /\ GoodLane(w)'
              /\ \A o \in Objects : lane'[w].base[o] <= world[o]
  PROVE  ObservationInv'
<1> USE DEF ObservationInv
<1>1. /\ \A t \in Targets : row[t].requested \in Nat
      /\ \A o \in Objects : world[o] \in Nat
  BY RowFields, StatesAreNat DEF ObservationTypeOK
<1>2. AroundLanes
  BY <1>1 DEF AroundLanes
<1>3. ASSUME NEW w \in Lanes, lane'[w] = lane[w] PROVE GoodLane(w)'
  <2>1. lane[w].pc # "idle" =>
          \A x \in Lanes : lane'[x].pc # "idle" /\ lane'[x].on = lane[w].on =>
                             x = w \/ (lane[x].pc # "idle" /\ lane[x].on = lane[w].on)
    BY DEF Newcomers, Working
  <2> QED BY <1>2, <1>3, <2>1, LanesUntouched
<1>4. GoodLanes'
  BY <1>3 DEF GoodLanes
<1>5. NobodyAhead'
  BY DEF NobodyAhead, GoodRow
<1>6. StillAwake' /\ ProcessedIsApplied'
  BY DEF StillAwake, ProcessedIsApplied
<1> QED BY <1>4, <1>5, <1>6

\* One lane goes on with its step.
LEMMA OneMoves ==
  ASSUME ObservationInv, ObservationTypeOK', NEW w \in Lanes, NEW t,
         t = lane[w].on, lane[w].pc # "idle",
         UNCHANGED <<world, seen, pending, overflow, out, row, owed>>,
         \A x \in Lanes : x # w => lane'[x] = lane[x] /\ got'[x] = got[x],
         lane'[w].pc \notin {"idle", lane[w].pc}, lane'[w].on = t,
         lane'[w].req = lane[w].req, lane'[w].base = lane[w].base,
         lane[w].fresh => lane'[w].fresh,
         HasGot(w, t)', HasConcluded(w, t)',
         \A p \in Processes : Narrower(run[p], run'[p]) /\ Narrower(view[p], view'[p]),
         Good(ProcessOf[w], got'[w]), got'[w].todo = {}, got'[w].since = {}
  PROVE  ObservationInv'
<1> USE DEF ObservationInv
<1>1. \A x \in Lanes : lane'[x].base = lane[x].base /\ ProcessOf[x] \in Processes
  BY DEF Processes
<1>2. \A p \in Processes : /\ run'[p] \in Collection /\ view'[p] \in Collection
                           /\ Good(p, run'[p]) /\ Good(p, view'[p]) /\ view'[p].todo = {}
  <2> SUFFICES ASSUME NEW p \in Processes
               PROVE  /\ run'[p] \in Collection /\ view'[p] \in Collection
                      /\ Good(p, run'[p]) /\ Good(p, view'[p]) /\ view'[p].todo = {}
    OBVIOUS
  <2>1. Good(p, run'[p]) /\ Good(p, view'[p])
    BY NarrowerGood DEF GoodCollections
  <2>2. run'[p] \in Collection /\ view'[p] \in Collection
    BY DEF ObservationTypeOK
  <2>3. view'[p].todo = {}
    BY DEF GoodCollections, Narrower
  <2> QED BY <2>1, <2>2, <2>3
<1>3. \A p \in Processes : QuietFor(p, run'[p]) /\ QuietFor(p, view'[p])
  BY <1>1, <1>2, LaneQuiet DEF Collection
<1>4. \A x \in Lanes : got'[x] \in Collection
  BY DEF ObservationTypeOK
<1>5. \A x \in Lanes : QuietFor(ProcessOf[x], got'[x])
  BY <1>1, <1>4, LaneQuiet DEF Collection
<1>6. \A x \in Lanes : Good(ProcessOf[x], got'[x]) /\ got'[x].todo = {} /\ got'[x].since = {}
  BY DEF GoodCollections
<1>7. GoodCollections'
  BY <1>2, <1>3, <1>5, <1>6, CollectionsKept
<1>8. TargetsGrow'
  BY DEF TargetsGrow, Narrower
<1>9. Newcomers
  BY DEF Newcomers
<1>10. GoodLane(w)'
  <2>1. Owns(w, t) /\ HasBase(w, t)
    BY DEF GoodLanes, GoodLane, GoodStep
  <2>2. Owns(w, t)'
    BY <2>1 DEF Owns
  <2>3. HasBase(w, t)'
    BY <2>1 DEF HasBase
  <2> QED BY <2>2, <2>3 DEF GoodLane, GoodStep
<1>11. /\ \A o \in Objects : lane'[w].base[o] <= world[o]
       /\ \A p \in Processes, o \in Objects : seen'[p][o] <= world[o]
  BY DEF NobodyAhead
<1>12. HintsAreKept'
  BY DEF HintsAreKept
<1> QED BY <1>7, <1>8, <1>9, <1>10, <1>11, <1>12, LanesMove

\* An error, a time-out, a broken collection.
LEMMA FailsType ==
  ASSUME NEW w \in Lanes, lane[w] \in LaneType
  PROVE  /\ Fails(w) \in LaneType /\ Fails(w).pc = "finish" /\ Fails(w).ok = FALSE
         /\ Fails(w).on = lane[w].on /\ Fails(w).req = lane[w].req
         /\ Fails(w).base = lane[w].base /\ Fails(w).fresh = lane[w].fresh
  BY DEF Fails, LaneType

LEMMA TimeoutKeeps ==
  ASSUME ObservationInv, NEW w \in Lanes, ObserveTimesOut(w)
  PROVE  ObservationInv'
<1> USE DEF ObservationInv
<1>0. UNCHANGED <<world, seen, changes, pending, overflow, out, run, view, row, owed>>
  BY DEF ObserveTimesOut
<1>1. /\ lane' = [lane EXCEPT ![w] = Fails(w)] /\ got' = [got EXCEPT ![w] = NoCollection]
      /\ lane[w] \in LaneType /\ lane[w].pc \in {"wait", "use"}
  BY DEF ObserveTimesOut, ObservationTypeOK
<1>2. ObservationTypeOK'
  BY <1>0, <1>1, FailsType, NoCollectionGood DEF ObservationTypeOK
<1>3. /\ lane'[w] = Fails(w) /\ got'[w] = NoCollection
      /\ \A x \in Lanes : x # w => lane'[x] = lane[x] /\ got'[x] = got[x]
  BY <1>1 DEF ObservationTypeOK
<1>4. PICK t : t = lane[w].on
  OBVIOUS
<1>5. HasGot(w, t)' /\ HasConcluded(w, t)'
  BY <1>1, <1>3, FailsType DEF HasGot, HasConcluded
<1>6. Good(ProcessOf[w], NoCollection) /\ NoCollection.todo = {} /\ NoCollection.since = {}
  BY NoCollectionGood DEF NoCollection
<1>7. \A p \in Processes : Narrower(run[p], run'[p]) /\ Narrower(view[p], view'[p])
  BY <1>0 DEF Narrower
<1>8. /\ lane'[w].pc \notin {"idle", lane[w].pc} /\ lane'[w].on = t
      /\ lane'[w].req = lane[w].req /\ lane'[w].base = lane[w].base
      /\ lane'[w].fresh = lane[w].fresh /\ lane[w].pc # "idle"
  BY <1>1, <1>3, <1>4, FailsType
<1> QED BY <1>0, <1>2, <1>3, <1>4, <1>5, <1>6, <1>7, <1>8, OneMoves

\* A lane takes the last view.  What a removal waited for began after the
\* lane's boundary.
LEMMA SnapshotKeeps ==
  ASSUME ObservationInv, NEW w \in Lanes, Snapshot(w)
  PROVE  ObservationInv'
<1> USE DEF ObservationInv
<1>0. UNCHANGED <<world, seen, changes, pending, overflow, out, run, view, row, owed>>
  BY DEF Snapshot
<1>1. PICK t, p, g : /\ t = lane[w].on /\ p = ProcessOf[w]
                     /\ g = [view[p] EXCEPT !.since = {}]
  OBVIOUS
<1>2. /\ lane' = [lane EXCEPT ![w].pc = "use"] /\ got' = [got EXCEPT ![w] = g]
      /\ lane[w] \in LaneType /\ lane[w].pc = "wait" /\ view[p].on /\ p \in Processes
      /\ view[p] \in Collection /\ (lane[w].fresh => w \in view[p].since)
  BY <1>1 DEF Snapshot, NewEnough, ObservationTypeOK, Processes
<1>3. /\ g \in Collection /\ g.on /\ g.todo = {} /\ g.since = {} /\ g.data = view[p].data
      /\ Narrower(view[p], g)
  <2>1. view[p].todo = {}
    BY <1>2 DEF GoodCollections
  <2> QED BY <1>1, <1>2, <2>1 DEF Collection, Narrower
<1>4. Good(p, g)
  BY <1>2, <1>3, NarrowerGood DEF GoodCollections
<1>5. /\ lane'[w] = [lane[w] EXCEPT !.pc = "use"] /\ got'[w] = g
      /\ \A x \in Lanes : x # w => lane'[x] = lane[x] /\ got'[x] = got[x]
  BY <1>2 DEF ObservationTypeOK
<1>6. /\ lane'[w] \in LaneType /\ lane'[w].pc = "use" /\ lane'[w].on = t
      /\ lane'[w].req = lane[w].req /\ lane'[w].base = lane[w].base
      /\ lane'[w].fresh = lane[w].fresh
  BY <1>1, <1>2, <1>5 DEF LaneType
<1>7. ObservationTypeOK'
  BY <1>0, <1>2, <1>3, <1>6 DEF ObservationTypeOK
<1>8. KindOf[t] = "removal" => \A o \in Objects : lane[w].base[o] <= g.data[o]
  <2>1. KindOf[t] = "removal" => lane[w].fresh
    BY <1>1, <1>2 DEF GoodLanes, GoodLane, GoodStep, HasBase
  <2>2. Good(p, view[p]) /\ view[p].todo = {}
    BY <1>2 DEF GoodCollections
  <2> QED BY <1>2, <1>3, <2>1, <2>2 DEF Good
<1>9. HasGot(w, t)' /\ HasConcluded(w, t)'
  BY <1>3, <1>5, <1>6, <1>8 DEF HasGot, HasConcluded
<1>10. \A q \in Processes : Narrower(run[q], run'[q]) /\ Narrower(view[q], view'[q])
  BY <1>0 DEF Narrower
<1>11. Good(ProcessOf[w], got'[w]) /\ got'[w].todo = {} /\ got'[w].since = {}
  BY <1>1, <1>3, <1>4, <1>5
<1> QED BY <1>0, <1>1, <1>2, <1>5, <1>6, <1>7, <1>9, <1>10, <1>11, OneMoves

\* What a lane concludes from a complete collection.
LEMMA RestrictFacts ==
  ASSUME NEW t \in Targets, NEW s \in States
  PROVE  /\ Restrict(t, s) \in States
         /\ \A o \in Objects : Restrict(t, s)[o] = IF o \in ObjectsOf[t] THEN s[o] ELSE 0
  BY ObservationAssumption DEF Restrict, States

LEMMA ConcludesType ==
  ASSUME NEW w \in Lanes, lane[w] \in LaneType, lane[w].on \in Targets, NEW v \in Collection
  PROVE  /\ Concludes(w, v) \in LaneType /\ Concludes(w, v).pc = "finish"
         /\ Concludes(w, v).on = lane[w].on /\ Concludes(w, v).req = lane[w].req
         /\ Concludes(w, v).base = lane[w].base /\ Concludes(w, v).fresh = lane[w].fresh
         /\ Concludes(w, v).data = Restrict(lane[w].on, v.data)
         /\ Concludes(w, v).cov = v.gen[lane[w].on]
<1>1. PICK d, c : d = Restrict(lane[w].on, v.data) /\ c = v.gen[lane[w].on]
  OBVIOUS
<1>2. d \in States /\ c \in Nat
  BY <1>1, RestrictFacts, CollectionFields
<1>3. Concludes(w, v) = [lane[w] EXCEPT !.pc = "finish", !.ok = TRUE, !.data = d, !.cov = c]
  BY <1>1 DEF Concludes
<1>4. Concludes(w, v) \in LaneType
  BY <1>2, <1>3 DEF LaneType
<1>5. /\ Concludes(w, v).pc = "finish"
      /\ Concludes(w, v).on = lane[w].on /\ Concludes(w, v).req = lane[w].req
      /\ Concludes(w, v).base = lane[w].base /\ Concludes(w, v).fresh = lane[w].fresh
      /\ Concludes(w, v).data = d /\ Concludes(w, v).cov = c
  BY <1>3 DEF LaneType
<1> QED BY <1>1, <1>4, <1>5

\* A collection that covers the requirement and was begun after the row's last
\* evidence, or shows the same, is at least as new as the row.
LEMMA CoveringIsNew ==
  ASSUME ObservationInv, NEW t \in Targets, NEW p \in Processes, NEW v \in Collection,
         Good(p, v), v.on, v.todo = {},
         t \in v.after \/ Restrict(t, v.data) = row[t].applied,
         NEW o \in Objects
  PROVE  /\ Restrict(t, v.data)[o] <= world[o]
         /\ row[t].applied[o] <= Restrict(t, v.data)[o]
         /\ o \notin ObjectsOf[t] => Restrict(t, v.data)[o] = 0
         /\ o \in ObjectsOf[t] /\ row[t].requested <= v.gen[t]
              => row[t].noted[o] <= Restrict(t, v.data)[o]
<1> USE DEF ObservationInv
<1>1. /\ world[o] \in Nat /\ v.data \in States /\ v.data[o] \in Nat /\ v.data[o] <= world[o]
      /\ row[t].applied[o] \in Nat
  BY StatesAreNat, CollectionFields, RowFields DEF ObservationTypeOK, Good
<1>2. Restrict(t, v.data)[o] = IF o \in ObjectsOf[t] THEN v.data[o] ELSE 0
  BY <1>1, RestrictFacts
<1>3. o \notin ObjectsOf[t] => row[t].applied[o] = 0
  BY DEF NobodyAhead, GoodRow
<1>4. CASE o \in ObjectsOf[t]
  <2>1. t \in v.after => row[t].applied[o] <= v.data[o]
    BY DEF Good
  <2>2. row[t].requested <= v.gen[t] => row[t].noted[o] <= v.data[o]
    BY <1>4 DEF Good
  <2> QED BY <1>1, <1>2, <1>4, <2>1, <2>2
<1>5. CASE o \notin ObjectsOf[t]
  BY <1>1, <1>2, <1>3, <1>5
<1> QED BY <1>4, <1>5

\* The lane's boundary moves: every collection promises it less.
LEMMA BoundaryNarrows ==
  ASSUME ObservationTypeOK, NEW w, Boundary(w)
  PROVE  /\ run' \in [Processes -> Collection] /\ view' \in [Processes -> Collection]
         /\ \A p \in Processes : /\ Narrower(run[p], run'[p]) /\ Narrower(view[p], view'[p])
                                 /\ w \notin run'[p].since /\ w \notin view'[p].since
<1>1. ASSUME NEW v \in Collection
      PROVE  /\ [v EXCEPT !.since = @ \ {w}] \in Collection
             /\ Narrower(v, [v EXCEPT !.since = @ \ {w}])
             /\ w \notin [v EXCEPT !.since = @ \ {w}].since
  BY DEF Collection, Narrower
<1> QED BY <1>1 DEF Boundary, ObservationTypeOK

LEMMA ObserveAttachmentKeeps ==
  ASSUME ObservationInv, NEW w \in Lanes, ObserveAttachment(w)
  PROVE  ObservationInv'
<1> USE DEF ObservationInv
<1>0. UNCHANGED <<world, seen, changes, pending, overflow, out, row, owed>>
  BY DEF ObserveAttachment
<1>1. PICK t, p, g : t = lane[w].on /\ p = ProcessOf[w] /\ g = got[w]
  OBVIOUS
<1>2. /\ lane[w] \in LaneType /\ lane[w].pc = "use" /\ p \in Processes /\ g \in Collection
      /\ got' = [got EXCEPT ![w] = NoCollection] /\ KindOf[t] = "attachment"
  BY <1>1 DEF ObserveAttachment, ObservationTypeOK, Processes
<1>3. GoodStep(w, t) /\ t \in Targets /\ g.on /\ g.todo = {} /\ Good(p, g)
  <2>1. GoodStep(w, t)
    BY <1>1, <1>2 DEF GoodLanes, GoodLane
  <2> QED BY <1>1, <1>2, <2>1 DEF GoodStep, Owns, HasGot, GoodCollections
<1>4. got'[w] = NoCollection /\ \A x \in Lanes : x # w => got'[x] = got[x]
  BY <1>2 DEF ObservationTypeOK
<1>5. Good(ProcessOf[w], got'[w]) /\ got'[w].todo = {} /\ got'[w].since = {}
  <2>1. Good(ProcessOf[w], NoCollection) /\ NoCollection.todo = {} /\ NoCollection.since = {}
    BY NoCollectionGood DEF NoCollection
  <2> QED BY <1>4, <2>1
<1>6. got' \in [Lanes -> Collection]
  BY <1>2, NoCollectionGood DEF ObservationTypeOK
<1>7. CASE Covers(w, g) /\ Valid(g, ObjectsOf[t])
  <2>1. lane' = [lane EXCEPT ![w] = Concludes(w, g)] /\ UNCHANGED <<run, view>>
    BY <1>1, <1>7 DEF ObserveAttachment
  <2>2. lane'[w] = Concludes(w, g) /\ \A x \in Lanes : x # w => lane'[x] = lane[x]
    BY <2>1 DEF ObservationTypeOK
  <2>3. /\ lane'[w] \in LaneType /\ lane'[w].pc = "finish" /\ lane'[w].on = t
        /\ lane'[w].req = lane[w].req /\ lane'[w].base = lane[w].base
        /\ lane'[w].fresh = lane[w].fresh
        /\ lane'[w].data = Restrict(t, g.data) /\ lane'[w].cov = g.gen[t]
    BY <1>1, <1>2, <1>3, <2>2, ConcludesType
  <2>4. ObservationTypeOK'
    BY <1>0, <1>6, <2>1, <2>3 DEF ObservationTypeOK
  <2>5. t \in g.after \/ Restrict(t, g.data) = row[t].applied
    BY <1>1, <1>7 DEF Covers
  <2>6. HasGot(w, t)' /\ HasConcluded(w, t)'
    BY <1>0, <1>2, <1>3, <2>3, <2>5, CoveringIsNew DEF HasGot, HasConcluded
  <2>7. \A q \in Processes : Narrower(run[q], run'[q]) /\ Narrower(view[q], view'[q])
    BY <2>1 DEF Narrower
  <2> QED BY <1>0, <1>1, <1>2, <1>4, <1>5, <2>2, <2>3, <2>4, <2>6, <2>7, OneMoves
<1>8. CASE ~(Covers(w, g) /\ Valid(g, ObjectsOf[t]))
  <2>1. lane' = [lane EXCEPT ![w].pc = "wait", ![w].fresh = TRUE] /\ Boundary(w)
    BY <1>1, <1>8 DEF ObserveAttachment
  <2>2. /\ lane'[w] = [lane[w] EXCEPT !.pc = "wait", !.fresh = TRUE]
        /\ \A x \in Lanes : x # w => lane'[x] = lane[x]
    BY <2>1 DEF ObservationTypeOK
  <2>3. /\ lane'[w] \in LaneType /\ lane'[w].pc = "wait" /\ lane'[w].on = t
        /\ lane'[w].req = lane[w].req /\ lane'[w].base = lane[w].base
        /\ lane'[w].fresh
    BY <1>1, <1>2, <2>2 DEF LaneType
  <2>4. ObservationTypeOK'
    BY <1>0, <1>6, <2>1, <2>3, BoundaryNarrows DEF ObservationTypeOK
  <2>5. HasGot(w, t)' /\ HasConcluded(w, t)'
    BY <2>3 DEF HasGot, HasConcluded
  <2>6. \A q \in Processes : Narrower(run[q], run'[q]) /\ Narrower(view[q], view'[q])
    BY <2>1, BoundaryNarrows
  <2> QED BY <1>0, <1>1, <1>2, <1>4, <1>5, <2>2, <2>3, <2>4, <2>5, <2>6, OneMoves
<1> QED BY <1>7, <1>8

\* The dependency check of a removal: the collection shows what existed when the
\* row was claimed, and that is no older than the row.
LEMMA DependenciesKeep ==
  ASSUME ObservationInv, NEW w \in Lanes, CompleteDependencies(w)
  PROVE  ObservationInv'
<1> USE DEF ObservationInv
<1>0. UNCHANGED <<world, seen, changes, pending, overflow, out, run, view, row, owed>>
  BY DEF CompleteDependencies
<1>1. PICK t, p, g : t = lane[w].on /\ p = ProcessOf[w] /\ g = got[w]
  OBVIOUS
<1>2. /\ lane[w] \in LaneType /\ lane[w].pc = "use" /\ p \in Processes /\ g \in Collection
      /\ got' = [got EXCEPT ![w] = NoCollection] /\ KindOf[t] = "removal"
      /\ lane' = [lane EXCEPT ![w] = IF Valid(g, ObjectsOf[t])
                                       THEN [Concludes(w, g) EXCEPT !.cov = lane[w].req]
                                       ELSE Fails(w)]
  BY <1>1 DEF CompleteDependencies, ObservationTypeOK, Processes
<1>3. GoodStep(w, t) /\ t \in Targets /\ Good(p, g)
  <2>1. GoodStep(w, t)
    BY <1>1, <1>2 DEF GoodLanes, GoodLane
  <2> QED BY <1>1, <1>2, <2>1 DEF GoodStep, Owns, GoodCollections
<1>4. /\ got'[w] = NoCollection
      /\ \A x \in Lanes : x # w => lane'[x] = lane[x] /\ got'[x] = got[x]
  BY <1>2 DEF ObservationTypeOK
<1>5. Good(ProcessOf[w], got'[w]) /\ got'[w].todo = {} /\ got'[w].since = {}
  <2>1. Good(ProcessOf[w], NoCollection) /\ NoCollection.todo = {} /\ NoCollection.since = {}
    BY NoCollectionGood DEF NoCollection
  <2> QED BY <1>4, <2>1
<1>6. got' \in [Lanes -> Collection]
  BY <1>2, NoCollectionGood DEF ObservationTypeOK
<1>7. \A q \in Processes : Narrower(run[q], run'[q]) /\ Narrower(view[q], view'[q])
  BY <1>0 DEF Narrower
<1>8. ASSUME lane'[w] \in LaneType, lane'[w].pc = "finish", lane'[w].on = t,
             lane'[w].req = lane[w].req, lane'[w].base = lane[w].base,
             lane'[w].fresh = lane[w].fresh, HasConcluded(w, t)'
      PROVE  ObservationInv'
  <2>1. ObservationTypeOK'
    BY <1>0, <1>2, <1>6, <1>8 DEF ObservationTypeOK
  <2>2. HasGot(w, t)'
    BY <1>8 DEF HasGot
  <2> QED BY <1>0, <1>1, <1>2, <1>4, <1>5, <1>7, <1>8, <2>1, <2>2, OneMoves
<1>9. CASE Valid(g, ObjectsOf[t])
  <2>1. lane'[w] = [Concludes(w, g) EXCEPT !.cov = lane[w].req]
    BY <1>2, <1>9 DEF ObservationTypeOK
  <2>2. PICK c : c = Concludes(w, g)
    OBVIOUS
  <2>3. /\ c \in LaneType /\ c.pc = "finish" /\ c.on = t /\ c.req = lane[w].req
        /\ c.base = lane[w].base /\ c.fresh = lane[w].fresh /\ c.data = Restrict(t, g.data)
    BY <1>1, <1>2, <1>3, <2>2, ConcludesType
  <2>4. lane[w].req \in Nat
    BY <1>2, LaneFields
  <2>5. /\ lane'[w] \in LaneType /\ lane'[w].pc = "finish" /\ lane'[w].on = t
        /\ lane'[w].req = lane[w].req /\ lane'[w].base = lane[w].base
        /\ lane'[w].fresh = lane[w].fresh /\ lane'[w].data = Restrict(t, g.data)
    BY <2>1, <2>2, <2>3, <2>4 DEF LaneType
  <2>6. ASSUME NEW o \in Objects
        PROVE  /\ Restrict(t, g.data)[o] <= world[o]
               /\ row[t].applied[o] <= Restrict(t, g.data)[o]
               /\ o \notin ObjectsOf[t] => Restrict(t, g.data)[o] = 0
               /\ o \in ObjectsOf[t] /\ lane[w].req = row[t].requested
                    => row[t].noted[o] <= Restrict(t, g.data)[o]
    <3>1. /\ world[o] \in Nat /\ g.data \in States /\ g.data[o] \in Nat /\ g.data[o] <= world[o]
          /\ row[t].applied[o] \in Nat /\ row[t].noted[o] \in Nat /\ lane[w].base[o] \in Nat
      BY <1>2, <1>3, StatesAreNat, CollectionFields, RowFields, LaneFields
      DEF ObservationTypeOK, Good
    <3>2. Restrict(t, g.data)[o] = IF o \in ObjectsOf[t] THEN g.data[o] ELSE 0
      BY <1>3, <3>1, RestrictFacts
    <3>3. o \notin ObjectsOf[t] => row[t].applied[o] = 0
      BY <1>3 DEF NobodyAhead, GoodRow
    <3>4. lane[w].base[o] <= g.data[o]
      BY <1>1, <1>2, <1>3 DEF GoodStep, HasGot
    <3>5. /\ row[t].applied[o] <= lane[w].base[o]
          /\ lane[w].req = row[t].requested => row[t].noted[o] <= lane[w].base[o]
      BY <1>2, <1>3 DEF GoodStep, HasBase
    <3> QED BY <3>1, <3>2, <3>3, <3>4, <3>5
  <2>7. HasConcluded(w, t)'
    BY <1>0, <2>5, <2>6 DEF HasConcluded
  <2> QED BY <1>8, <2>5, <2>7
<1>10. CASE ~Valid(g, ObjectsOf[t])
  <2>1. lane'[w] = Fails(w)
    BY <1>2, <1>10 DEF ObservationTypeOK
  <2>2. HasConcluded(w, t)'
    BY <1>2, <2>1, FailsType DEF HasConcluded
  <2> QED BY <1>1, <1>2, <1>8, <2>1, <2>2, FailsType
<1> QED BY <1>9, <1>10

\* A resource is observed from the last view or with a request of its own.
LEMMA ObserveResourceKeeps ==
  ASSUME ObservationInv, NEW w \in Lanes, ObserveResource(w)
  PROVE  ObservationInv'
<1> USE DEF ObservationInv
<1>0. UNCHANGED <<world, seen, changes, pending, overflow, out, run, view, row, got, owed>>
  BY DEF ObserveResource
<1>1. PICK t, p, v : t = lane[w].on /\ p = ProcessOf[w] /\ v = view[p]
  OBVIOUS
<1>2. /\ lane[w] \in LaneType /\ lane[w].pc = "wait" /\ p \in Processes /\ v \in Collection
  BY <1>1 DEF ObserveResource, ObservationTypeOK, Processes
<1>3. /\ t \in Targets /\ Good(p, v) /\ v.todo = {}
      /\ Good(ProcessOf[w], got'[w]) /\ got'[w].todo = {} /\ got'[w].since = {}
  BY <1>0, <1>1, <1>2 DEF GoodLanes, GoodLane, GoodStep, Owns, GoodCollections
<1>4. \A q \in Processes : Narrower(run[q], run'[q]) /\ Narrower(view[q], view'[q])
  BY <1>0 DEF Narrower
<1>5. ASSUME NEW s \in LaneType, lane' = [lane EXCEPT ![w] = s], s.pc = "finish", s.on = t,
             s.req = lane[w].req, s.base = lane[w].base, s.fresh = lane[w].fresh,
             HasConcluded(w, t)'
      PROVE  ObservationInv'
  <2>1. ObservationTypeOK'
    BY <1>0, <1>5 DEF ObservationTypeOK
  <2>2. lane'[w] = s /\ \A x \in Lanes : x # w => lane'[x] = lane[x]
    BY <1>5 DEF ObservationTypeOK
  <2>3. HasGot(w, t)'
    BY <1>5, <2>2 DEF HasGot
  <2> QED BY <1>0, <1>1, <1>2, <1>3, <1>4, <1>5, <2>1, <2>2, <2>3, OneMoves
<1>6. CASE v.on /\ Covers(w, v) /\ lane' = [lane EXCEPT ![w] = Concludes(w, v)]
  <2>1. PICK s : s = Concludes(w, v)
    OBVIOUS
  <2>2. /\ s \in LaneType /\ s.pc = "finish" /\ s.on = t /\ s.req = lane[w].req
        /\ s.base = lane[w].base /\ s.fresh = lane[w].fresh /\ s.data = Restrict(t, v.data)
        /\ s.cov = v.gen[t]
    BY <1>1, <1>2, <1>3, <2>1, ConcludesType
  <2>3. t \in v.after \/ Restrict(t, v.data) = row[t].applied
    BY <1>1, <1>6 DEF Covers
  <2>4. lane'[w] = s
    BY <1>6, <2>1 DEF ObservationTypeOK
  <2>5. HasConcluded(w, t)'
    BY <1>0, <1>2, <1>3, <1>6, <2>2, <2>3, <2>4, CoveringIsNew DEF HasConcluded
  <2> QED BY <1>5, <1>6, <2>1, <2>2, <2>5
<1>7. CASE lane' = [lane EXCEPT ![w] =
             [lane[w] EXCEPT !.pc = "finish", !.ok = TRUE,
                             !.data = Restrict(t, world), !.cov = lane[w].req]]
  <2>1. PICK d, s : /\ d = Restrict(t, world)
                    /\ s = [lane[w] EXCEPT !.pc = "finish", !.ok = TRUE, !.data = d,
                                           !.cov = lane[w].req]
    OBVIOUS
  <2>2. d \in States /\ \A o \in Objects : d[o] = IF o \in ObjectsOf[t] THEN world[o] ELSE 0
    BY <1>3, <2>1, RestrictFacts DEF ObservationTypeOK
  <2>3. lane[w].req \in Nat
    BY <1>2, LaneFields
  <2>4. s \in LaneType
    BY <1>2, <2>1, <2>2, <2>3 DEF LaneType
  <2>5. /\ s.pc = "finish" /\ s.on = t /\ s.req = lane[w].req
        /\ s.base = lane[w].base /\ s.fresh = lane[w].fresh /\ s.data = d
    BY <1>1, <1>2, <2>1 DEF LaneType
  <2>6. lane'[w] = s
    BY <1>7, <2>1 DEF ObservationTypeOK
  <2>7. \A o \in Objects : /\ world[o] \in Nat /\ row[t].applied[o] <= world[o]
                           /\ row[t].noted[o] <= world[o]
                           /\ o \notin ObjectsOf[t] => row[t].applied[o] = 0
    BY <1>3, StatesAreNat DEF ObservationTypeOK, NobodyAhead, GoodRow
  <2>8. HasConcluded(w, t)'
    BY <1>0, <2>2, <2>5, <2>6, <2>7 DEF HasConcluded
  <2> QED BY <1>5, <1>7, <2>1, <2>4, <2>5, <2>8
<1> QED BY <1>1, <1>6, <1>7 DEF ObserveResource

\* A broken collection fails the steps that wait for it.
LEMMA CollectFailsKeeps ==
  ASSUME ObservationInv, NEW p \in Processes, CollectFails(p)
  PROVE  ObservationInv'
<1> USE DEF ObservationInv
<1>0. UNCHANGED <<world, seen, changes, pending, overflow, out, view, row, got, owed>>
  BY DEF CollectFails
<1>1. /\ run' = [run EXCEPT ![p] = NoCollection]
      /\ lane' = [w \in Lanes |-> IF ProcessOf[w] = p /\ lane[w].pc = "wait" THEN Fails(w)
                                                                             ELSE lane[w]]
  BY DEF CollectFails
<1>2. \A w \in Lanes : lane[w] \in LaneType /\ ProcessOf[w] \in Processes
  BY DEF ObservationTypeOK, Processes
<1>3. \A w \in Lanes : \/ lane'[w] = lane[w]
                       \/ /\ lane[w].pc = "wait" /\ lane'[w].pc = "finish" /\ lane'[w].ok = FALSE
                          /\ lane'[w].on = lane[w].on /\ lane'[w].req = lane[w].req
                          /\ lane'[w].base = lane[w].base /\ lane'[w].fresh = lane[w].fresh
  BY <1>1, <1>2, FailsType
<1>4. ObservationTypeOK'
  <2>1. run' \in [Processes -> Collection]
    BY <1>1, NoCollectionGood DEF ObservationTypeOK
  <2>2. lane' \in [Lanes -> LaneType]
    BY <1>1, <1>2, FailsType
  <2> QED BY <1>0, <2>1, <2>2 DEF ObservationTypeOK
<1>5. \A q \in Processes : run'[q] = NoCollection \/ run'[q] = run[q]
  BY <1>1 DEF ObservationTypeOK
<1>6. GoodCollections'
  <2>1. \A w \in Lanes : lane'[w].base = lane[w].base
    BY <1>3
  <2>2. \A q \in Processes, v \in Collection : QuietFor(q, v)
    BY <1>0, <2>1, LaneQuiet DEF Collection
  <2>3. \A q \in Processes : run'[q] \in Collection /\ Good(q, run'[q])
    BY <1>5, NoCollectionGood DEF GoodCollections, ObservationTypeOK
  <2>4. \A q \in Processes : view'[q] \in Collection /\ Good(q, view'[q]) /\ view'[q].todo = {}
    BY <1>0 DEF GoodCollections, ObservationTypeOK
  <2>5. \A w \in Lanes : /\ got'[w] \in Collection /\ Good(ProcessOf[w], got'[w])
                         /\ got'[w].todo = {} /\ got'[w].since = {}
    BY <1>0 DEF GoodCollections, ObservationTypeOK
  <2> QED BY <1>2, <1>4, <2>2, <2>3, <2>4, <2>5, CollectionsKept
<1>7. TargetsGrow'
  <2>1. NoCollection.targets = {} /\ NoCollection.on = FALSE
    BY DEF NoCollection
  <2> QED BY <1>0, <1>5, <2>1 DEF TargetsGrow
<1>8. Newcomers
  BY <1>3 DEF Newcomers
<1>9. HintsAreKept' /\ \A q \in Processes, o \in Objects : seen'[q][o] <= world[o]
  BY <1>0 DEF HintsAreKept, NobodyAhead
<1>10. ASSUME NEW w \in Lanes, lane[w].pc = "wait", lane'[w].pc = "finish",
              lane'[w].ok = FALSE, lane'[w].on = lane[w].on, lane'[w].req = lane[w].req,
              lane'[w].base = lane[w].base, lane'[w].fresh = lane[w].fresh
       PROVE  GoodLane(w)' /\ \A o \in Objects : lane'[w].base[o] <= world[o]
  <2>1. PICK t : t = lane[w].on
    OBVIOUS
  <2>2. Owns(w, t) /\ HasBase(w, t)
    BY <1>10, <2>1 DEF GoodLanes, GoodLane, GoodStep
  <2>3. Owns(w, t)'
    <3>1. \A x \in Lanes : lane'[x].on = lane[x].on /\ (lane'[x].pc # "idle" => lane[x].pc # "idle")
      BY <1>3
    <3> QED BY <1>0, <1>10, <2>2, <3>1 DEF Owns
  <2>4. HasBase(w, t)' /\ HasGot(w, t)' /\ HasConcluded(w, t)'
    BY <1>0, <1>10, <2>2 DEF HasBase, HasGot, HasConcluded
  <2>5. GoodLane(w)'
    BY <1>10, <2>1, <2>3, <2>4 DEF GoodLane, GoodStep
  <2> QED BY <1>10, <2>5 DEF NobodyAhead
<1>11. \A w \in Lanes :
         \/ lane'[w] = lane[w] /\ got'[w] = got[w]
         \/ /\ lane'[w].pc = "use" => lane[w].pc # "use"
            /\ GoodLane(w)'
            /\ \A o \in Objects : lane'[w].base[o] <= world[o]
  <2> SUFFICES ASSUME NEW w \in Lanes, lane'[w] # lane[w]
               PROVE  /\ lane'[w].pc = "use" => lane[w].pc # "use"
                      /\ GoodLane(w)'
                      /\ \A o \in Objects : lane'[w].base[o] <= world[o]
    BY <1>0
  <2> QED BY <1>3, <1>10
<1> QED BY <1>0, <1>4, <1>6, <1>7, <1>8, <1>9, <1>11, LanesMove

\* The memory of a process is gone; the rows it worked on are still due.
LEMMA RestartKeeps ==
  ASSUME ObservationInv, NEW p \in Processes, Restart(p)
  PROVE  ObservationInv'
<1> USE DEF ObservationInv
<1>0. UNCHANGED <<world, row>>
  BY DEF Restart
<1>1. /\ \A q \in Processes : q # p => /\ seen'[q] = seen[q] /\ pending'[q] = pending[q]
                                       /\ overflow'[q] = overflow[q] /\ out'[q] = out[q]
                                       /\ run'[q] = run[q] /\ view'[q] = view[q]
                                       /\ owed'[q] = owed[q]
      /\ seen'[p] = Nothing /\ owed'[p] = {}
      /\ run'[p] = NoCollection /\ view'[p] = NoCollection
  BY DEF Restart, ObservationTypeOK
<1>2. /\ lane' = [w \in Lanes |-> IF ProcessOf[w] = p THEN NoStep ELSE lane[w]]
      /\ got'  = [w \in Lanes |-> IF ProcessOf[w] = p THEN NoCollection ELSE got[w]]
  BY DEF Restart
<1>3. NoStep \in LaneType /\ NoStep.pc = "idle" /\ NoStep.base = Nothing
  BY NothingType DEF NoStep, LaneType
<1>4. /\ NoCollection.targets = {} /\ NoCollection.on = FALSE /\ NoCollection.todo = {}
      /\ NoCollection.since = {}
  BY DEF NoCollection
<1>5. ObservationTypeOK'
  <2>1. /\ seen' \in [Processes -> States] /\ changes' \in [Processes -> SUBSET Objects]
        /\ pending' \in [Processes -> SUBSET Objects] /\ overflow' \in [Processes -> BOOLEAN]
        /\ out' \in [Processes -> SUBSET Targets] /\ owed' \in [Processes -> SUBSET Targets]
    BY NothingType DEF Restart, ObservationTypeOK
  <2>2. /\ run' \in [Processes -> Collection] /\ view' \in [Processes -> Collection]
    BY NoCollectionGood DEF Restart, ObservationTypeOK
  <2>3. lane' \in [Lanes -> LaneType] /\ got' \in [Lanes -> Collection]
    BY <1>2, <1>3, NoCollectionGood DEF ObservationTypeOK
  <2> QED BY <1>0, <2>1, <2>2, <2>3 DEF ObservationTypeOK
<1>6. \A q \in Processes, o \in Objects :
        /\ seen'[q][o] <= seen[q][o] /\ seen'[q][o] <= world[o]
  <2>1. \A q \in Processes, o \in Objects : seen[q][o] \in Nat /\ world[o] \in Nat
    BY StatesAreNat DEF ObservationTypeOK
  <2> QED BY <1>1, <2>1, NothingType DEF NobodyAhead
<1>7. GoodCollections'
  <2>1. \A w \in Lanes : lane'[w].base = lane[w].base \/ lane'[w].base = Nothing
    BY <1>2, <1>3
  <2>2. \A q \in Processes, v \in Collection : QuietFor(q, v)
    <3>1. \A t \in Targets : row[t].requested \in Nat
      BY RowFields DEF ObservationTypeOK
    <3>2. \A o \in Objects : world[o] \in Nat
      BY StatesAreNat DEF ObservationTypeOK
    <3> QED BY <1>0, <1>6, <2>1, <3>1, <3>2 DEF QuietFor, Collection
  <2>3. \A q \in Processes : /\ run'[q] \in Collection /\ Good(q, run'[q])
                             /\ view'[q] \in Collection /\ Good(q, view'[q])
                             /\ view'[q].todo = {}
    BY <1>1, <1>4, NoCollectionGood DEF GoodCollections, ObservationTypeOK
  <2>4. \A w \in Lanes : /\ got'[w] \in Collection /\ Good(ProcessOf[w], got'[w])
                         /\ got'[w].todo = {} /\ got'[w].since = {}
    BY <1>2, <1>4, NoCollectionGood DEF GoodCollections, ObservationTypeOK
  <2>5. \A w \in Lanes : ProcessOf[w] \in Processes
    BY DEF Processes
  <2> QED BY <1>5, <2>2, <2>3, <2>4, <2>5, CollectionsKept
<1>8. TargetsGrow' /\ HintsAreKept'
  BY <1>0, <1>1, <1>4 DEF TargetsGrow, HintsAreKept
<1>9. Newcomers
  BY <1>2, <1>3 DEF Newcomers
<1>10. \A w \in Lanes :
         \/ lane'[w] = lane[w] /\ got'[w] = got[w]
         \/ /\ lane'[w].pc = "use" => lane[w].pc # "use"
            /\ GoodLane(w)'
            /\ \A o \in Objects : lane'[w].base[o] <= world[o]
  <2>1. \A o \in Objects : world[o] \in Nat
    BY StatesAreNat DEF ObservationTypeOK
  <2> QED BY <1>2, <1>3, <2>1, NothingType DEF GoodLane
<1> QED BY <1>0, <1>5, <1>6, <1>7, <1>8, <1>9, <1>10, LanesMove

\* A due row is claimed: no collection so far promises this lane anything.
LEMMA ClaimKeeps ==
  ASSUME ObservationInv, NEW w \in Lanes, NEW t \in Targets, Claim(w, t)
  PROVE  ObservationInv'
<1> USE DEF ObservationInv
<1>0. UNCHANGED <<world, seen, changes, pending, overflow, out, row, got, owed>>
  BY DEF Claim
<1>1. Boundary(w) /\ lane[w].pc = "idle" /\ row[t].due /\ ~Working(t)
  BY DEF Claim
<1>2. PICK b : b = IF KindOf[t] = "removal" THEN world ELSE Nothing
  OBVIOUS
<1>3. PICK fresh \in Freshness(KindOf[t]) :
        lane' = [lane EXCEPT ![w] = [NoStep EXCEPT !.pc = "wait", !.on = t, !.fresh = fresh,
                                                   !.req = row[t].requested, !.base = b]]
  BY <1>2 DEF Claim
<1>4. PICK s : s = [NoStep EXCEPT !.pc = "wait", !.on = t, !.fresh = fresh,
                                  !.req = row[t].requested, !.base = b]
  OBVIOUS
<1>5. lane' = [lane EXCEPT ![w] = s]
  BY <1>3, <1>4
<1>6. fresh \in BOOLEAN /\ (KindOf[t] = "removal" => fresh = TRUE)
  <2>1. KindOf[t] \in Kinds
    BY ObservationAssumption
  <2> QED BY <2>1 DEF Freshness, Kinds
<1>7. NoStep \in LaneType
  BY NothingType DEF NoStep, LaneType
<1>8. /\ b \in States /\ \A o \in Objects : b[o] <= world[o]
      /\ row[t].requested \in Nat
  <2>1. world \in States /\ \A o \in Objects : world[o] \in Nat
    BY StatesAreNat DEF ObservationTypeOK
  <2> QED BY <1>2, <2>1, NothingType, RowFields DEF ObservationTypeOK
<1>9. s \in LaneType
  BY <1>4, <1>6, <1>7, <1>8 DEF LaneType
<1>10. /\ s.pc = "wait" /\ s.on = t /\ s.fresh = fresh /\ s.req = row[t].requested /\ s.base = b
  BY <1>4, <1>7 DEF LaneType
<1>11. lane'[w] = s /\ \A x \in Lanes : x # w => lane'[x] = lane[x]
  BY <1>5 DEF ObservationTypeOK
<1>12. ObservationTypeOK'
  BY <1>0, <1>1, <1>5, <1>9, BoundaryNarrows DEF ObservationTypeOK
<1>13. \A q \in Processes : /\ Narrower(run[q], run'[q]) /\ Narrower(view[q], view'[q])
                            /\ w \notin run'[q].since /\ w \notin view'[q].since
  BY <1>1, BoundaryNarrows
<1>14. GoodCollections'
  <2>1. \A q \in Processes : /\ run'[q] \in Collection /\ view'[q] \in Collection
    BY <1>12 DEF ObservationTypeOK
  <2>2. \A q \in Processes : Good(q, run'[q]) /\ Good(q, view'[q])
    BY <1>13, NarrowerGood DEF GoodCollections
  <2>3. \A q \in Processes : view'[q].todo = {}
    BY <1>13 DEF GoodCollections, Narrower
  <2>4. \A q \in Processes : QuietFor(q, run'[q]) /\ QuietFor(q, view'[q])
    <3> SUFFICES ASSUME NEW q \in Processes
                 PROVE  QuietFor(q, run'[q]) /\ QuietFor(q, view'[q])
      OBVIOUS
    <3>1. \A x \in run'[q].since \cup view'[q].since : x \in Lanes /\ x # w
      BY <1>13, <2>1 DEF Collection
    <3> QED BY <1>0, <1>11, <2>1, <3>1, LaneQuiet
  <2>5. \A x \in Lanes : /\ got'[x] \in Collection /\ Good(ProcessOf[x], got'[x])
                         /\ got'[x].todo = {} /\ got'[x].since = {}
    BY <1>0 DEF GoodCollections, ObservationTypeOK
  <2>6. \A x \in Lanes : ProcessOf[x] \in Processes
    BY DEF Processes
  <2>7. \A x \in Lanes : QuietFor(ProcessOf[x], got'[x])
    BY <1>0, <2>5, <2>6, LaneQuiet
  <2> QED BY <1>12, <2>2, <2>3, <2>4, <2>5, <2>7, CollectionsKept
<1>15. TargetsGrow'
  BY <1>0, <1>13 DEF TargetsGrow, Narrower
<1>16. HintsAreKept' /\ \A q \in Processes, o \in Objects : seen'[q][o] <= world[o]
  BY <1>0 DEF HintsAreKept, NobodyAhead
<1>17. Newcomers
  BY <1>1, <1>10, <1>11 DEF Newcomers
<1>18. GoodLane(w)'
  <2>1. Owns(w, t)'
    <3>1. \A x \in Lanes : lane'[x].pc # "idle" /\ lane'[x].on = t => x = w
      BY <1>1, <1>11 DEF Working
    <3> QED BY <1>0, <1>1, <1>8, <1>10, <1>11, <3>1 DEF Owns
  <2>2. HasBase(w, t)'
    BY <1>0, <1>2, <1>6, <1>10, <1>11 DEF HasBase, NobodyAhead, GoodRow
  <2>3. HasGot(w, t)' /\ HasConcluded(w, t)'
    BY <1>10, <1>11 DEF HasGot, HasConcluded
  <2> QED BY <1>10, <1>11, <2>1, <2>2, <2>3 DEF GoodLane, GoodStep
<1>19. \A x \in Lanes :
         \/ lane'[x] = lane[x] /\ got'[x] = got[x]
         \/ /\ lane'[x].pc = "use" => lane[x].pc # "use"
            /\ GoodLane(x)'
            /\ \A o \in Objects : lane'[x].base[o] <= world[o]
  BY <1>0, <1>8, <1>10, <1>11, <1>18
<1> QED BY <1>0, <1>12, <1>14, <1>15, <1>16, <1>17, <1>19, LanesMove

\* What a finished step leaves in its row.
LEMMA FinishedRow ==
  ASSUME ObservationInv, NEW w \in Lanes, NEW t, t = lane[w].on, Finish(w)
  PROVE  /\ t \in Targets /\ row'[t] \in Row /\ \A u \in Targets : u # t => row'[u] = row[u]
         /\ row' \in [Targets -> Row]
         /\ row'[t].known = row[t].known /\ row'[t].requested = row[t].requested
         /\ row'[t].noted = row[t].noted
         /\ row'[t].processed = IF row[t].processed < Covered(w) THEN Covered(w)
                                                                 ELSE row[t].processed
         /\ row'[t].due <=> StillDue(w)
         /\ row'[t].backoff <=> ~lane[w].ok
         /\ row'[t].applied = IF lane[w].ok THEN lane[w].data ELSE row[t].applied
<1> USE DEF ObservationInv
<1>1. t \in Targets /\ lane[w] \in LaneType
  BY DEF Finish, GoodLanes, GoodLane, GoodStep, Owns, ObservationTypeOK
<1>2. row[t] \in Row
  BY <1>1 DEF ObservationTypeOK
<1>3. PICK n, a :
        /\ n = Greatest(row[t].processed, Covered(w))
        /\ a = IF lane[w].ok THEN lane[w].data ELSE row[t].applied
  OBVIOUS
<1>4. PICK d \in BOOLEAN, b \in BOOLEAN, e \in BOOLEAN :
        /\ d = StillDue(w)
        /\ b = ~lane[w].ok
        /\ e = (row[t].evidence \/ lane[w].ok)
  BY DEF StillDue
<1>5. n \in Nat /\ a \in States
  <2>1. Covered(w) \in Nat
    BY <1>1, LaneFields DEF Covered, Least
  <2> QED BY <1>1, <1>2, <1>3, <2>1, RowFields, LaneFields DEF Greatest
<1>6. PICK r : r = [row[t] EXCEPT !.processed = n, !.due = d, !.backoff = b,
                                  !.applied = a, !.evidence = e]
  OBVIOUS
<1>7. row' = [row EXCEPT ![t] = r]
  BY <1>3, <1>4, <1>6, Zenon DEF Finish
<1>8. r \in Row
  BY <1>2, <1>5, <1>6 DEF Row
<1>9. /\ r.known = row[t].known /\ r.requested = row[t].requested /\ r.noted = row[t].noted
      /\ r.processed = n /\ r.due = d /\ r.backoff = b /\ r.applied = a
  BY <1>2, <1>6 DEF Row
<1>10. /\ row'[t] = r /\ \A u \in Targets : u # t => row'[u] = row[u]
       /\ row' \in [Targets -> Row]
  BY <1>1, <1>7, <1>8 DEF ObservationTypeOK
<1> QED BY <1>1, <1>3, <1>4, <1>8, <1>9, <1>10 DEF Greatest

\* A step ends.
LEMMA FinishKeeps ==
  ASSUME ObservationInv, NEW w \in Lanes, Finish(w)
  PROVE  ObservationInv'
<1> USE DEF ObservationInv
<1>0. UNCHANGED <<world, seen, changes, pending, overflow, out, owed>>
  BY DEF Finish
<1>1. PICK t : t = lane[w].on
  OBVIOUS
<1>2. /\ t \in Targets /\ row'[t] \in Row /\ \A u \in Targets : u # t => row'[u] = row[u]
      /\ row' \in [Targets -> Row]
      /\ row'[t].known = row[t].known /\ row'[t].requested = row[t].requested
      /\ row'[t].noted = row[t].noted
      /\ row'[t].processed = IF row[t].processed < Covered(w) THEN Covered(w)
                                                              ELSE row[t].processed
      /\ row'[t].due <=> StillDue(w)
      /\ row'[t].backoff <=> ~lane[w].ok
      /\ row'[t].applied = IF lane[w].ok THEN lane[w].data ELSE row[t].applied
  BY <1>1, FinishedRow
<1>3. /\ lane[w] \in LaneType /\ lane[w].pc = "finish" /\ lane' = [lane EXCEPT ![w] = NoStep]
      /\ Owns(w, t) /\ HasConcluded(w, t)
  BY <1>1 DEF Finish, ObservationTypeOK, GoodLanes, GoodLane, GoodStep
<1>4. NoStep \in LaneType /\ NoStep.pc = "idle" /\ NoStep.base = Nothing
  BY NothingType DEF NoStep, LaneType
<1>5. lane'[w] = NoStep /\ \A x \in Lanes : x # w => lane'[x] = lane[x]
  BY <1>3 DEF ObservationTypeOK
<1>6. /\ row[t].requested \in Nat /\ row[t].processed \in Nat /\ row'[t].processed \in Nat
      /\ lane[w].req \in Nat /\ lane[w].cov \in Nat /\ Covered(w) \in Nat
      /\ row[t].processed <= row[t].requested
      /\ Covered(w) <= row[t].requested /\ (~lane[w].ok => Covered(w) = 0)
  <2>1. /\ row[t].requested \in Nat /\ row[t].processed \in Nat /\ row'[t].processed \in Nat
        /\ lane[w].req \in Nat /\ lane[w].cov \in Nat
    BY <1>2, <1>3, RowFields, LaneFields DEF ObservationTypeOK
  <2>2. row[t].processed <= row[t].requested /\ lane[w].req <= row[t].requested
    BY <1>2, <1>3 DEF NobodyAhead, GoodRow, Owns
  <2> QED BY <2>1, <2>2 DEF Covered, Least
<1>7. \A o \in Objects : /\ world[o] \in Nat /\ row[t].applied[o] \in Nat
                         /\ row'[t].applied[o] \in Nat /\ row[t].noted[o] \in Nat
                         /\ row[t].applied[o] <= row'[t].applied[o]
                         /\ row'[t].applied[o] <= world[o]
                         /\ o \notin ObjectsOf[t] => row'[t].applied[o] = 0
  <2>1. \A o \in Objects : /\ world[o] \in Nat /\ row[t].applied[o] \in Nat
                           /\ row'[t].applied[o] \in Nat /\ row[t].noted[o] \in Nat
    BY <1>2, RowFields, StatesAreNat DEF ObservationTypeOK
  <2>2. CASE lane[w].ok
    BY <1>2, <1>3, <2>1, <2>2 DEF HasConcluded
  <2>3. CASE ~lane[w].ok
    BY <1>2, <2>1, <2>3 DEF NobodyAhead, GoodRow
  <2> QED BY <2>2, <2>3
<1>8. /\ run' \in [Processes -> Collection] /\ view' \in [Processes -> Collection]
      /\ got' \in [Lanes -> Collection]
      /\ \A q \in Processes : /\ Narrower(run[q], run'[q]) /\ Narrower(view[q], view'[q])
                              /\ lane[w].ok => t \notin run'[q].after /\ t \notin view'[q].after
      /\ \A x \in Lanes : Narrower(got[x], got'[x]) /\ (lane[w].ok => t \notin got'[x].after)
  <2>1. ASSUME NEW v \in Collection
        PROVE  /\ [v EXCEPT !.after = @ \ {t}] \in Collection
               /\ Narrower(v, [v EXCEPT !.after = @ \ {t}])
               /\ t \notin [v EXCEPT !.after = @ \ {t}].after
    BY DEF Collection, Narrower
  <2>2. CASE lane[w].ok
    <3>1. /\ run'  = [q \in Processes |-> [run[q] EXCEPT !.after = @ \ {t}]]
          /\ view' = [q \in Processes |-> [view[q] EXCEPT !.after = @ \ {t}]]
          /\ got'  = [x \in Lanes |-> [got[x] EXCEPT !.after = @ \ {t}]]
      BY <1>1, <2>2 DEF Finish
    <3> QED BY <2>1, <3>1 DEF ObservationTypeOK
  <2>3. CASE ~lane[w].ok
    <3>1. UNCHANGED <<run, view, got>>
      BY <2>3 DEF Finish
    <3> QED BY <2>3, <3>1 DEF ObservationTypeOK, Narrower
  <2> QED BY <2>2, <2>3
<1>9. ObservationTypeOK'
  BY <1>0, <1>2, <1>3, <1>4, <1>8 DEF ObservationTypeOK
<1>10. GoodCollections'
  <2>1. ASSUME NEW q \in Processes, NEW v \in Collection, lane[w].ok => t \notin v.after
        PROVE  QuietFor(q, v)
    <3>1. \A o \in Objects : world[o] \in Nat /\ seen[q][o] \in Nat
      BY StatesAreNat DEF ObservationTypeOK
    <3>2. \A u \in Targets : row[u].requested \in Nat
      BY RowFields DEF ObservationTypeOK
    <3>3. \A u \in Targets : row'[u].requested = row[u].requested /\ row'[u].noted = row[u].noted
      BY <1>2
    <3>4. \A u \in v.after : row'[u].applied = row[u].applied
      BY <1>2, <2>1 DEF Collection
    <3>5. \A x \in v.since : lane'[x].base = lane[x].base \/ lane'[x].base = Nothing
      BY <1>4, <1>5 DEF Collection
    <3> QED BY <1>0, <3>1, <3>2, <3>3, <3>4, <3>5 DEF QuietFor
  <2>2. \A q \in Processes : /\ run'[q] \in Collection /\ view'[q] \in Collection
                             /\ Good(q, run'[q]) /\ Good(q, view'[q])
    <3>1. \A q \in Processes : Good(q, run[q]) /\ Good(q, view[q])
      BY DEF GoodCollections
    <3>2. \A q \in Processes : Good(q, run'[q]) /\ Good(q, view'[q])
      BY <1>8, <3>1, NarrowerGood
    <3> QED BY <1>8, <3>2
  <2>3. \A q \in Processes : view'[q].todo = {}
    BY <1>8 DEF GoodCollections, Narrower
  <2>4. \A x \in Lanes : got'[x] \in Collection /\ Good(ProcessOf[x], got'[x])
    <3>1. \A x \in Lanes : Good(ProcessOf[x], got[x])
      BY DEF GoodCollections
    <3> QED BY <1>8, <3>1, NarrowerGood
  <2>5. \A x \in Lanes : got'[x].todo = {} /\ got'[x].since = {}
    BY <1>8 DEF GoodCollections, Narrower
  <2>6. \A x \in Lanes : ProcessOf[x] \in Processes
    BY DEF Processes
  <2> QED BY <1>8, <1>9, <2>1, <2>2, <2>3, <2>4, <2>5, <2>6, CollectionsKept
<1>11. TargetsGrow'
  <2>1. \A u \in Targets : row'[u].known = row[u].known
    BY <1>2
  <2> QED BY <1>0, <1>8, <2>1 DEF TargetsGrow, Narrower
<1>12. NobodyAhead'
  <2>1. GoodRow(t)'
    BY <1>0, <1>2, <1>6, <1>7 DEF GoodRow, NobodyAhead
  <2>2. \A u \in Targets : GoodRow(u)'
    BY <1>0, <1>2, <2>1 DEF GoodRow, NobodyAhead
  <2>3. \A x \in Lanes, o \in Objects : lane'[x].base[o] <= world[o]
    BY <1>4, <1>5, <1>7, NothingType DEF NobodyAhead
  <2> QED BY <1>0, <2>2, <2>3 DEF NobodyAhead
<1>13. GoodLanes'
  <2> SUFFICES ASSUME NEW x \in Lanes PROVE GoodLane(x)'
    BY DEF GoodLanes
  <2>1. CASE x = w \/ lane[x].pc = "idle"
    BY <1>4, <1>5, <2>1 DEF GoodLane
  <2>2. CASE x # w /\ lane[x].pc # "idle"
    <3>1. PICK u : u = lane[x].on
      OBVIOUS
    <3>2. Owns(x, u) /\ HasBase(x, u) /\ HasGot(x, u) /\ HasConcluded(x, u)
      BY <2>2, <3>1 DEF GoodLanes, GoodLane, GoodStep
    <3>3. u \in Targets /\ u # t /\ row'[u] = row[u] /\ lane'[x] = lane[x]
      BY <1>1, <1>2, <1>3, <1>5, <2>2, <3>1, <3>2 DEF Owns
    <3>4. Owns(x, u)'
      BY <1>4, <1>5, <3>2, <3>3 DEF Owns
    <3>5. HasBase(x, u)' /\ HasConcluded(x, u)'
      BY <1>0, <3>2, <3>3 DEF HasBase, HasConcluded
    <3>6. HasGot(x, u)'
      BY <1>8, <3>2, <3>3 DEF HasGot, Narrower
    <3> QED BY <3>1, <3>3, <3>4, <3>5, <3>6 DEF GoodLane, GoodStep
  <2> QED BY <2>1, <2>2
<1>14. StillAwake'
  <2>1. row'[t].requested > row'[t].processed => row'[t].due \/ row'[t].backoff
    BY <1>1, <1>2, <1>6 DEF StillDue
  <2> QED BY <1>2, <2>1 DEF StillAwake
<1>15. ProcessedIsApplied'
  <2>1. ASSUME row'[t].processed = row'[t].requested, NEW o \in ObjectsOf[t]
        PROVE  row'[t].applied[o] >= row'[t].noted[o]
    <3>1. o \in Objects
      BY <1>2, ObservationAssumption
    <3>2. CASE row[t].processed = row[t].requested
      <4>1. row[t].applied[o] >= row[t].noted[o]
        BY <1>2, <3>2 DEF ProcessedIsApplied
      <4> QED BY <1>2, <1>7, <3>1, <4>1
    <3>3. CASE row[t].processed # row[t].requested
      <4>1. Covered(w) = row[t].requested /\ lane[w].ok
        BY <1>2, <1>6, <2>1, <3>3
      <4>2. row[t].requested <= lane[w].cov /\ lane[w].req = row[t].requested
        <5>1. lane[w].req <= row[t].requested
          BY <1>3 DEF Owns
        <5> QED BY <1>6, <4>1, <5>1 DEF Covered, Least
      <4>3. row[t].noted[o] <= lane[w].data[o]
        BY <1>3, <2>1, <3>1, <4>1, <4>2 DEF HasConcluded
      <4>4. row'[t].applied = lane[w].data
        BY <1>2, <4>1
      <4> QED BY <1>2, <1>7, <3>1, <4>3, <4>4
    <3> QED BY <3>2, <3>3
  <2> QED BY <1>2, <2>1 DEF ProcessedIsApplied
<1>16. HintsAreKept'
  BY <1>0 DEF HintsAreKept
<1> QED BY <1>9, <1>10, <1>11, <1>12, <1>13, <1>14, <1>15, <1>16

-----------------------------------------------------------------------------
(***************************************************************************)
(* The theorems.                                                           *)
(***************************************************************************)
LEMMA ObservationNext == ObservationInv /\ [Next]_vars => ObservationInv'
<1> SUFFICES ASSUME ObservationInv, [Next]_vars PROVE ObservationInv'
  OBVIOUS
<1>1. CASE UNCHANGED vars
  <2>1. /\ ObservationTypeOK' /\ TargetsGrow' /\ StillAwake' /\ HintsAreKept'
        /\ ProcessedIsApplied'
    BY <1>1 DEF vars, ObservationInv, ObservationTypeOK, TargetsGrow, StillAwake,
                HintsAreKept, ProcessedIsApplied
  <2>2. GoodCollections'
    BY <1>1 DEF vars, ObservationInv, GoodCollections, Good
  <2>3. NobodyAhead'
    BY <1>1 DEF vars, ObservationInv, NobodyAhead, GoodRow
  <2>4. GoodLanes'
    BY <1>1 DEF vars, ObservationInv, GoodLanes, GoodLane, GoodStep, Owns, HasBase, HasGot,
                HasConcluded
  <2> QED BY <2>1, <2>2, <2>3, <2>4 DEF ObservationInv
<1>2. CASE \/ \E o \in Objects : Change(o)
           \/ \E t \in Targets : Register(t) \/ Deadline(t)
  BY <1>2, WorldKeeps
<1>3. ASSUME NEW p \in Processes,
             \/ \E o \in Objects : Changed(p, o) \/ ListAll(p, o)
             \/ SourceBoundary(p) \/ Flush(p) \/ NotifyFails(p)
             \/ \E t \in Targets : Notify(p, t)
             \/ Collect(p) \/ Collected(p) \/ CollectFails(p) \/ Restart(p)
      PROVE  ObservationInv'
  BY <1>3, WatchKeeps, FlushKeeps, NotifyKeeps, CollectKeeps, CollectFailsKeeps, RestartKeeps
<1>4. ASSUME NEW w \in Lanes,
             \/ \E t \in Targets : Claim(w, t)
             \/ Snapshot(w) \/ ObserveAttachment(w) \/ CompleteDependencies(w)
             \/ ObserveResource(w) \/ ObserveTimesOut(w) \/ Finish(w)
      PROVE  ObservationInv'
  BY <1>4, ClaimKeeps, SnapshotKeeps, ObserveAttachmentKeeps, DependenciesKeep,
     ObserveResourceKeeps, TimeoutKeeps, FinishKeeps
<1> QED BY <1>1, <1>2, <1>3, <1>4 DEF Next

\* kc_observation.go: collections, rows, lanes and hints agree in every
\* reachable state, whatever was cleared, coalesced, restarted or broke off.
THEOREM ObservationInvariant == Spec => []ObservationInv
  BY ObservationInit, ObservationNext, PTL DEF Spec

\* changed, flush, NotifyResource, ReleaseLease: from the delivery of a change
\* to the row's next step nothing is lost.
THEOREM NoHintLost == Spec => []NoHintIsLost
<1>1. ObservationInv => NoHintIsLost
  BY DEF ObservationInv, NoHintIsLost, NoLostWakeup, StillAwake
<1> QED BY <1>1, ObservationInvariant, PTL

\* Only Finish writes facts, and what it writes was concluded from a collection
\* at least as new as the row.
LEMMA FactsAdvance ==
  ASSUME ObservationInv, [Next]_vars, NEW t \in Targets, NEW o \in Objects
  PROVE  row'[t].applied[o] >= row[t].applied[o]
<1> USE DEF ObservationInv
<1>1. row[t] \in Row /\ row[t].applied[o] \in Nat
  BY RowFields DEF ObservationTypeOK
<1>2. CASE row'[t].applied = row[t].applied
  BY <1>1, <1>2
<1>3. ASSUME NEW w \in Lanes, Finish(w) PROVE row'[t].applied[o] >= row[t].applied[o]
  <2>1. PICK u : u = lane[w].on
    OBVIOUS
  <2>2. CASE t # u
    BY <1>1, <1>3, <2>1, <2>2, FinishedRow
  <2>3. CASE t = u
    <3>1. lane[w].ok => row[t].applied[o] <= lane[w].data[o]
      BY <1>3, <2>1, <2>3 DEF Finish, GoodLanes, GoodLane, GoodStep, HasConcluded
    <3>2. row'[t].applied = IF lane[w].ok THEN lane[w].data ELSE row[t].applied
      BY <1>3, <2>1, <2>3, FinishedRow
    <3>3. lane[w].data[o] \in Nat
      BY LaneFields DEF ObservationTypeOK
    <3> QED BY <1>1, <3>1, <3>2, <3>3
  <2> QED BY <2>2, <2>3
<1>4. ASSUME NEW u \in Targets, Register(u) \/ Deadline(u) PROVE row'[t].applied = row[t].applied
  <2>1. \/ row' = [row EXCEPT ![u].known = TRUE, ![u].due = TRUE]
        \/ row' = [row EXCEPT ![u].due = TRUE, ![u].backoff = FALSE]
    BY <1>4 DEF Register, Deadline
  <2> QED BY <2>1 DEF ObservationTypeOK, Row
<1>5. ASSUME NEW u \in Targets, NEW p \in Processes, Notify(p, u)
      PROVE  row'[t].applied = row[t].applied
  <2>1. PICK m, d, n : row' = [row EXCEPT ![u].requested = m, ![u].due = d, ![u].noted = n]
    BY <1>5 DEF Notify
  <2> QED BY <2>1 DEF ObservationTypeOK, Row
<1>6. ASSUME UNCHANGED row PROVE row'[t].applied = row[t].applied
  BY <1>6
<1>7. CASE UNCHANGED vars
  BY <1>2, <1>7 DEF vars
<1>8. CASE \E x \in Objects : Change(x)
  BY <1>2, <1>8 DEF Change
<1>9. ASSUME NEW p \in Processes,
             \/ \E x \in Objects : Changed(p, x) \/ ListAll(p, x)
             \/ SourceBoundary(p) \/ Flush(p) \/ NotifyFails(p)
      PROVE  UNCHANGED row
  BY <1>9 DEF Changed, ListAll, SourceBoundary, Flush, NotifyFails
<1>10. ASSUME NEW p \in Processes, Collect(p) \/ Collected(p) \/ CollectFails(p) \/ Restart(p)
       PROVE  UNCHANGED row
  BY <1>10 DEF Collect, Collected, CollectFails, Restart
<1>11. ASSUME NEW w \in Lanes,
              \/ \E u \in Targets : Claim(w, u)
              \/ Snapshot(w) \/ ObserveAttachment(w) \/ CompleteDependencies(w)
              \/ ObserveResource(w) \/ ObserveTimesOut(w)
       PROVE  UNCHANGED row
  BY <1>11 DEF Claim, Snapshot, ObserveAttachment, CompleteDependencies, ObserveResource,
               ObserveTimesOut
<1> QED
  <2>1. CASE \E u \in Targets : Register(u) \/ Deadline(u)
    BY <1>2, <1>4, <2>1
  <2>2. ASSUME NEW p \in Processes,
               \/ \E x \in Objects : Changed(p, x) \/ ListAll(p, x)
               \/ SourceBoundary(p) \/ Flush(p) \/ NotifyFails(p)
               \/ \E u \in Targets : Notify(p, u)
               \/ Collect(p) \/ Collected(p) \/ CollectFails(p) \/ Restart(p)
        PROVE  row'[t].applied[o] >= row[t].applied[o]
    BY <1>2, <1>5, <1>6, <1>9, <1>10, <2>2
  <2>3. ASSUME NEW w \in Lanes,
               \/ \E u \in Targets : Claim(w, u)
               \/ Snapshot(w) \/ ObserveAttachment(w) \/ CompleteDependencies(w)
               \/ ObserveResource(w) \/ ObserveTimesOut(w) \/ Finish(w)
        PROVE  row'[t].applied[o] >= row[t].applied[o]
    BY <1>2, <1>3, <1>6, <1>11, <2>3
  <2> QED BY <1>7, <1>8, <2>1, <2>2, <2>3 DEF Next

\* Covers: the facts of a row never go back to an earlier state of an object,
\* whichever process claims it and however old the view that process holds.
THEOREM FactsOnlyAdvance == Spec => FactsNeverRegress
<1>1. ObservationInv /\ [Next]_vars =>
        [\A t \in Targets, o \in Objects : row'[t].applied[o] >= row[t].applied[o]]_vars
  BY FactsAdvance
<1> QED BY <1>1, ObservationInvariant, PTL DEF Spec, FactsNeverRegress

\* The steps in which a lane concludes.
LEMMA WhoConcludes ==
  ASSUME ObservationInv, [Next]_vars, NEW w \in Lanes, lane[w].pc \in {"wait", "use"},
         lane'[w].pc = "finish", lane'[w].ok
  PROVE  ObserveAttachment(w) \/ CompleteDependencies(w) \/ ObserveResource(w)
<1> USE DEF ObservationInv
<1>1. lane[w] \in LaneType /\ lane \in [Lanes -> LaneType]
  BY DEF ObservationTypeOK
<1>2. lane'[w] # lane[w]
  OBVIOUS
<1>3. NoStep.pc = "idle"
  BY DEF NoStep
<1>4. ASSUME NEW x \in Lanes, NEW t \in Targets, Claim(x, t) PROVE FALSE
  <2>1. lane[x].pc = "idle"
    BY <1>4 DEF Claim
  <2>2. lane'[w] = lane[w]
    BY <1>1, <1>4, <2>1 DEF Claim
  <2> QED BY <1>2, <2>2
<1>5. ASSUME NEW x \in Lanes, Snapshot(x) PROVE FALSE
  <2>1. lane' = [lane EXCEPT ![x].pc = "use"]
    BY <1>5 DEF Snapshot
  <2> QED BY <1>1, <1>2, <2>1 DEF LaneType
<1>6. ASSUME NEW x \in Lanes, ObserveTimesOut(x) PROVE FALSE
  <2>1. lane' = [lane EXCEPT ![x] = Fails(x)]
    BY <1>6 DEF ObserveTimesOut
  <2> QED BY <1>1, <1>2, <2>1, FailsType
<1>7. ASSUME NEW x \in Lanes, Finish(x) PROVE FALSE
  <2>1. lane' = [lane EXCEPT ![x] = NoStep]
    BY <1>7 DEF Finish
  <2> QED BY <1>1, <1>2, <1>3, <2>1
<1>8. ASSUME NEW p \in Processes, CollectFails(p) PROVE FALSE
  <2>1. lane'[w] = lane[w] \/ lane'[w] = Fails(w)
    BY <1>8 DEF CollectFails
  <2> QED BY <1>1, <1>2, <2>1, FailsType
<1>9. ASSUME NEW p \in Processes, Restart(p) PROVE FALSE
  <2>1. lane'[w] = lane[w] \/ lane'[w] = NoStep
    BY <1>9 DEF Restart
  <2> QED BY <1>2, <1>3, <2>1
<1>10. ASSUME NEW x \in Lanes, x # w,
              ObserveAttachment(x) \/ CompleteDependencies(x) \/ ObserveResource(x)
       PROVE  FALSE
  <2>1. lane'[w] = lane[w]
    BY <1>1, <1>10 DEF ObserveAttachment, CompleteDependencies, ObserveResource
  <2> QED BY <1>2, <2>1
<1>11. ASSUME UNCHANGED lane PROVE FALSE
  BY <1>2, <1>11
<1>12. CASE UNCHANGED vars
  BY <1>11, <1>12 DEF vars
<1>13. CASE \/ \E o \in Objects : Change(o)
            \/ \E t \in Targets : Register(t) \/ Deadline(t)
  BY <1>11, <1>13 DEF Change, Register, Deadline
<1>14. ASSUME NEW p \in Processes,
              \/ \E o \in Objects : Changed(p, o) \/ ListAll(p, o)
              \/ SourceBoundary(p) \/ Flush(p) \/ NotifyFails(p)
       PROVE  UNCHANGED lane
  BY <1>14 DEF Changed, ListAll, SourceBoundary, Flush, NotifyFails
<1>15. ASSUME NEW p \in Processes,
              (\E t \in Targets : Notify(p, t)) \/ Collect(p) \/ Collected(p)
       PROVE  UNCHANGED lane
  BY <1>15 DEF Notify, Collect, Collected
<1> QED
  <2>1. ASSUME NEW p \in Processes,
               \/ \E o \in Objects : Changed(p, o) \/ ListAll(p, o)
               \/ SourceBoundary(p) \/ Flush(p) \/ NotifyFails(p)
               \/ \E t \in Targets : Notify(p, t)
               \/ Collect(p) \/ Collected(p) \/ CollectFails(p) \/ Restart(p)
        PROVE  FALSE
    BY <1>8, <1>9, <1>11, <1>14, <1>15, <2>1
  <2>2. ASSUME NEW x \in Lanes,
               \/ \E t \in Targets : Claim(x, t)
               \/ Snapshot(x) \/ ObserveAttachment(x) \/ CompleteDependencies(x)
               \/ ObserveResource(x) \/ ObserveTimesOut(x) \/ Finish(x)
        PROVE  ObserveAttachment(w) \/ CompleteDependencies(w) \/ ObserveResource(w)
    BY <1>4, <1>5, <1>6, <1>7, <1>10, <2>2
  <2> QED BY <1>12, <1>13, <2>1, <2>2 DEF Next

\* A valid collection is not behind the Watch, and a removal's is not behind
\* the claim.
LEMMA Conclusion ==
  ASSUME ObservationInv, [Next]_vars, NEW w \in Lanes, lane[w].pc \in {"wait", "use"},
         lane'[w].pc = "finish", lane'[w].ok, NEW o \in ObjectsOf[lane[w].on]
  PROVE  /\ lane'[w].data[o] >= seen[ProcessOf[w]][o]
         /\ lane[w].pc = "use" /\ KindOf[lane[w].on] = "removal"
              => lane'[w].data[o] >= lane[w].base[o]
<1> USE DEF ObservationInv
<1>1. PICK t, p, g, v : t = lane[w].on /\ p = ProcessOf[w] /\ g = got[w] /\ v = view[p]
  OBVIOUS
<1>2. /\ lane[w] \in LaneType /\ p \in Processes /\ g \in Collection /\ v \in Collection
      /\ GoodStep(w, t) /\ t \in Targets /\ Good(p, g) /\ Good(p, v)
      /\ g.todo = {} /\ v.todo = {}
  <2>1. p \in Processes
    BY <1>1 DEF Processes
  <2>2. GoodStep(w, t)
    BY <1>1 DEF GoodLanes, GoodLane
  <2> QED BY <1>1, <2>1, <2>2 DEF ObservationTypeOK, GoodStep, Owns, GoodCollections
<1>3. o \in Objects /\ o \in ObjectsOf[t]
  BY <1>1, <1>2, ObservationAssumption
<1>4. /\ world[o] \in Nat /\ seen[p][o] \in Nat /\ lane[w].base[o] \in Nat
      /\ g.data[o] \in Nat /\ v.data[o] \in Nat /\ seen[p][o] <= world[o]
  BY <1>2, <1>3, StatesAreNat, LaneFields, CollectionFields DEF ObservationTypeOK, NobodyAhead
<1>5. ASSUME NEW c \in Collection, Good(p, c), c.on, c.todo = {}, Valid(c, ObjectsOf[t])
      PROVE  seen[p][o] <= c.data[o]
  BY <1>3, <1>5 DEF Good, Valid
<1>6. ASSUME NEW s \in States PROVE Restrict(t, s)[o] = s[o]
  BY <1>2, <1>3, <1>6, RestrictFacts
<1>7. g.data \in States /\ v.data \in States /\ world \in States
  BY <1>2, CollectionFields DEF ObservationTypeOK
<1>8. CASE ObserveAttachment(w)
  <2>1. Valid(g, ObjectsOf[t]) /\ lane'[w] = Concludes(w, g) /\ lane[w].pc = "use"
    <3>1. \/ Valid(g, ObjectsOf[t]) /\ lane' = [lane EXCEPT ![w] = Concludes(w, g)]
          \/ lane' = [lane EXCEPT ![w].pc = "wait", ![w].fresh = TRUE]
      BY <1>1, <1>8 DEF ObserveAttachment
    <3>2. lane' # [lane EXCEPT ![w].pc = "wait", ![w].fresh = TRUE]
      BY <1>2 DEF ObservationTypeOK, LaneType
    <3> QED BY <1>8, <3>1, <3>2 DEF ObserveAttachment, ObservationTypeOK
  <2>2. lane'[w].data[o] = g.data[o]
    BY <1>1, <1>2, <1>6, <1>7, <2>1, ConcludesType
  <2>3. g.on /\ KindOf[t] = "attachment"
    BY <1>1, <1>2, <1>8, <2>1 DEF GoodStep, HasGot, ObserveAttachment
  <2> QED BY <1>1, <1>2, <1>4, <1>5, <2>1, <2>2, <2>3
<1>9. CASE CompleteDependencies(w)
  <2>1. /\ lane'[w] = IF Valid(g, ObjectsOf[t])
                        THEN [Concludes(w, g) EXCEPT !.cov = lane[w].req] ELSE Fails(w)
        /\ lane[w].pc = "use" /\ KindOf[t] = "removal"
    BY <1>1, <1>9 DEF CompleteDependencies, ObservationTypeOK
  <2>2. Valid(g, ObjectsOf[t])
    BY <1>2, <2>1, FailsType
  <2>3. PICK c : c = Concludes(w, g)
    OBVIOUS
  <2>4. c \in LaneType /\ c.data = Restrict(t, g.data)
    BY <1>1, <1>2, <2>3, ConcludesType
  <2>5. lane'[w].data = Restrict(t, g.data)
    BY <2>1, <2>2, <2>3, <2>4 DEF LaneType
  <2>6. lane'[w].data[o] = g.data[o]
    BY <1>6, <1>7, <2>5
  <2>7. g.on /\ lane[w].base[o] <= g.data[o]
    BY <1>1, <1>2, <1>3, <2>1 DEF GoodStep, HasGot
  <2> QED BY <1>1, <1>2, <1>4, <1>5, <2>2, <2>6, <2>7
<1>10. CASE ObserveResource(w)
  <2>1. lane[w].pc = "wait"
    BY <1>10 DEF ObserveResource
  <2>2. CASE /\ v.on /\ Valid(v, ObjectsOf[t])
             /\ lane' = [lane EXCEPT ![w] = Concludes(w, v)]
    <3>1. lane'[w] = Concludes(w, v)
      BY <2>2 DEF ObservationTypeOK
    <3>2. lane'[w].data[o] = v.data[o]
      BY <1>1, <1>2, <1>6, <1>7, <3>1, ConcludesType
    <3> QED BY <1>1, <1>2, <1>4, <1>5, <2>1, <2>2, <3>2
  <2>3. CASE lane' = [lane EXCEPT ![w] =
               [lane[w] EXCEPT !.pc = "finish", !.ok = TRUE,
                               !.data = Restrict(t, world), !.cov = lane[w].req]]
    <3>1. lane'[w].data = Restrict(t, world)
      BY <1>2, <2>3 DEF ObservationTypeOK, LaneType
    <3> QED BY <1>1, <1>4, <1>6, <1>7, <2>1, <3>1
  <2> QED BY <1>1, <1>10, <2>2, <2>3 DEF ObserveResource
<1> QED BY <1>8, <1>9, <1>10, WhoConcludes

\* valid, refresh: what a lane concludes is not behind what the Watch of its
\* process had delivered, and a removal's dependency check shows everything
\* that existed when the row was claimed.
THEOREM ConclusionsCurrent == Spec => ConclusionsAreCurrent
<1>1. ObservationInv /\ [Next]_vars =>
        [\A w \in Lanes :
           LET p == ProcessOf[w]
               t == lane[w].on
           IN lane[w].pc \in {"wait", "use"} /\ lane'[w].pc = "finish" /\ lane'[w].ok
                => \A o \in ObjectsOf[t] : lane'[w].data[o] >= seen[p][o]]_vars
  BY Conclusion
<1>2. ObservationInv /\ [Next]_vars =>
        [\A w \in Lanes :
           lane[w].pc = "use" /\ KindOf[lane[w].on] = "removal"
             /\ lane'[w].pc = "finish" /\ lane'[w].ok
             => \A o \in ObjectsOf[lane[w].on] :
                  lane'[w].data[o] >= lane[w].base[o]]_vars
  BY Conclusion
<1> QED
  BY <1>1, <1>2, ObservationInvariant, PTL
  DEF Spec, ConclusionsAreCurrent, NotBehindWatch, DependenciesAreFresh
=============================================================================
