------------------------ MODULE LoadBalancerProofs ------------------------
(***************************************************************************)
(* A load balancer, for any members, lanes, configurations and failures    *)
(* (LBSafety): the order of its removal, the references and claims that    *)
(* cover what it has at the provider, one object per component, and        *)
(* nothing left when it is reported deleted.                               *)
(*                                                                         *)
(* LBInv adds why:                                                         *)
(*   - a POST that may land finds its row marked, no identity recorded and *)
(*     no object ever made, and there is one at most (GoodPost, OnePost);  *)
(*     an object that was made is marked or recorded (GoodComponent);      *)
(*   - one lane holds the fences; what it has noted of the components is   *)
(*     true of them until it records it (GoodNote), so is "deleted"        *)
(*     (GoodProgress);                                                     *)
(*   - a DELETE that a lane will send or has sent respects the order for   *)
(*     good, since nothing is created once the removal has been accepted   *)
(*     and a retired member never returns (SafeDelete).                    *)
(***************************************************************************)
EXTENDS LoadBalancer, FiniteSetTheorems, SequenceTheorems, TLAPS

-----------------------------------------------------------------------------
(* The inductive invariant. *)

States == {"none", "provisioning", "available", "degraded", "deleting", "deleted"}
Ending == {"deleting", "deleted"}

ObjectSpec == [ver : Nat, refs : SUBSET Members]
LBRecord   == [state : States, active : BOOLEAN, desired : Nat, applied : Nat, lease : BOOLEAN]
Component  == [row : BOOLEAN, uid : Nat, pending : {""} \cup Actions, deleted : BOOLEAN]
Object     == [phase : {"absent", "live", "terminating"}, uid : Nat, rv : Nat, spec : ObjectSpec]
Call       == [c : Components, action : Actions \cup {"none"}, spec : ObjectSpec]
Note       == [uid : Nat, clear : BOOLEAN, gone : BOOLEAN]
Progress   == [observed : BOOLEAN, comp : [Components -> Note], state : States, done : BOOLEAN]
Lane       == [at : {"idle", "claimed", "begin", "check", "sent", "finish"}, held : BOOLEAN,
               call : Call, prog : Progress]
Request    == [from : Workers, call : Call, rv : Nat]

Types ==
  /\ lb \in LBRecord /\ conf \in SUBSET Members /\ comp \in [Components -> Component]
  /\ claim \in BOOLEAN /\ lane \in [Workers -> Lane] /\ net \in SUBSET Request
  /\ obj \in [Components -> Object] /\ gen \in BOOLEAN /\ bound \in BOOLEAN

\* Where a POST for c may still come from.
Sending(w, c) == /\ lane[w].at = "check" /\ lane[w].call.c = c
                 /\ lane[w].call.action = "create"
IsPost(q, c)  == q.call.c = c /\ q.call.action = "create"

OnePost(c) ==
  /\ \A q1, q2 \in net : IsPost(q1, c) /\ IsPost(q2, c) => q1 = q2
  /\ \A w \in Workers : Sending(w, c) =>
       /\ \A q \in net : ~IsPost(q, c)
       /\ \A v \in Workers : Sending(v, c) => v = w

Gone(c) == ~Present(c)

GoodPost(c) ==
  PostMayLand(c) =>
    /\ obj[c].uid = 0
    /\ comp[c].pending = "create" /\ comp[c].uid = 0 /\ comp[c].row /\ ~comp[c].deleted

GoodComponent(c) ==
  /\ obj[c].uid \in {0, 1} /\ (obj[c].phase # "absent" => obj[c].uid = 1)
  /\ comp[c].uid \in {0, obj[c].uid}
  /\ obj[c].uid = 1 => comp[c].row /\ (comp[c].uid = 1 \/ comp[c].pending = "create")
  /\ comp[c].deleted => Gone(c)

\* The generated objects and the address follow the gateway.
GoodAddress ==
  /\ (gen \/ bound) => obj["gateway"].uid = 1
  /\ lb.state = "none" => \A c \in Components : ~comp[c].row
  /\ lb.state # "none" => \A c \in Components \ Members : comp[c].row
  /\ lb.state \notin {"none", "deleted"} => claim
  /\ conf \subseteq {m \in Members : comp[m].row}

AllGone == (\A c \in Components : Gone(c)) /\ ~gen /\ ~bound

GoodRefs ==
  /\ lb.state = "deleted" => AllGone
  /\ lb.state # "deleted" =>
       \A m \in Members : comp[m].row /\ ~comp[m].deleted => SubnetOf[m] \in refs

SafeDelete(c) ==
  /\ c = "gateway" => lb.state \in Ending /\ Gone("route") /\ Gone("policy")
  /\ c \in Members => comp[c].row
  /\ c \in conf =>
       /\ lb.state \in Ending /\ Gone("route") /\ Gone("gateway")
       /\ ~gen /\ ~bound

\* What the lane that holds the fences has noted of c.
GoodNote(c, note) ==
  /\ note.uid \in {0, obj[c].uid}
  /\ note.gone => Gone(c)
  /\ note.clear /\ comp[c].pending = "create" /\ comp[c].uid = 0 =>
       note.uid # 0 \/ (obj[c].uid = 0 /\ ~PostMayLand(c))

GoodProgress(p) ==
  /\ p.state # "none" /\ (p.state \in Ending <=> lb.state \in Ending)
  /\ lb.state = "deleted" => p.state = "deleted"
  /\ p.state = "deleted" => AllGone
  /\ \A c \in Components : GoodNote(c, p.comp[c])

GoodHolder(w) ==
  /\ lb.state # "none" /\ lane[w].at # "idle"
  /\ lane[w].at # "claimed" => GoodProgress(lane[w].prog)
  /\ lane[w].at \in {"begin", "check", "sent"} =>
       LET note == lane[w].prog.comp[lane[w].call.c] IN ~note.clear /\ ~note.gone
  /\ lane[w].at \in {"check", "sent"} =>
       comp[lane[w].call.c].pending = lane[w].call.action

GoodLane(w) ==
  /\ lane[w].held => GoodHolder(w) /\ \A v \in Workers : lane[v].held => v = w
  /\ lane[w].at \in {"claimed", "begin"} => lane[w].held
  /\ lane[w].at = "begin" => lane[w].call.action # "none" /\ comp[lane[w].call.c].row
  /\ lane[w].at \in {"begin", "check"} /\ lane[w].call.action = "delete" =>
       SafeDelete(lane[w].call.c)

LBInv ==
  /\ Types
  /\ \A c \in Components : OnePost(c) /\ GoodPost(c) /\ GoodComponent(c)
  /\ GoodAddress /\ GoodRefs
  /\ \A w \in Workers : GoodLane(w)
  /\ \A q \in net : q.call.action = "delete" => SafeDelete(q.call.c)

-----------------------------------------------------------------------------
(***************************************************************************)
(* What a step decides (LBStep).                                           *)
(***************************************************************************)
Judged(work) == {"gateway", "route", "policy"} \cup {m \in Members : work.comp[m].row}

\* The backends of the order are the members with a row, each once.
LEMMA BackendsAreRows ==
  ASSUME NEW work
  PROVE  /\ Backends(work) \in Seq({m \in Members : work.comp[m].row})
         /\ ToSet(Backends(work)) = {m \in Members : work.comp[m].row}
<1> DEFINE S == {m \in Members : work.comp[m].row}
           n == Cardinality(S)
           f == Backends(work)
<1>1. IsFiniteSet(S)
  BY LBAssumption, FS_Subset
<1>2. n \in Nat /\ ExistsBijection(1..n, S)
  BY <1>1, FS_CardinalityType
<1>3. \E g \in [1..n -> S] : IsInjective(g)
  <2>1. PICK g \in Bijection(1..n, S) : TRUE
    BY <1>2 DEF ExistsBijection
  <2> QED
    BY <2>1 DEF Bijection, Injection, IsInjective
<1>4. f \in [1..n -> S] /\ IsInjective(f)
  <2>1. f = CHOOSE g \in [1..n -> S] : IsInjective(g)
    BY DEF Backends, SetToSeq
  <2> HIDE DEF f, n, S
  <2> QED
    BY <1>3, <2>1
<1>5. f \in Injection(1..n, S)
  BY <1>4 DEF Injection, IsInjective
<1>6. IsFiniteSet(1..n) /\ Cardinality(1..n) = n
  BY <1>2, FS_Interval
<1>7. f \in Surjection(1..n, S)
  <2> HIDE DEF f, n, S
  <2>1. Cardinality(1..n) = Cardinality(S)
    BY <1>6 DEF n
  <2> QED
    BY <1>1, <1>5, <2>1, FS_Injection
<1>8. \A x \in S : \E i \in 1..n : f[i] = x
  <2> HIDE DEF f, n, S
  <2> QED
    BY <1>7 DEF Surjection
<1> HIDE DEF f, n, S
<1>9. f \in Seq(S) /\ DOMAIN f = 1..n
  BY <1>2, <1>4
<1>10. ToSet(f) = S
  BY <1>4, <1>8, <1>9 DEF ToSet
<1> QED
  BY <1>9, <1>10 DEF f, S

\* The loop only visits the rows.
LEMMA OrderIsJudged ==
  ASSUME NEW work, NEW seen
  PROVE  Order(work, seen) \in Seq(Judged(work))
<1> DEFINE B == Backends(work)
           J == Judged(work)
<1>1. B \in Seq(J)
  <2>1. {m \in Members : work.comp[m].row} \subseteq J
    BY DEF Judged
  <2> QED
    BY <2>1, BackendsAreRows, SeqMonotonic
<1>2. /\ <<"route", "policy">> \in Seq(J) /\ <<"route", "policy", "gateway">> \in Seq(J)
      /\ <<"route">> \in Seq(J) /\ <<"gateway", "policy">> \in Seq(J)
      /\ <<"gateway", "policy", "route">> \in Seq(J) /\ <<>> \in Seq(J)
  BY DEF Judged
<1>3. \A s, t \in Seq(J) : s \o t \in Seq(J)
  OBVIOUS
<1> HIDE DEF B, J
<1>4. /\ <<"route", "policy", "gateway">> \o (IF seen.released THEN B ELSE <<>>) \in Seq(J)
      /\ <<"route">> \o B \o <<"gateway", "policy">> \in Seq(J)
      /\ B \o <<"gateway", "policy", "route">> \in Seq(J)
  BY <1>1, <1>2, <1>3, Zenon
<1> QED
  BY <1>2, <1>4 DEF Order, B, J

\* Each component the loop reaches is one of the rows and has one verdict.
LEMMA ReachedVerdict ==
  ASSUME NEW work, NEW seen, NEW r \in Reached(work, seen)
  PROVE  r[1] \in Judged(work) /\ r = <<r[1], Verdict(work, seen, r[1])>>
<1> DEFINE order == Order(work, seen)
<1>1. PICK i \in DOMAIN order : r = <<order[i], Verdict(work, seen, order[i])>>
  BY DEF Reached
<1>2. order[i] \in Judged(work)
  BY OrderIsJudged
<1> QED
  BY <1>1, <1>2

\* During a removal the gateway comes after route and policy, and the backends
\* after all three, once what was generated is gone.
LEMMA RemovalOrder ==
  ASSUME NEW work, NEW seen, Deleting(work), NEW r \in Reached(work, seen)
  PROVE  /\ r[1] = "gateway" =>
              /\ Verdict(work, seen, "route") = "gone"
              /\ Verdict(work, seen, "policy") = "gone"
         /\ r[1] \in Members =>
              /\ Verdict(work, seen, "route") = "gone"
              /\ Verdict(work, seen, "policy") = "gone"
              /\ Verdict(work, seen, "gateway") = "gone"
              /\ seen.released
<1> DEFINE order == Order(work, seen)
           v     == [i \in DOMAIN order |-> Verdict(work, seen, order[i])]
<1>1. PICK k \in DOMAIN order :
        /\ r = <<order[k], v[k]>>
        /\ \A j \in 1..(k - 1) : KindOf(order[k]) # KindOf(order[j]) => v[j] = "gone"
  BY DEF Reached
<1>2. PICK T \in Seq(Members) :
        \/ order = <<"route", "policy">>
        \/ order = <<"route", "policy", "gateway">> \o T /\ (T = <<>> \/ seen.released)
  <2>1. Backends(work) \in Seq(Members)
    BY BackendsAreRows, SeqMonotonic
  <2>2. <<>> \in Seq(Members)
    OBVIOUS
  <2>3. CASE seen.foreign
    BY <2>2, <2>3 DEF Order
  <2>4. CASE ~seen.foreign /\ seen.released
    BY <2>1, <2>4 DEF Order
  <2>5. CASE ~seen.foreign /\ ~seen.released
    BY <2>2, <2>5 DEF Order
  <2> QED
    BY <2>3, <2>4, <2>5
<1>3. order \in Seq(Judged(work))
  BY OrderIsJudged
<1> HIDE DEF order
<1>4. \/ order = <<"route", "policy">>
      \/ /\ Len(order) = 3 + Len(T) /\ DOMAIN order = 1..Len(order)
         /\ order[1] = "route" /\ order[2] = "policy" /\ order[3] = "gateway"
         /\ \A i \in DOMAIN order : i > 3 => order[i] \in Members /\ seen.released
  <2> DEFINE head == <<"route", "policy", "gateway">>
  <2> SUFFICES ASSUME order = head \o T, T = <<>> \/ seen.released
               PROVE  /\ Len(order) = 3 + Len(T) /\ DOMAIN order = 1..Len(order)
                      /\ order[1] = "route" /\ order[2] = "policy" /\ order[3] = "gateway"
                      /\ \A i \in DOMAIN order : i > 3 => order[i] \in Members /\ seen.released
    BY <1>2
  <2>1. Len(T) \in Nat /\ (T = <<>> => Len(T) = 0) /\ \A i \in 1..Len(T) : T[i] \in Members
    BY ElementOfSeq
  <2>2. head \in Seq(Components) /\ T \in Seq(Components) /\ Len(head) = 3
    <3>1. T \in Seq(Components)
      BY SeqMonotonic, Zenon DEF Components
    <3>2. head \in Seq({"route", "policy", "gateway"}) /\ Len(head) = 3
      OBVIOUS
    <3>3. head \in Seq(Components)
      BY <3>2 DEF Components
    <3> QED
      BY <3>1, <3>2, <3>3
  <2>3. /\ Len(order) = 3 + Len(T)
        /\ \A i \in 1..3 + Len(T) : order[i] = IF i <= 3 THEN head[i] ELSE T[i - 3]
    BY <2>2, ConcatProperties
  <2>4. DOMAIN order = 1..Len(order)
    BY <1>3
  <2>5. order[1] = "route" /\ order[2] = "policy" /\ order[3] = "gateway"
    BY <2>1, <2>3
  <2>6. ASSUME NEW i \in DOMAIN order, i > 3 PROVE order[i] \in Members /\ seen.released
    <3>1. i - 3 \in 1..Len(T) /\ order[i] = T[i - 3]
      BY <2>1, <2>3, <2>4, <2>6
    <3> QED
      BY <2>1, <3>1
  <2> QED
    BY <2>3, <2>4, <2>5, <2>6
<1>5. {"gateway", "route", "policy"} \cap Members = {}
  BY LBAssumption
<1>6. /\ KindOf("gateway") # KindOf("route") /\ KindOf("gateway") # KindOf("policy")
      /\ \A m \in Members : /\ KindOf(m) # KindOf("route") /\ KindOf(m) # KindOf("policy")
                            /\ KindOf(m) # KindOf("gateway")
  BY <1>5 DEF KindOf
<1>7. r[1] = order[k]
  BY <1>1
<1>8. CASE r[1] = "gateway"
  <2>1. k = 3 /\ 1 \in DOMAIN order /\ 2 \in DOMAIN order
    <3>1. order # <<"route", "policy">>
      <4> SUFFICES ASSUME order = <<"route", "policy">> PROVE FALSE
        OBVIOUS
      <4>1. k \in {1, 2} /\ order[1] = "route" /\ order[2] = "policy"
        OBVIOUS
      <4>2. order[k] \in {"route", "policy"}
        BY <4>1
      <4> QED
        BY <1>7, <1>8, <4>2
    <3>2. ~(k > 3) /\ k # 1 /\ k # 2
      BY <1>4, <1>5, <1>7, <1>8, <3>1
    <3> QED
      BY <1>4, <3>1, <3>2
  <2>2. v[1] = "gone" /\ v[2] = "gone"
    BY <1>1, <1>4, <1>6, <1>7, <1>8, <2>1
  <2> QED
    BY <1>4, <1>5, <1>8, <2>1, <2>2
<1>9. CASE r[1] \in Members
  <2>1. order # <<"route", "policy">>
    BY <1>5, <1>7, <1>9
  <2>2. k > 3
    <3>1. k # 1 /\ k # 2 /\ k # 3
      BY <1>4, <1>5, <1>7, <1>9, <2>1
    <3> QED
      BY <1>4, <2>1, <3>1
  <2>3. {1, 2, 3} \subseteq DOMAIN order /\ {1, 2, 3} \subseteq 1..(k - 1) /\ seen.released
    BY <1>4, <2>1, <2>2
  <2>4. order[1] = "route" /\ order[2] = "policy" /\ order[3] = "gateway"
    BY <1>4, <2>1
  <2>5. v[1] = "gone" /\ v[2] = "gone" /\ v[3] = "gone"
    BY <1>1, <1>6, <1>7, <1>9, <2>3, <2>4
  <2> QED
    BY <1>5, <1>9, <2>3, <2>4, <2>5
<1> QED
  BY <1>8, <1>9

\* What a verdict says of its component.
LEMMA Verdicts ==
  ASSUME NEW work, NEW seen, NEW c
  PROVE  LET v == Verdict(work, seen, c)
         IN /\ v = "gone" => /\ ~Exists(seen, c) /\ work.comp[c].pending # "create"
                             /\ Removes(work, c)
            /\ v = "delete" => Removes(work, c)
            /\ v \in {"create", "update", "ready"} => ~Removes(work, c)
            /\ v = "update" => ~Matches(work, seen, c)
            /\ v = "create" => ~Exists(seen, c)
BY DEF Verdict

\* A removal is complete when every row's component is gone.
LEMMA RemovalDone ==
  ASSUME NEW work, NEW seen, Deleting(work), AllReady(work, seen, Reached(work, seen))
  PROVE  seen.released /\ \A c \in Judged(work) : Verdict(work, seen, c) = "gone"
<1> DEFINE order == Order(work, seen)
           head  == <<"route", "policy", "gateway">>
           B     == Backends(work)
<1>1. seen.released /\ ~seen.foreign
  BY DEF AllReady
<1>2. order = head \o B
  BY <1>1 DEF Order
<1>3. B \in Seq(Components) /\ ToSet(B) = {m \in Members : work.comp[m].row}
  BY BackendsAreRows, SeqMonotonic DEF Components
<1>4. head \in Seq(Components) /\ Len(head) = 3 /\ head[1] = "route" /\ head[2] = "policy"
      /\ head[3] = "gateway"
  BY DEF Components
<1> HIDE DEF B, head
<1>5. /\ head \o B \in Seq(Components) /\ Len(head \o B) = 3 + Len(B) /\ Len(B) \in Nat
      /\ \A i \in 1..3 + Len(B) : (head \o B)[i] = IF i <= 3 THEN head[i] ELSE B[i - 3]
  <2>1. Len(B) \in Nat
    BY <1>3, LenProperties
  <2>2. /\ head \o B \in Seq(Components) /\ Len(head \o B) = Len(head) + Len(B)
        /\ \A i \in 1..Len(head) + Len(B) :
             (head \o B)[i] = IF i <= Len(head) THEN head[i] ELSE B[i - Len(head)]
    BY <1>3, <1>4, ConcatProperties
  <2> QED
    BY <1>4, <2>1, <2>2, Zenon
<1>6. DOMAIN (head \o B) = 1..3 + Len(B)
  BY <1>5
<1>7. ASSUME NEW c \in Judged(work) PROVE \E i \in 1..3 + Len(B) : (head \o B)[i] = c
  <2>1. (head \o B)[1] = "route" /\ (head \o B)[2] = "policy" /\ (head \o B)[3] = "gateway"
    BY <1>4, <1>5
  <2>2. CASE c \in {"gateway", "route", "policy"}
    BY <1>5, <2>1, <2>2
  <2>3. CASE c \in Members /\ work.comp[c].row
    <3>1. PICK j \in DOMAIN B : B[j] = c
      BY <1>3, <2>3 DEF ToSet
    <3>2. j \in 1..Len(B)
      BY <1>3
    <3>3. j + 3 \in 1..3 + Len(B) /\ (head \o B)[j + 3] = c
      BY <1>5, <3>1, <3>2
    <3> QED
      BY <3>3
  <2> QED
    BY <2>2, <2>3 DEF Judged
<1>8. ASSUME NEW c \in Judged(work) PROVE Verdict(work, seen, c) = "gone"
  <2>1. c \in ToSet(order)
    BY <1>2, <1>6, <1>7 DEF ToSet
  <2>2. PICK r \in Reached(work, seen) : r[1] = c /\ r[2] \in {"gone", "ready"}
    BY <2>1 DEF AllReady
  <2>3. Verdict(work, seen, c) \in {"gone", "ready"}
    BY <2>2, ReachedVerdict
  <2> QED
    BY <2>3, Verdicts DEF Removes
<1> QED
  BY <1>1, <1>8

-----------------------------------------------------------------------------
(***************************************************************************)
(* The lane that holds the fences concludes from what it observes.         *)
(***************************************************************************)
\* The components are the three singletons and one backend per member.
LEMMA Names ==
  /\ {"gateway", "route", "policy"} \subseteq Components /\ Members \subseteq Components
  /\ {"gateway", "route", "policy"} \cap Members = {}
  BY LBAssumption DEF Components

\* The claimed work is the rows, and the observation the objects.
LEMMA WorkFacts ==
  /\ Work.state = lb.state /\ Work.active = lb.active /\ Work.desired = lb.desired
  /\ Work.applied = lb.applied /\ Work.conf = conf /\ Work.comp = comp
  /\ (Deleting(Work) <=> lb.state \in Ending)
  /\ Seen.obj = obj /\ (Seen.released => Released)
  BY DEF Work, Seen, Deleting, Ending

\* A component that is not there and has no creation pending is gone.
LEMMA NotThere ==
  ASSUME LBInv, NEW c \in Components, ~Exists(Seen, c), comp[c].pending # "create"
  PROVE  Gone(c)
  BY WorkFacts DEF LBInv, Exists, Gone, Present, GoodPost

\* A component judged gone is gone, and no POST can bring it back.
LEMMA VerdictGone ==
  ASSUME LBInv, NEW c \in Components, Verdict(Work, Seen, c) = "gone"
  PROVE  Gone(c)
  BY Verdicts, NotThere, WorkFacts

\* Every component the loop visits has its row.
LEMMA JudgedRows ==
  ASSUME LBInv, lb.state # "none", NEW c \in Judged(Work)
  PROVE  c \in Components /\ comp[c].row
  BY Names, WorkFacts DEF Judged, LBInv, GoodAddress

\* A DELETE that the loop decides on respects the order of the removal.
LEMMA DeleteIsSafe ==
  ASSUME LBInv, lb.state # "none", NEW r \in Reached(Work, Seen), r[2] = "delete"
  PROVE  SafeDelete(r[1])
<1>1. Removes(Work, r[1]) /\ comp[r[1]].row
  BY ReachedVerdict, Verdicts, JudgedRows
<1>2. CASE lb.state \in Ending
  <2>1. /\ r[1] = "gateway" => Gone("route") /\ Gone("policy")
        /\ r[1] \in Members => Gone("route") /\ Gone("gateway") /\ Released
    BY <1>2, RemovalOrder, VerdictGone, WorkFacts, Names
  <2> QED
    BY <1>1, <1>2, <2>1 DEF SafeDelete, Released, LBInv, Types
<1>3. CASE lb.state \notin Ending
  <2>1. r[1] \in Members \ conf
    BY <1>1, <1>3, WorkFacts DEF Removes, Retired
  <2> QED
    BY <1>1, <2>1, Names DEF SafeDelete
<1> QED
  BY <1>2, <1>3

\* Without a row there is neither an object nor a POST.
LEMMA RowOrNothing ==
  ASSUME LBInv, NEW c \in Components, ~comp[c].row
  PROVE  obj[c].uid = 0 /\ ~PostMayLand(c) /\ Gone(c)
  BY DEF LBInv, GoodPost, GoodComponent, Gone, Present

\* What a lane notes of its observation is true, and its request is in order.
LEMMA ObserveFacts ==
  ASSUME LBInv, lb.state # "none"
  PROVE  LET reached == Reached(Work, Seen)
             p       == LBProgress(Work, Seen, reached)
         IN /\ p \in Progress /\ GoodProgress(p)
            /\ \A r \in Requests(reached) :
                 /\ r[1] \in Components /\ comp[r[1]].row /\ r[2] \in Actions
                 /\ ~p.comp[r[1]].clear /\ ~p.comp[r[1]].gone
                 /\ r[2] = "delete" => SafeDelete(r[1])
                 /\ DesiredSpec(Work, Seen, r[1]) \in ObjectSpec
<1> DEFINE reached == Reached(Work, Seen)
           p       == LBProgress(Work, Seen, reached)
           Of(c)   == Noted(Work, Seen, reached, c)
<1>1. ASSUME NEW c \in Components
      PROVE  Of(c) \in Note /\ GoodNote(c, Of(c))
  <2>1. Of(c).uid = IF obj[c].phase # "absent" THEN obj[c].uid ELSE 0
    BY WorkFacts DEF Noted, Exists
  <2>2. /\ Of(c).gone <=> <<c, "gone">> \in reached
        /\ Of(c).clear => Of(c).gone \/ obj[c].phase # "absent"
        /\ Of(c) = [uid |-> Of(c).uid, clear |-> Of(c).clear, gone |-> Of(c).gone]
        /\ Of(c).clear \in BOOLEAN /\ Of(c).gone \in BOOLEAN
    <3> DEFINE gone   == <<c, "gone">> \in reached
               judged == {<<c, "ready">>, <<c, "unready">>} \cap reached # {}
               match  == Matches(Work, Seen, c) /\ Work.comp[c].pending # "delete"
               clear  == gone \/ (match /\ judged)
    <3>1. Of(c) = [uid |-> IF Exists(Seen, c) THEN Seen.obj[c].uid ELSE 0,
                   clear |-> clear, gone |-> gone]
      BY Zenon DEF Noted
    <3>2. match => obj[c].phase # "absent"
      BY WorkFacts DEF Matches, Exists
    <3>3. gone \in BOOLEAN /\ clear \in BOOLEAN /\ (clear => gone \/ obj[c].phase # "absent")
      BY <3>2
    <3> HIDE DEF gone, clear, Of
    <3>4. Of(c).clear = clear /\ Of(c).gone = gone
      BY <3>1
    <3> QED
      BY <3>1, <3>3, <3>4 DEF gone
  <2>3. Of(c).gone => Verdict(Work, Seen, c) = "gone"
    <3> SUFFICES ASSUME <<c, "gone">> \in reached PROVE Verdict(Work, Seen, c) = "gone"
      BY <2>2
    <3> QED
      BY ReachedVerdict
  <2>4. Of(c).gone => Gone(c) /\ comp[c].pending # "create"
    BY <2>3, VerdictGone, Verdicts, WorkFacts
  <2>5. obj[c].uid \in Nat /\ (obj[c].phase # "absent" => obj[c].uid = 1)
    BY DEF LBInv, Types, Object, GoodComponent
  <2>6. Of(c).uid \in Nat
    BY <2>1, <2>5
  <2>7. Of(c) \in Note
    BY <2>2, <2>6 DEF Note
  <2> HIDE DEF Of
  <2>8. GoodNote(c, Of(c))
    BY <2>1, <2>2, <2>4, <2>5 DEF GoodNote
  <2> QED
    BY <2>7, <2>8
<1>2. p.comp = [c \in Components |-> Of(c)] /\ p.observed = TRUE
  BY DEF LBProgress
<1>3. /\ p.state \in States \ {"none"} /\ (p.state \in Ending <=> lb.state \in Ending)
      /\ lb.state = "deleted" => p.state = "deleted"
      /\ p.done \in BOOLEAN
  BY WorkFacts DEF LBProgress, LBInv, Types, LBRecord, States, Ending, Deleting, AllReady
<1>4. p.state = "deleted" =>
        lb.state = "deleted" \/ (Deleting(Work) /\ AllReady(Work, Seen, reached))
  BY WorkFacts DEF LBProgress, Deleting
<1>5. ASSUME p.state = "deleted" PROVE AllGone
  <2>1. CASE lb.state = "deleted"
    BY <2>1 DEF LBInv, GoodRefs
  <2>2. CASE Deleting(Work) /\ AllReady(Work, Seen, reached)
    <3>1. Released /\ \A c \in Judged(Work) : Verdict(Work, Seen, c) = "gone"
      BY <2>2, RemovalDone, WorkFacts
    <3>2. ASSUME NEW c \in Components PROVE Gone(c)
      <4>1. CASE c \in Judged(Work)
        BY <3>1, <4>1, VerdictGone
      <4>2. CASE c \notin Judged(Work)
        BY <4>2, WorkFacts, RowOrNothing DEF Judged, Components
      <4> QED
        BY <4>1, <4>2
    <3> QED
      BY <3>1, <3>2 DEF AllGone, Released
  <2> QED
    BY <1>4, <1>5, <2>1, <2>2
<1>6. GoodProgress(p)
  <2> HIDE DEF p
  <2> QED
    BY <1>1, <1>2, <1>3, <1>5 DEF GoodProgress
<1>7. p \in Progress
  <2>1. p = [observed |-> p.observed, comp |-> p.comp, state |-> p.state, done |-> p.done]
    BY DEF LBProgress
  <2>2. p.comp \in [Components -> Note]
    BY <1>1, <1>2
  <2> HIDE DEF p
  <2> QED
    BY <1>2, <1>3, <2>1, <2>2 DEF Progress
<1>8. ASSUME NEW r \in Requests(reached)
      PROVE  /\ r[1] \in Components /\ comp[r[1]].row /\ r[2] \in Actions
             /\ ~p.comp[r[1]].clear /\ ~p.comp[r[1]].gone
             /\ r[2] = "delete" => SafeDelete(r[1])
             /\ DesiredSpec(Work, Seen, r[1]) \in ObjectSpec
  <2>1. r \in reached /\ r[2] \in Actions
    BY DEF Requests
  <2>2. /\ r[1] \in Components /\ comp[r[1]].row
        /\ r[2] = Verdict(Work, Seen, r[1])
    BY <2>1, ReachedVerdict, JudgedRows
  <2>3. \A x : <<r[1], x>> \in reached => x \in Actions
    BY <2>1, <2>2, ReachedVerdict
  <2>4. ~Of(r[1]).clear /\ ~Of(r[1]).gone
    <3>1. /\ <<r[1], "gone">> \notin reached /\ <<r[1], "ready">> \notin reached
          /\ <<r[1], "unready">> \notin reached
      BY <2>3 DEF Actions
    <3>2. {<<r[1], "ready">>, <<r[1], "unready">>} \cap reached = {}
      BY <3>1
    <3> HIDE DEF reached
    <3> QED
      BY <3>1, <3>2 DEF Noted
  <2>5. ~p.comp[r[1]].clear /\ ~p.comp[r[1]].gone
    BY <1>2, <2>2, <2>4
  <2>6. DesiredSpec(Work, Seen, r[1]) \in ObjectSpec
    BY WorkFacts DEF DesiredSpec, ObjectSpec, LBInv, Types, LBRecord
  <2> QED
    BY <2>1, <2>2, <2>5, <2>6, DeleteIsSafe
<1> QED
  BY <1>6, <1>7, <1>8

-----------------------------------------------------------------------------
(***************************************************************************)
(* Steps that leave the rows alone: requests arrive and are answered,      *)
(* objects come and go.  An object only comes with the POST it takes, and  *)
(* the generated ones only with the gateway.                               *)
(***************************************************************************)
Advance ==
  /\ UNCHANGED <<conf, comp, refs, claim>> /\ lb'.state = lb.state
  /\ \A c \in Components :
       /\ PostMayLand(c)' => PostMayLand(c)
       /\ \/ obj'[c].uid = obj[c].uid /\ (obj[c].phase = "absent" => obj'[c].phase = "absent")
          \/ PostMayLand(c) /\ ~PostMayLand(c)' /\ obj'[c].uid = 1
  /\ gen' => gen \/ obj["gateway"].phase # "absent"
  /\ bound' => bound \/ gen

\* What is gone stays gone.
LEMMA GoneStays ==
  ASSUME Advance, NEW c \in Components, Gone(c)
  PROVE  Gone(c)'
  BY DEF Advance, Gone, Present

\* Nothing comes back after everything has gone.
LEMMA AllGoneStays ==
  ASSUME Advance, AllGone
  PROVE  AllGone'
<1>1. \A c \in Components : Gone(c)'
  BY GoneStays DEF AllGone
<1>2. ~gen' /\ ~bound'
  BY Names DEF AllGone, Advance, Gone, Present
<1> QED
  BY <1>1, <1>2 DEF AllGone

\* A DELETE that respects the order goes on doing so.
LEMMA DeleteStaysSafe ==
  ASSUME Advance, NEW c \in Components, SafeDelete(c)
  PROVE  SafeDelete(c)'
<1>1. /\ Gone("route") => Gone("route")'
      /\ Gone("policy") => Gone("policy")'
      /\ Gone("gateway") => Gone("gateway")'
  BY GoneStays, Names
<1>2. Gone("gateway") /\ ~gen /\ ~bound => ~gen' /\ ~bound'
  BY DEF Advance, Gone, Present
<1>3. conf' = conf /\ comp' = comp /\ lb'.state = lb.state
  BY DEF Advance
<1> QED
  BY <1>1, <1>2, <1>3 DEF SafeDelete

\* What is noted of a component stays true.
LEMMA NoteStaysGood ==
  ASSUME LBInv, Advance, NEW c \in Components, NEW note, GoodNote(c, note)
  PROVE  GoodNote(c, note)'
<1>1. note.gone => Gone(c)'
  BY GoneStays DEF GoodNote
<1>2. /\ comp' = comp /\ (PostMayLand(c)' => PostMayLand(c))
      /\ \/ obj'[c].uid = obj[c].uid
         \/ PostMayLand(c) /\ obj'[c].uid = 1 /\ obj[c].uid = 0
  BY DEF Advance, LBInv, GoodPost
<1> QED
  BY <1>1, <1>2 DEF GoodNote

\* What a lane will record stays true.
LEMMA ProgressStaysGood ==
  ASSUME LBInv, Advance, NEW p, GoodProgress(p)
  PROVE  GoodProgress(p)'
<1>1. lb'.state = lb.state
  BY DEF Advance
<1>2. \A c \in Components : GoodNote(c, p.comp[c])'
  BY NoteStaysGood DEF GoodProgress
<1>3. p.state = "deleted" => AllGone'
  BY AllGoneStays DEF GoodProgress
<1> QED
  BY <1>1, <1>2, <1>3 DEF GoodProgress

\* Rows and objects go on agreeing.
LEMMA RowsAtRest ==
  ASSUME LBInv, Advance
  PROVE  /\ \A c \in Components : GoodPost(c)' /\ GoodComponent(c)'
         /\ GoodAddress' /\ GoodRefs'
<1>1. UNCHANGED <<conf, comp, refs, claim>> /\ lb'.state = lb.state
  BY DEF Advance
<1>2. ASSUME NEW c \in Components
      PROVE  GoodPost(c)' /\ GoodComponent(c)'
  <2>1. GoodPost(c) /\ GoodComponent(c)
    BY DEF LBInv
  <2>2. GoodPost(c)'
    BY <1>1, <2>1 DEF Advance, GoodPost
  <2>3. comp[c].deleted => Gone(c)'
    BY <2>1, GoneStays DEF GoodComponent
  <2>4. GoodComponent(c)'
    BY <1>1, <2>1, <2>3 DEF Advance, GoodPost, GoodComponent
  <2> QED
    BY <2>2, <2>4
<1>3. GoodAddress'
  <2>1. (gen' \/ bound') => obj'["gateway"].uid = 1
    BY Names DEF Advance, LBInv, GoodAddress, GoodComponent
  <2> QED
    BY <1>1, <2>1 DEF LBInv, GoodAddress
<1>4. GoodRefs'
  BY <1>1, AllGoneStays DEF LBInv, GoodRefs
<1> QED
  BY <1>2, <1>3, <1>4

\* A lane that does nothing, while no other begins to hold the fences.
LEMMA LaneAtRest ==
  ASSUME LBInv, Advance, NEW w \in Workers, lane'[w] = lane[w],
         \A v \in Workers : lane'[v].held => lane[v].held
  PROVE  GoodLane(w)'
<1>1. GoodLane(w) /\ lane[w].call.c \in Components
  BY DEF LBInv, Types, Lane, Call
<1>2. comp' = comp /\ lb'.state = lb.state
  BY DEF Advance
<1>3. PICK p, k : p = lane[w].prog /\ k = lane[w].call.c
  OBVIOUS
<1>4. GoodProgress(p) => GoodProgress(p)'
  BY ProgressStaysGood
<1>5. SafeDelete(k) => SafeDelete(k)'
  BY <1>1, <1>3, DeleteStaysSafe
<1>6. lane'[w].held /\ lane'[w].at # "claimed" => GoodProgress(lane[w].prog)'
  <2>1. lane'[w].held /\ lane'[w].at # "claimed" => GoodProgress(p)'
    BY <1>1, <1>3, <1>4 DEF GoodLane, GoodHolder
  <2> QED
    BY <1>3, <2>1 DEF GoodProgress, GoodNote
<1>7. lane'[w].held => GoodHolder(w)'
  BY <1>1, <1>2, <1>6 DEF GoodLane, GoodHolder
<1>8. lane'[w].at \in {"begin", "check"} /\ lane'[w].call.action = "delete" =>
        SafeDelete(lane[w].call.c)'
  <2>1. lane'[w].at \in {"begin", "check"} /\ lane'[w].call.action = "delete" => SafeDelete(k)'
    BY <1>1, <1>3, <1>5 DEF GoodLane
  <2> QED
    BY <1>3, <2>1 DEF SafeDelete
<1> QED
  BY <1>1, <1>2, <1>7, <1>8 DEF GoodLane

\* A POST may land from the network or from a lane about to send it.
LEMMA Posts ==
  ASSUME NEW c
  PROVE  PostMayLand(c) <=> (\E q \in net : IsPost(q, c)) \/ \E w \in Workers : Sending(w, c)
  BY DEF PostMayLand, IsPost, Sending

\* Requests that arrive or are given up leave fewer POSTs.
LEMMA FewerPosts ==
  ASSUME LBInv, net' \subseteq net,
         \A w \in Workers, c \in Components : Sending(w, c)' => Sending(w, c)
  PROVE  \A c \in Components : OnePost(c)' /\ (PostMayLand(c)' => PostMayLand(c))
<1> SUFFICES ASSUME NEW c \in Components
             PROVE  OnePost(c)' /\ (PostMayLand(c)' => PostMayLand(c))
  OBVIOUS
<1>1. OnePost(c)
  BY DEF LBInv
<1>2. OnePost(c)'
  BY <1>1 DEF OnePost, IsPost
<1>3. PostMayLand(c)' => (\E q \in net' : IsPost(q, c)) \/ \E w \in Workers : Sending(w, c)'
  BY DEF PostMayLand, IsPost, Sending
<1> QED
  BY <1>2, <1>3, Posts

\* The rest of the invariant after a step that leaves the rows alone.
LEMMA StepAtRest ==
  ASSUME LBInv, Advance, Types',
         \A c \in Components : OnePost(c)',
         \A w \in Workers : GoodLane(w)',
         \A q \in net' : q.call.action = "delete" => q \in net \/ SafeDelete(q.call.c)
  PROVE  LBInv'
<1>1. \A c \in Components : GoodPost(c)' /\ GoodComponent(c)'
  BY RowsAtRest
<1>2. GoodAddress' /\ GoodRefs'
  BY RowsAtRest
<1>3. ASSUME NEW q \in net', q.call.action = "delete" PROVE SafeDelete(q.call.c)'
  <2>1. q.call.c \in Components
    BY DEF Types, Request, Call
  <2>2. SafeDelete(q.call.c)
    BY <1>3 DEF LBInv
  <2> QED
    BY <2>1, <2>2, DeleteStaysSafe
<1> QED
  BY <1>1, <1>2, <1>3 DEF LBInv

\* What LBAnswered changes of a conclusion.
LEMMA Answered ==
  ASSUME NEW p \in Progress, NEW c \in Components, NEW action, NEW answer, NEW uid \in Nat
  PROVE  LET after == LBAnswered(p, c, action, answer, uid)
         IN /\ after \in Progress /\ after.state = p.state
            /\ \A d \in Components : d # c => after.comp[d] = p.comp[d]
            /\ after.comp[c].uid \in {p.comp[c].uid, uid}
            /\ answer = "ok" /\ uid # 0 => after.comp[c].uid = uid
            /\ after.comp[c].gone = p.comp[c].gone
            /\ answer = "uncertain" => ~after.comp[c].clear
<1> DEFINE note == [uid   |-> IF answer = "ok" /\ uid # 0 THEN uid ELSE p.comp[c].uid,
                    clear |-> IF answer = "ok" THEN action # "delete" ELSE answer # "uncertain",
                    gone  |-> p.comp[c].gone]
           all  == [p.comp EXCEPT ![c] = note]
<1>1. LBAnswered(p, c, action, answer, uid) = [p EXCEPT !.comp = all]
  BY DEF LBAnswered, Progress
<1>2. note \in Note
  BY DEF Progress, Note
<1>3. /\ note.uid \in {p.comp[c].uid, uid} /\ (answer = "ok" /\ uid # 0 => note.uid = uid)
      /\ note.gone = p.comp[c].gone /\ (answer = "uncertain" => ~note.clear)
  OBVIOUS
<1> HIDE DEF note
<1>4. /\ all \in [Components -> Note] /\ all[c] = note
      /\ \A d \in Components : d # c => all[d] = p.comp[d]
  BY <1>2 DEF Progress
<1> HIDE DEF all
<1>5. /\ [p EXCEPT !.comp = all] \in Progress /\ [p EXCEPT !.comp = all].comp = all
      /\ [p EXCEPT !.comp = all].state = p.state
  BY <1>4 DEF Progress
<1> QED
  BY <1>1, <1>3, <1>4, <1>5

\* A lane with a request learns how it ended.
LEMMA Concluded ==
  ASSUME LBInv, Advance, NEW w \in Workers, lane[w].at \in {"check", "sent"},
         NEW answer, NEW uid \in Nat, Concludes(w, answer, uid),
         NEW c, c = lane[w].call.c, uid \in {0, obj'[c].uid},
         lane[w].call.action = "create" =>
           \/ answer = "ok" /\ uid # 0
           \/ answer = "uncertain"
           \/ obj'[c].uid = 0 /\ ~PostMayLand(c)'
  PROVE  lane' \in [Workers -> Lane] /\ \A v \in Workers : GoodLane(v)'
<1>1. lane[w] \in Lane /\ lane \in [Workers -> Lane] /\ GoodLane(w)
  BY DEF LBInv, Types
<1>2. PICK p : p = lane[w].prog
  OBVIOUS
<1>3. p \in Progress /\ c \in Components
  BY <1>1, <1>2 DEF Lane, Call
<1>4. PICK after : after = LBAnswered(p, c, lane[w].call.action, answer, uid)
  OBVIOUS
<1>5. /\ after \in Progress /\ after.state = p.state
      /\ \A d \in Components : d # c => after.comp[d] = p.comp[d]
      /\ after.comp[c].uid \in {p.comp[c].uid, uid}
      /\ answer = "ok" /\ uid # 0 => after.comp[c].uid = uid
      /\ after.comp[c].gone = p.comp[c].gone
      /\ answer = "uncertain" => ~after.comp[c].clear
  BY <1>3, <1>4, Answered
<1>6. lane' = [lane EXCEPT ![w] = [lane[w] EXCEPT !.at = "finish", !.prog = after]]
  BY <1>2, <1>4 DEF Concludes
<1>7. /\ lane'[w] = [lane[w] EXCEPT !.at = "finish", !.prog = after]
      /\ \A v \in Workers : v # w => lane'[v] = lane[v]
  BY <1>1, <1>6
<1>8. /\ lane'[w].at = "finish" /\ lane'[w].prog = after /\ lane'[w].held = lane[w].held
      /\ lane'[w].call = lane[w].call /\ lane'[w] \in Lane
  BY <1>1, <1>5, <1>7 DEF Lane
<1>9. lane' \in [Workers -> Lane]
  BY <1>1, <1>6, <1>7, <1>8
<1>10. ASSUME NEW v \in Workers, v # w PROVE GoodLane(v)'
  BY <1>7, <1>8, <1>10, LaneAtRest
<1>11. ASSUME lane[w].held PROVE GoodHolder(w)'
  <2>1. GoodHolder(w)
    BY <1>1, <1>11 DEF GoodLane
  <2>2. /\ GoodProgress(p) /\ ~p.comp[c].clear /\ ~p.comp[c].gone
        /\ comp[c].pending = lane[w].call.action /\ lb.state # "none"
    BY <1>2, <2>1 DEF GoodHolder
  <2>3. GoodProgress(p)' /\ comp' = comp /\ lb'.state = lb.state
    BY <2>2, ProgressStaysGood DEF Advance
  <2>4. GoodNote(c, after.comp[c])'
    <3>1. GoodNote(c, p.comp[c])'
      BY <1>3, <2>3 DEF GoodProgress
    <3>2. after.comp[c].uid \in {0, obj'[c].uid}
      BY <1>2, <1>5, <3>1 DEF GoodNote
    <3>3. ASSUME after.comp[c].clear, comp[c].pending = "create"
          PROVE  after.comp[c].uid # 0 \/ (obj'[c].uid = 0 /\ ~PostMayLand(c)')
      <4>1. CASE answer = "ok" /\ uid # 0
        BY <1>5, <4>1
      <4> QED
        BY <1>5, <2>2, <3>3, <4>1
    <3> QED
      BY <1>5, <2>2, <2>3, <3>2, <3>3 DEF GoodNote
  <2>5. GoodProgress(after)'
    BY <1>5, <2>3, <2>4 DEF GoodProgress
  <2>6. GoodProgress(lane[w].prog)'
    BY <1>8, <2>5 DEF GoodProgress, GoodNote
  <2> QED
    BY <1>8, <2>2, <2>3, <2>6 DEF GoodHolder
<1>12. GoodLane(w)'
  <2>1. \A v \in Workers : lane'[v].held = lane[v].held
    BY <1>7, <1>8
  <2> QED
    BY <1>1, <1>8, <1>11, <2>1 DEF GoodLane
<1> QED
  BY <1>9, <1>10, <1>12

\* The controllers and the world around the load balancer.
LEMMA ObjectsMove ==
  ASSUME LBInv, UNCHANGED <<conf, comp, refs, claim, lane, net>>,
         lb' \in LBRecord, lb'.state = lb.state,
         obj' \in [Components -> Object], gen' \in BOOLEAN, bound' \in BOOLEAN,
         \A c \in Components :
           obj'[c].uid = obj[c].uid /\ (obj[c].phase = "absent" => obj'[c].phase = "absent"),
         gen' => gen \/ obj["gateway"].phase # "absent",
         bound' => bound \/ gen
  PROVE  LBInv'
<1>1. \A w \in Workers, c \in Components : Sending(w, c)' => Sending(w, c)
  BY DEF Sending
<1>2. \A c \in Components : OnePost(c)' /\ (PostMayLand(c)' => PostMayLand(c))
  BY <1>1, FewerPosts
<1>3. Advance
  BY <1>2 DEF Advance
<1>4. \A w \in Workers : GoodLane(w)'
  BY <1>3, LaneAtRest
<1>5. Types'
  BY DEF LBInv, Types
<1> QED
  BY <1>2, <1>3, <1>4, <1>5, StepAtRest

\* Members, dependencies, foreign objects and meddling.
LEMMA WorldKeeps ==
  ASSUME LBInv, World
  PROVE  LBInv'
<1>0. lb \in LBRecord /\ obj \in [Components -> Object] /\ gen \in BOOLEAN /\ bound \in BOOLEAN
  BY DEF LBInv, Types
<1>1. ASSUME UNCHANGED <<rows, lane, net, kcVars>> PROVE LBInv'
  BY <1>0, <1>1, ObjectsMove DEF rows, kcVars
<1>2. ASSUME NEW c \in Components, Meddle(c) PROVE LBInv'
  <2>1. PICK o \in {[obj[c] EXCEPT !.rv = @ + 1, !.spec = NoObject.spec],
                    [obj[c] EXCEPT !.rv = @ + 1, !.phase = "terminating"]} :
          obj' = [obj EXCEPT ![c] = o]
    BY <1>2 DEF Meddle
  <2>2. o \in Object /\ o.uid = obj[c].uid /\ obj[c].phase # "absent"
    <3>1. NoObject.spec \in ObjectSpec
      BY DEF NoObject, ObjectSpec
    <3>2. obj[c] \in Object /\ obj[c].phase = "live"
      BY <1>0, <1>2 DEF Meddle
    <3>3. obj[c].rv + 1 \in Nat
      BY <3>2 DEF Object
    <3>4. CASE o = [obj[c] EXCEPT !.rv = @ + 1, !.spec = NoObject.spec]
      <4> HIDE DEF NoObject, ObjectSpec
      <4> QED
        BY <3>1, <3>2, <3>3, <3>4 DEF Object
    <3>5. CASE o = [obj[c] EXCEPT !.rv = @ + 1, !.phase = "terminating"]
      BY <3>2, <3>3, <3>5 DEF Object
    <3> QED
      BY <2>1, <3>4, <3>5
  <2>3. obj' \in [Components -> Object]
    BY <1>0, <2>1, <2>2
  <2>4. \A d \in Components :
          obj'[d].uid = obj[d].uid /\ (obj[d].phase = "absent" => obj'[d].phase = "absent")
    BY <1>0, <2>1, <2>2
  <2>5. UNCHANGED <<lb, conf, comp, refs, claim, lane, net, gen, bound>>
    BY <1>2 DEF Meddle, rows
  <2> QED
    BY <1>0, <2>3, <2>4, <2>5, ObjectsMove
<1> QED
  BY <1>1, <1>2
     DEF World, MemberChanges, DependenciesFail, DependenciesRecover, ForeignAppears, ForeignLeaves

\* Finalizers, the generated objects and the entry address.
LEMMA ControllersKeep ==
  ASSUME LBInv, Controllers
  PROVE  LBInv'
<1>0. lb \in LBRecord /\ obj \in [Components -> Object] /\ gen \in BOOLEAN /\ bound \in BOOLEAN
  BY DEF LBInv, Types
<1>1. ASSUME NEW c \in Components, Finalize(c) PROVE LBInv'
  <2>1. obj' = [obj EXCEPT ![c] = [obj[c] EXCEPT !.phase = "absent", !.spec = NoObject.spec]]
    BY <1>0, <1>1 DEF Finalize, Object
  <2>2. /\ obj' \in [Components -> Object]
        /\ \A d \in Components :
             obj'[d].uid = obj[d].uid /\ (obj[d].phase = "absent" => obj'[d].phase = "absent")
    BY <1>0, <2>1 DEF Object, ObjectSpec, NoObject
  <2>3. UNCHANGED <<lb, conf, comp, refs, claim, lane, net, gen, bound>>
    BY <1>1 DEF Finalize, rows
  <2> QED
    BY <1>0, <2>2, <2>3, ObjectsMove
<1>2. CASE Settle \/ Generate \/ BindAddress \/ Collect \/ FreeAddress
  <2>1. UNCHANGED <<lb, conf, comp, refs, claim, lane, net, obj>>
    BY <1>2 DEF Settle, Generate, BindAddress, Collect, FreeAddress, rows
  <2>2. /\ gen' \in BOOLEAN /\ bound' \in BOOLEAN
        /\ gen' => gen \/ obj["gateway"].phase # "absent"
        /\ bound' => bound \/ gen
    <3>1. CASE Settle
      BY <1>0, <3>1, Zenon DEF Settle
    <3>2. CASE Generate
      <4>1. gen' = TRUE /\ bound' = bound /\ obj["gateway"].phase # "absent"
        BY <3>2 DEF Generate
      <4> QED
        BY <1>0, <4>1
    <3>3. CASE BindAddress
      BY <1>0, <3>3 DEF BindAddress
    <3>4. CASE Collect
      BY <1>0, <3>4, Zenon DEF Collect
    <3>5. CASE FreeAddress
      BY <1>0, <3>5, Zenon DEF FreeAddress
    <3> QED
      BY <1>2, <3>1, <3>2, <3>3, <3>4, <3>5
  <2> QED
    BY <1>0, <2>1, <2>2, ObjectsMove
<1> QED
  BY <1>1, <1>2 DEF Controllers

\* An expired lease leaves everything but the lease alone.
LEMMA LeaseExpiresKeeps ==
  ASSUME LBInv, LeaseExpires
  PROVE  LBInv'
<1>1. lb \in LBRecord /\ obj \in [Components -> Object] /\ gen \in BOOLEAN /\ bound \in BOOLEAN
  BY DEF LBInv, Types
<1>2. lb' \in LBRecord /\ lb'.state = lb.state
  BY <1>1 DEF LeaseExpires, LBRecord
<1>3. UNCHANGED <<conf, comp, refs, claim, lane, net, obj, gen, bound>>
  BY DEF LeaseExpires, kcVars
<1> QED
  BY <1>1, <1>2, <1>3, ObjectsMove

\* The provider takes a request; only a POST makes an object, and it is the
\* only one of its component.
LEMMA Received ==
  ASSUME LBInv, NEW q \in net, NEW answer, NEW uid \in Nat, Answer(q, answer, uid),
         UNCHANGED <<lb, conf, comp, refs, claim, gen, bound>>,
         obj' \in [Components -> Object],
         \A c \in Components :
           \/ obj'[c].uid = obj[c].uid /\ (obj[c].phase = "absent" => obj'[c].phase = "absent")
           \/ c = q.call.c /\ q.call.action = "create" /\ obj'[c].uid = 1,
         uid \in {0, obj'[q.call.c].uid},
         q.call.action = "create" =>
           \/ answer = "ok" /\ uid # 0
           \/ answer = "uncertain"
           \/ obj'[q.call.c].uid = 0
  PROVE  LBInv'
<1>1. q \in Request /\ q.from \in Workers /\ q.call \in Call /\ q.call.c \in Components
  BY DEF LBInv, Types, Request, Call
<1>2. net' = net \ {q} /\ net' \in SUBSET Request
  BY DEF Answer, LBInv, Types
<1>3. \A v \in Workers : lane'[v] = lane[v] \/ lane'[v].at = "finish"
  <2>1. lane \in [Workers -> Lane] /\ lane[q.from] \in Lane
    BY <1>1 DEF LBInv, Types
  <2>2. CASE Waits(q)
    <3>1. PICK p : lane' = [lane EXCEPT ![q.from] =
                              [lane[q.from] EXCEPT !.at = "finish", !.prog = p]]
      BY <2>2 DEF Answer, Concludes
    <3>2. lane'[q.from].at = "finish"
      BY <1>1, <2>1, <3>1 DEF Lane
    <3> QED
      BY <2>1, <3>1, <3>2
  <2>3. CASE ~Waits(q)
    BY <2>3 DEF Answer
  <2> QED
    BY <2>2, <2>3
<1>4. \A v \in Workers, c \in Components : Sending(v, c)' => Sending(v, c)
  BY <1>3 DEF Sending
<1>5. \A c \in Components : OnePost(c)' /\ (PostMayLand(c)' => PostMayLand(c))
  BY <1>2, <1>4, FewerPosts
<1>6. ASSUME q.call.action = "create" PROVE PostMayLand(q.call.c) /\ ~PostMayLand(q.call.c)'
  <2> DEFINE c == q.call.c
  <2>1. IsPost(q, c) /\ OnePost(c)
    BY <1>1, <1>6 DEF IsPost, LBInv
  <2>2. \A x \in net' : ~IsPost(x, c)
    BY <1>2, <2>1 DEF OnePost
  <2>3. \A v \in Workers : ~Sending(v, c)'
    BY <1>1, <1>4, <2>1 DEF OnePost
  <2>4. PostMayLand(c)' => (\E x \in net' : IsPost(x, c)) \/ \E v \in Workers : Sending(v, c)'
    BY DEF PostMayLand, IsPost, Sending
  <2> QED
    BY <2>1, <2>2, <2>3, <2>4, Posts
<1>7. Advance
  BY <1>5, <1>6 DEF Advance
<1>8. lane' \in [Workers -> Lane] /\ \A v \in Workers : GoodLane(v)'
  <2>1. CASE Waits(q)
    <3>1. Concludes(q.from, answer, uid) /\ lane[q.from].call = q.call /\ lane[q.from].at = "sent"
      BY <2>1 DEF Answer, Waits
    <3> QED
      BY <1>1, <1>6, <1>7, <3>1, Concluded
  <2>2. CASE ~Waits(q)
    <3>1. lane' = lane
      BY <2>2 DEF Answer
    <3> QED
      BY <1>7, <3>1, LaneAtRest DEF LBInv, Types
  <2> QED
    BY <2>1, <2>2
<1>9. Types'
  BY <1>2, <1>8 DEF LBInv, Types
<1> QED
  BY <1>2, <1>5, <1>7, <1>8, <1>9, StepAtRest

\* POST, PATCH, DELETE and a request that is refused or lost.
LEMMA ProviderKeeps ==
  ASSUME LBInv, NEW q \in net, Provider(q) \/ Refuse(q)
  PROVE  LBInv'
<1> DEFINE c == q.call.c
<1>1. /\ q \in Request /\ c \in Components /\ q.call.spec \in ObjectSpec
      /\ obj \in [Components -> Object] /\ obj[c] \in Object
      /\ obj[c].uid \in {0, 1} /\ (obj[c].phase # "absent" => obj[c].uid = 1)
  BY DEF LBInv, Types, Request, Call, GoodComponent
<1>2. q.call.action = "create" => obj[c].uid = 0 /\ obj[c].phase = "absent"
  <2> SUFFICES ASSUME q.call.action = "create" PROVE obj[c].uid = 0 /\ obj[c].phase = "absent"
    OBVIOUS
  <2>1. PostMayLand(c)
    BY DEF PostMayLand
  <2> QED
    BY <1>1, <2>1 DEF LBInv, GoodPost
<1>3. obj[c].rv + 1 \in Nat /\ obj[c].uid \in Nat
  BY <1>1 DEF Object
<1>4. CASE Post(q)
  <2> DEFINE o == [phase |-> "live", uid |-> 1, rv |-> obj[c].rv + 1, spec |-> q.call.spec]
  <2>1. obj' = [obj EXCEPT ![c] = o]
    <3>1. q.call.action = "create" /\ obj[c].uid + 1 = 1 /\ obj[c].phase = "absent"
      BY <1>2, <1>4 DEF Post
    <3>2. obj' = [obj EXCEPT ![c] = [phase |-> "live", uid |-> obj[c].uid + 1,
                                     rv |-> obj[c].rv + 1, spec |-> q.call.spec]]
      BY <1>4, <3>1 DEF Post
    <3> QED
      BY <3>1, <3>2
  <2>2. o \in Object /\ o.uid = 1
    BY <1>1, <1>3 DEF Object
  <2> HIDE DEF o
  <2>3. /\ obj' \in [Components -> Object] /\ obj'[c] = o
        /\ \A d \in Components : d # c => obj'[d] = obj[d]
    BY <1>1, <2>1, <2>2
  <2>4. q.call.action = "create" /\ Answer(q, "ok", obj'[c].uid)
        /\ UNCHANGED <<lb, conf, comp, refs, claim, gen, bound>>
    BY <1>4 DEF Post, rows
  <2>5. Answer(q, "ok", 1)
    BY <2>2, <2>3, <2>4
  <2> QED
    BY <2>2, <2>3, <2>4, <2>5, Received
<1>5. CASE Patch(q)
  <2> DEFINE o == [obj[c] EXCEPT !.rv = obj[c].rv + 1, !.spec = q.call.spec]
  <2>1. obj' = obj \/ (obj[c].phase # "absent" /\ obj' = [obj EXCEPT ![c] = o])
    BY <1>5 DEF Patch, PatchApplies
  <2>2. o \in Object /\ o.uid = obj[c].uid
    BY <1>1, <1>3 DEF Object
  <2> HIDE DEF o
  <2>3. /\ obj' \in [Components -> Object]
        /\ \A d \in Components :
             obj'[d].uid = obj[d].uid /\ (obj[d].phase = "absent" => obj'[d].phase = "absent")
    BY <1>1, <2>1, <2>2
  <2>4. PICK answer : Answer(q, answer, obj[c].uid)
    BY <1>5 DEF Patch
  <2>5. q.call.action # "create" /\ UNCHANGED <<lb, conf, comp, refs, claim, gen, bound>>
    BY <1>5 DEF Patch, rows
  <2> QED
    BY <1>1, <1>3, <2>3, <2>4, <2>5, Received
<1>6. CASE DeleteObject(q)
  <2> DEFINE o == [obj[c] EXCEPT !.phase = "terminating", !.rv = obj[c].rv + 1]
  <2>1. obj' = obj \/ (obj[c].phase # "absent" /\ obj' = [obj EXCEPT ![c] = o])
    BY <1>6 DEF DeleteObject
  <2>2. o \in Object /\ o.uid = obj[c].uid
    BY <1>1, <1>3 DEF Object
  <2> HIDE DEF o
  <2>3. /\ obj' \in [Components -> Object]
        /\ \A d \in Components :
             obj'[d].uid = obj[d].uid /\ (obj[d].phase = "absent" => obj'[d].phase = "absent")
    BY <1>1, <2>1, <2>2
  <2>4. PICK answer : Answer(q, answer, 0)
    BY <1>6 DEF DeleteObject
  <2>5. q.call.action # "create" /\ UNCHANGED <<lb, conf, comp, refs, claim, gen, bound>>
    BY <1>6 DEF DeleteObject, rows
  <2> QED
    BY <2>3, <2>4, <2>5, Received
<1>7. CASE Refuse(q)
  <2>1. PICK answer \in {"temporary", "uncertain"} : Answer(q, answer, 0)
    BY <1>7 DEF Refuse
  <2>2. UNCHANGED <<lb, conf, comp, refs, claim, obj, gen, bound>>
    BY <1>7 DEF Refuse, rows, kcVars
  <2> QED
    BY <1>1, <1>2, <2>1, <2>2, Received
<1> QED
  BY <1>4, <1>5, <1>6, <1>7 DEF Provider

-----------------------------------------------------------------------------
(***************************************************************************)
(* The steps of a lane that leave the rows alone.                          *)
(***************************************************************************)
\* An idle lane is a lane, holds nothing and has noted nothing.
LEMMA IdleLane ==
  /\ Idle \in Lane /\ Idle.at = "idle" /\ Idle.held = FALSE /\ Idle.prog \in Progress
  /\ \A c \in Components : Idle.prog.comp[c] = [uid |-> 0, clear |-> FALSE, gone |-> FALSE]
<1>1. NoCall \in Call
  BY Names DEF NoCall, NoObject, Call, ObjectSpec
<1>2. Idle.prog \in Progress
  BY DEF Idle, Progress, Note, States
<1> HIDE DEF NoCall
<1> QED
  BY <1>1, <1>2 DEF Idle, Lane

\* One lane moves on, and sends nothing.
LEMMA LaneMoves ==
  ASSUME LBInv, NEW w \in Workers, NEW l \in Lane, lane' = [lane EXCEPT ![w] = l],
         l.at # "check", l.held => lane[w].held,
         UNCHANGED <<lb, conf, comp, refs, claim, net, obj, gen, bound>>
  PROVE  Advance /\ (GoodLane(w)' => LBInv')
<1>1. lane \in [Workers -> Lane]
  BY DEF LBInv, Types
<1>2. lane' \in [Workers -> Lane] /\ lane'[w] = l /\ \A v \in Workers : v # w => lane'[v] = lane[v]
  BY <1>1
<1>3. \A v \in Workers, c \in Components : Sending(v, c)' => Sending(v, c)
  BY <1>2 DEF Sending
<1>4. \A c \in Components : OnePost(c)' /\ (PostMayLand(c)' => PostMayLand(c))
  BY <1>3, FewerPosts
<1>5. Advance
  BY <1>4 DEF Advance
<1>6. \A v \in Workers : lane'[v].held => lane[v].held
  BY <1>2
<1>7. \A v \in Workers : v # w => GoodLane(v)'
  BY <1>2, <1>5, <1>6, LaneAtRest
<1>8. Types'
  BY <1>2 DEF LBInv, Types
<1> QED
  BY <1>4, <1>5, <1>7, <1>8, StepAtRest

\* A lane gives up its step.
LEMMA LaneEnds ==
  ASSUME LBInv, NEW w \in Workers, lane' = [lane EXCEPT ![w] = Idle],
         UNCHANGED <<lb, conf, comp, refs, claim, net, obj, gen, bound>>
  PROVE  LBInv'
<1>1. lane'[w] = Idle
  BY DEF LBInv, Types
<1>2. GoodLane(w)'
  BY <1>1, IdleLane DEF GoodLane
<1> QED
  BY <1>2, IdleLane, LaneMoves

\* A crash or a lost lease ends the step.
LEMMA CrashKeeps ==
  ASSUME LBInv, NEW w \in Workers, Crash(w) \/ LeaseLost(w)
  PROVE  LBInv'
  BY LaneEnds DEF Crash, LeaseLost, rows, kcVars

\* The lane that holds the fences has observed, and knows what it will do.
LEMMA Decided ==
  ASSUME LBInv, NEW w \in Workers, lane[w].held, NEW p \in Progress, GoodProgress(p),
         NEW at \in {"begin", "finish"}, NEW call \in Call,
         lane' = [lane EXCEPT ![w] = [lane[w] EXCEPT !.at = at, !.prog = p, !.call = call]],
         UNCHANGED <<lb, conf, comp, refs, claim, net, obj, gen, bound>>,
         at = "begin" => /\ call.action # "none" /\ comp[call.c].row
                         /\ ~p.comp[call.c].clear /\ ~p.comp[call.c].gone
                         /\ call.action = "delete" => SafeDelete(call.c)
  PROVE  LBInv'
<1> DEFINE l == [lane[w] EXCEPT !.at = at, !.prog = p, !.call = call]
<1>1. lane[w] \in Lane /\ lane \in [Workers -> Lane] /\ GoodLane(w) /\ call.c \in Components
  BY DEF LBInv, Types, Call
<1>2. l \in Lane /\ l.at = at /\ l.prog = p /\ l.call = call /\ l.held = TRUE
  BY <1>1 DEF Lane
<1>3. lane'[w] = l
  BY <1>1
<1> HIDE DEF l
<1>4. Advance /\ (GoodLane(w)' => LBInv')
  <2>1. lane' = [lane EXCEPT ![w] = l] /\ l.at # "check"
    BY <1>2 DEF l
  <2> QED
    BY <1>2, <2>1, LaneMoves
<1>5. lane'[w].at = at /\ lane'[w].prog = p /\ lane'[w].call = call
  BY <1>2, <1>3
<1>6. GoodProgress(lane[w].prog)'
  <2>1. GoodProgress(p)'
    BY <1>4, ProgressStaysGood
  <2> QED
    BY <1>5, <2>1 DEF GoodProgress, GoodNote
<1>7. at = "begin" /\ call.action = "delete" => SafeDelete(lane[w].call.c)'
  <2>1. at = "begin" /\ call.action = "delete" => SafeDelete(call.c)'
    BY <1>1, <1>4, DeleteStaysSafe
  <2> QED
    BY <1>5, <2>1 DEF SafeDelete
<1>8. GoodHolder(w)'
  BY <1>1, <1>5, <1>6 DEF GoodLane, GoodHolder
<1>9. \A v \in Workers : lane'[v].held => v = w
  <2>1. \A v \in Workers : v # w => lane'[v] = lane[v]
    BY <1>1
  <2> QED
    BY <1>1, <2>1 DEF GoodLane
<1>10. GoodLane(w)'
  BY <1>2, <1>3, <1>5, <1>7, <1>8, <1>9 DEF GoodLane
<1> QED
  BY <1>4, <1>10

\* An observation, or the failure to observe.
LEMMA ObserveKeeps ==
  ASSUME LBInv, NEW w \in Workers, Observe(w) \/ ObserveFails(w)
  PROVE  LBInv'
<1>1. lane[w].held /\ lb.state # "none" /\ lane[w] \in Lane
  BY DEF Observe, ObserveFails, Fenced, LBInv, GoodLane, GoodHolder, Types
<1>2. UNCHANGED <<lb, conf, comp, refs, claim, net, obj, gen, bound>>
  BY DEF Observe, ObserveFails, rows, kcVars
<1>3. CASE Observe(w)
  <2> DEFINE reached  == Reached(Work, Seen)
             requests == Requests(reached)
             r        == CHOOSE x \in requests : TRUE
             p        == LBProgress(Work, Seen, reached)
             at       == IF requests # {} THEN "begin" ELSE "finish"
             call     == IF requests = {} THEN NoCall
                         ELSE [c |-> r[1], action |-> r[2],
                               spec |-> DesiredSpec(Work, Seen, r[1])]
  <2>1. lane' = [lane EXCEPT ![w] = [lane[w] EXCEPT !.at = at, !.prog = p, !.call = call]]
    BY <1>3, Zenon DEF Observe
  <2>2. p \in Progress /\ GoodProgress(p)
    BY <1>1, ObserveFacts
  <2>3. ASSUME requests # {}
        PROVE  /\ r[1] \in Components /\ comp[r[1]].row /\ r[2] \in Actions
               /\ ~p.comp[r[1]].clear /\ ~p.comp[r[1]].gone
               /\ r[2] = "delete" => SafeDelete(r[1])
               /\ DesiredSpec(Work, Seen, r[1]) \in ObjectSpec
    <3>1. r \in requests
      BY <2>3
    <3> QED
      BY <1>1, <3>1, ObserveFacts
  <2> HIDE DEF reached, requests, r, p
  <2>4. call \in Call /\ at \in {"begin", "finish"}
        /\ (at = "begin" => requests # {} /\ call.c = r[1] /\ call.action = r[2])
    <3>1. CASE requests = {}
      BY <3>1, Names DEF NoCall, NoObject, Call, ObjectSpec
    <3>2. CASE requests # {}
      BY <2>3, <3>2 DEF Call
    <3> QED
      BY <3>1, <3>2
  <2> HIDE DEF call, at
  <2>5. at = "begin" => /\ call.action # "none" /\ comp[call.c].row
                        /\ ~p.comp[call.c].clear /\ ~p.comp[call.c].gone
                        /\ call.action = "delete" => SafeDelete(call.c)
    BY <2>3, <2>4 DEF Actions
  <2> QED
    BY <1>1, <1>2, <2>1, <2>2, <2>4, <2>5, Decided
<1>4. CASE ObserveFails(w)
  <2> DEFINE p == LBUnobserved(Work)
  <2>1. lane' = [lane EXCEPT ![w] = [lane[w] EXCEPT !.at = "finish", !.prog = p]]
    BY <1>4 DEF ObserveFails
  <2>2. [lane[w] EXCEPT !.at = "finish", !.prog = p]
          = [lane[w] EXCEPT !.at = "finish", !.prog = p, !.call = lane[w].call]
        /\ lane[w].call \in Call
    BY <1>1 DEF Lane
  <2>3. /\ p = [observed |-> FALSE, comp |-> p.comp, state |-> p.state, done |-> FALSE]
        /\ p.comp = [c \in Components |-> [uid |-> 0, clear |-> FALSE, gone |-> FALSE]]
        /\ p.state = IF lb.state = "available" THEN "degraded" ELSE lb.state
    BY WorkFacts DEF LBUnobserved
  <2> HIDE DEF p
  <2>4. lb.state \in States /\ p.state \in States
    BY <2>3 DEF LBInv, Types, LBRecord, States
  <2>5. p \in Progress
    <3>1. p.comp \in [Components -> Note]
      BY <2>3 DEF Note
    <3>2. PICK cs \in [Components -> Note], st \in States :
            p = [observed |-> FALSE, comp |-> cs, state |-> st, done |-> FALSE]
      BY <2>3, <2>4, <3>1, Zenon
    <3> QED
      BY <3>2 DEF Progress
  <2>6. GoodProgress(p)
    BY <1>1, <2>3 DEF GoodProgress, GoodNote, Ending, LBInv, GoodRefs
  <2>7. lane' = [lane EXCEPT ![w] =
                   [lane[w] EXCEPT !.at = "finish", !.prog = p, !.call = lane[w].call]]
    BY <2>1, <2>2
  <2> QED
    BY <1>1, <1>2, <2>2, <2>5, <2>6, <2>7, Decided
<1> QED
  BY <1>3, <1>4

\* A request ends before it was sent, or nothing more is heard of it.
LEMMA LaneConcludes ==
  ASSUME LBInv, NEW w \in Workers, lane[w].at \in {"check", "sent"},
         NEW answer, NEW uid \in Nat, Concludes(w, answer, uid),
         UNCHANGED <<lb, conf, comp, refs, claim, net, obj, gen, bound>>,
         uid \in {0, obj[lane[w].call.c].uid},
         lane[w].call.action = "create" =>
           (answer = "ok" /\ uid # 0) \/ answer = "uncertain" \/ lane[w].at = "check"
  PROVE  LBInv'
<1>1. lane[w] \in Lane /\ lane \in [Workers -> Lane]
  BY DEF LBInv, Types
<1>2. PICK c : c = lane[w].call.c
  OBVIOUS
<1>3. c \in Components
  BY <1>1, <1>2 DEF Lane, Call
<1>4. lane'[w].at = "finish" /\ \A v \in Workers : v # w => lane'[v] = lane[v]
  <2>1. PICK p : lane' = [lane EXCEPT ![w] = [lane[w] EXCEPT !.at = "finish", !.prog = p]]
    BY DEF Concludes
  <2> QED
    BY <1>1, <2>1 DEF Lane
<1>5. \A v \in Workers, d \in Components : Sending(v, d)' => Sending(v, d) /\ v # w
  BY <1>4 DEF Sending
<1>6. \A d \in Components : OnePost(d)' /\ (PostMayLand(d)' => PostMayLand(d))
  BY <1>5, FewerPosts
<1>7. Advance
  BY <1>6 DEF Advance
<1>8. lane[w].call.action = "create" /\ lane[w].at = "check" => obj[c].uid = 0 /\ ~PostMayLand(c)'
  <2> SUFFICES ASSUME lane[w].call.action = "create", lane[w].at = "check"
               PROVE  obj[c].uid = 0 /\ ~PostMayLand(c)'
    OBVIOUS
  <2>1. Sending(w, c) /\ OnePost(c) /\ GoodPost(c)
    BY <1>2, <1>3 DEF Sending, LBInv
  <2>2. obj[c].uid = 0
    BY <2>1, Posts DEF GoodPost
  <2>3. (\A q \in net : ~IsPost(q, c)) /\ \A v \in Workers : ~Sending(v, c)'
    BY <1>3, <1>5, <2>1 DEF OnePost
  <2>4. PostMayLand(c)' => (\E x \in net' : IsPost(x, c)) \/ \E v \in Workers : Sending(v, c)'
    BY DEF PostMayLand, IsPost, Sending
  <2> QED
    BY <2>2, <2>3, <2>4
<1>9. lane' \in [Workers -> Lane] /\ \A v \in Workers : GoodLane(v)'
  BY <1>2, <1>7, <1>8, Concluded
<1>10. Types'
  BY <1>9 DEF LBInv, Types
<1> QED
  BY <1>6, <1>7, <1>9, <1>10, StepAtRest

\* A lane sends the request its row is marked for.
LEMMA LaneSends ==
  ASSUME LBInv, NEW w \in Workers, lane[w].at = "check", NEW rv \in Nat,
         net' = net \cup {[from |-> w, call |-> lane[w].call, rv |-> rv]},
         lane' = [lane EXCEPT ![w].at = "sent"],
         UNCHANGED <<lb, conf, comp, refs, claim, obj, gen, bound>>
  PROVE  LBInv'
<1>1. lane[w] \in Lane /\ lane \in [Workers -> Lane] /\ GoodLane(w)
  BY DEF LBInv, Types
<1>2. PICK k, new : k = lane[w].call /\ new = [from |-> w, call |-> k, rv |-> rv]
  OBVIOUS
<1>3. k \in Call /\ k.c \in Components /\ new \in Request /\ new.call = k
  BY <1>1, <1>2 DEF Lane, Call, Request
<1>4. net' = net \cup {new}
  BY <1>2
<1>5. /\ lane'[w].at = "sent" /\ lane'[w].call = lane[w].call /\ lane'[w].prog = lane[w].prog
      /\ lane'[w].held = lane[w].held /\ lane'[w] \in Lane
      /\ \A v \in Workers : v # w => lane'[v] = lane[v]
  BY <1>1 DEF Lane
<1>6. lane' \in [Workers -> Lane]
  BY <1>1, <1>5
<1>7. Types'
  BY <1>3, <1>4, <1>6 DEF LBInv, Types
<1>8. \A v \in Workers, c \in Components : Sending(v, c)' => Sending(v, c) /\ v # w
  BY <1>5 DEF Sending
<1>9. \A c \in Components : IsPost(new, c) <=> Sending(w, c)
  BY <1>2, <1>3 DEF IsPost, Sending
<1>10. ASSUME NEW c \in Components
       PROVE  OnePost(c)' /\ (PostMayLand(c)' => PostMayLand(c))
  <2>1. OnePost(c)
    BY DEF LBInv
  <2>2. PostMayLand(c)' => (\E x \in net' : IsPost(x, c)) \/ \E v \in Workers : Sending(v, c)'
    BY DEF PostMayLand, IsPost, Sending
  <2>3. PostMayLand(c)' => PostMayLand(c)
    BY <1>4, <1>8, <1>9, <2>2, Posts
  <2>4. \A q1, q2 \in net' : IsPost(q1, c) /\ IsPost(q2, c) => q1 = q2
    BY <1>4, <1>9, <2>1 DEF OnePost
  <2>5. ASSUME NEW v \in Workers, Sending(v, c)'
        PROVE  /\ \A q \in net' : ~IsPost(q, c)
               /\ \A u \in Workers : Sending(u, c)' => u = v
    <3>1. Sending(v, c) /\ v # w
      BY <1>8, <2>5
    <3>2. ~Sending(w, c)
      BY <2>1, <3>1 DEF OnePost
    <3> QED
      BY <1>4, <1>8, <1>9, <2>1, <3>1, <3>2 DEF OnePost
  <2>6. OnePost(c)'
    BY <2>4, <2>5 DEF OnePost, IsPost
  <2> QED
    BY <2>3, <2>6
<1>11. Advance
  BY <1>10 DEF Advance
<1>12. \A v \in Workers : lane'[v].held <=> lane[v].held
  BY <1>5
<1>13. \A v \in Workers : v # w => GoodLane(v)'
  BY <1>5, <1>11, <1>12, LaneAtRest
<1>14. ASSUME lane[w].held PROVE GoodHolder(w)'
  <2>1. PICK p : p = lane[w].prog
    OBVIOUS
  <2>2. GoodHolder(w)
    BY <1>1, <1>14 DEF GoodLane
  <2>3. GoodProgress(p)'
    BY <1>11, <2>1, <2>2, ProgressStaysGood DEF GoodHolder
  <2>4. GoodProgress(lane[w].prog)'
    BY <1>5, <2>1, <2>3 DEF GoodProgress, GoodNote
  <2>5. comp' = comp /\ lb' = lb
    OBVIOUS
  <2> QED
    BY <1>5, <2>2, <2>4, <2>5 DEF GoodHolder
<1>15. GoodLane(w)'
  BY <1>1, <1>5, <1>12, <1>14 DEF GoodLane
<1>16. k.action = "delete" => SafeDelete(k.c)
  BY <1>1, <1>2 DEF GoodLane
<1>17. \A q \in net' : q.call.action = "delete" => q \in net \/ SafeDelete(q.call.c)
  BY <1>3, <1>4, <1>16
<1> QED
  BY <1>7, <1>10, <1>11, <1>13, <1>15, <1>17, StepAtRest

\* MutateLoadBalancer up to its request, its failure or its timeout.
LEMMA CheckKeeps ==
  ASSUME LBInv, NEW w \in Workers, Check(w) \/ CheckFails(w) \/ TimesOut(w)
  PROVE  LBInv'
<1> DEFINE call == lane[w].call
           c    == call.c
<1>1. /\ c \in Components /\ obj[c] \in Object /\ obj[c].uid \in Nat /\ obj[c].rv \in Nat
      /\ obj[c].phase # "absent" => obj[c].uid = 1
  BY DEF LBInv, Types, Lane, Call, Object, GoodComponent
<1>2. UNCHANGED <<lb, conf, comp, refs, claim, obj, gen, bound>>
  BY DEF Check, CheckFails, TimesOut, rows, kcVars
<1>3. CASE Check(w)
  <2>1. lane[w].at = "check"
    BY <1>3 DEF Check
  <2>2. \/ Concludes(w, "ok", obj[c].uid) /\ net' = net
        \/ Concludes(w, "ok", 0) /\ net' = net
        \/ Concludes(w, "temporary", 0) /\ net' = net
        \/ Concludes(w, "conflict", 0) /\ net' = net
        \/ /\ net' = net \cup {[from |-> w, call |-> lane[w].call, rv |-> obj[c].rv]}
           /\ lane' = [lane EXCEPT ![w].at = "sent"]
    BY <1>3, Zenon DEF Check
  <2>3. CASE net' = net /\ \E answer : \E uid \in {0, obj[c].uid} : Concludes(w, answer, uid)
    BY <1>1, <1>2, <2>1, <2>3, LaneConcludes
  <2>4. CASE /\ net' = net \cup {[from |-> w, call |-> lane[w].call, rv |-> obj[c].rv]}
             /\ lane' = [lane EXCEPT ![w].at = "sent"]
    BY <1>1, <1>2, <2>1, <2>4, LaneSends
  <2> QED
    BY <2>2, <2>3, <2>4
<1>4. CASE CheckFails(w)
  BY <1>2, <1>4, LaneConcludes DEF CheckFails
<1>5. CASE TimesOut(w)
  BY <1>2, <1>5, LaneConcludes DEF TimesOut
<1> QED
  BY <1>3, <1>4, <1>5

-----------------------------------------------------------------------------
(***************************************************************************)
(* Steps that change the rows, and break the fences.                       *)
(***************************************************************************)
\* A lane without its fences keeps its request and nothing else.
LEMMA BrokenLane ==
  ASSUME LBInv, NEW v \in Workers
  PROVE  LET b == Broken(lane)[v]
         IN /\ b \in Lane /\ ~b.held /\ b.at \notin {"claimed", "begin"}
            /\ b.at = "check" <=> lane[v].at = "check"
            /\ b.at = "check" => b.call = lane[v].call
<1>1. lane[v] \in Lane
  BY DEF LBInv, Types
<1>2. CASE lane[v].at \in {"check", "sent"}
  <2>1. PICK p \in Progress : p = Idle.prog
    BY IdleLane
  <2>2. Broken(lane)[v] = [lane[v] EXCEPT !.held = FALSE, !.prog = p]
    BY <1>2, <2>1 DEF Broken
  <2> QED
    BY <1>1, <1>2, <2>1, <2>2 DEF Lane
<1>3. CASE lane[v].at \notin {"check", "sent"}
  <2>1. Broken(lane)[v] = Idle
    BY <1>3 DEF Broken
  <2> QED
    BY <1>3, <2>1, IdleLane
<1> QED
  BY <1>2, <1>3

\* POSTs under way survive what breaks the fences.
LEMMA SamePosts ==
  ASSUME LBInv, net' = net,
         \A v \in Workers : /\ lane'[v].at = "check" <=> lane[v].at = "check"
                            /\ lane'[v].at = "check" => lane'[v].call = lane[v].call
  PROVE  \A c \in Components : OnePost(c)' /\ (PostMayLand(c)' <=> PostMayLand(c))
<1>1. \A v \in Workers, c \in Components : Sending(v, c)' <=> Sending(v, c)
  BY DEF Sending
<1>2. \A c \in Components : OnePost(c)' /\ (PostMayLand(c)' => PostMayLand(c))
  BY <1>1, FewerPosts
<1>3. ASSUME NEW c \in Components, PostMayLand(c) PROVE PostMayLand(c)'
  BY <1>3 DEF PostMayLand
<1> QED
  BY <1>2, <1>3

\* All that matters of a lane without fences is the order of its DELETE.
LEMMA LaneWithoutFences ==
  ASSUME LBInv, NEW v \in Workers, ~lane'[v].held, lane'[v].at \notin {"claimed", "begin"},
         lane'[v].at = "check" => lane[v].at = "check" /\ lane'[v].call = lane[v].call,
         \A c \in Components : SafeDelete(c) => SafeDelete(c)'
  PROVE  GoodLane(v)'
<1>1. PICK k : k = lane[v].call
  OBVIOUS
<1>2. k.c \in Components /\ GoodLane(v)
  BY <1>1 DEF LBInv, Types, Lane, Call
<1>3. lane'[v].at = "check" /\ k.action = "delete" => SafeDelete(k.c)'
  BY <1>1, <1>2 DEF GoodLane
<1>4. lane'[v].at = "check" /\ lane'[v].call.action = "delete" => SafeDelete(lane[v].call.c)'
  BY <1>1, <1>3 DEF SafeDelete
<1> QED
  BY <1>4 DEF GoodLane

\* A transaction on the rows leaves lanes, requests and objects in order.
LEMMA FencesBreak ==
  ASSUME LBInv, UNCHANGED <<net, obj, gen, bound>>,
         lb' \in LBRecord, conf' \in SUBSET Members, comp' \in [Components -> Component],
         claim' \in BOOLEAN, lane' \in [Workers -> Lane],
         \A v \in Workers : \/ lane'[v] = Broken(lane)[v]
                            \/ lane'[v] = Idle /\ lane[v].at # "check"
  PROVE  /\ \A c \in Components : /\ PostMayLand(c)' <=> PostMayLand(c)
                                  /\ Gone(c)' <=> Gone(c)
         /\ AllGone' <=> AllGone
         /\ /\ \A c \in Components :
                 GoodPost(c)' /\ GoodComponent(c)' /\ (SafeDelete(c) => SafeDelete(c)')
            /\ GoodAddress' /\ GoodRefs'
            => LBInv'
<1>1. \A v \in Workers :
        /\ ~lane'[v].held /\ lane'[v].at \notin {"claimed", "begin"}
        /\ lane'[v].at = "check" <=> lane[v].at = "check"
        /\ lane'[v].at = "check" => lane'[v].call = lane[v].call
  BY BrokenLane, IdleLane
<1>2. \A c \in Components : OnePost(c)' /\ (PostMayLand(c)' <=> PostMayLand(c))
  BY <1>1, SamePosts
<1>3. \A c \in Components : Gone(c)' <=> Gone(c)
  BY <1>2 DEF Gone, Present
<1>4. AllGone' <=> AllGone
  BY <1>3 DEF AllGone
<1>5. ASSUME \A c \in Components :
               GoodPost(c)' /\ GoodComponent(c)' /\ (SafeDelete(c) => SafeDelete(c)'),
             GoodAddress', GoodRefs'
      PROVE  LBInv'
  <2>1. \A v \in Workers : GoodLane(v)'
    BY <1>1, <1>5, LaneWithoutFences
  <2>2. \A q \in net' : q.call.action = "delete" => SafeDelete(q.call.c)'
    <3> SUFFICES ASSUME NEW q \in net, q.call.action = "delete" PROVE SafeDelete(q.call.c)'
      OBVIOUS
    <3>1. q.call.c \in Components /\ SafeDelete(q.call.c)
      BY DEF LBInv, Types, Request, Call
    <3> QED
      BY <1>5, <3>1
  <2>3. Types'
    BY DEF LBInv, Types
  <2> QED
    BY <1>2, <1>5, <2>1, <2>2, <2>3 DEF LBInv
<1> QED
  BY <1>2, <1>3, <1>4, <1>5

\* Lanes stay lanes.
LEMMA BrokenIsTyped ==
  ASSUME LBInv
  PROVE  Broken(lane) \in [Workers -> Lane]
<1>1. \A v \in Workers : Broken(lane)[v] \in Lane
  BY BrokenLane
<1>2. Broken(lane) = [v \in Workers |-> Broken(lane)[v]]
  BY DEF Broken
<1> QED
  BY <1>1, <1>2

\* A new claim takes the fences.
LEMMA ClaimKeeps ==
  ASSUME LBInv, NEW w \in Workers, Claim(w)
  PROVE  LBInv'
<1>1. lb \in LBRecord /\ lane \in [Workers -> Lane] /\ lane[w].at = "idle" /\ lb.state # "none"
  BY DEF LBInv, Types, Claim
<1>2. lb' \in LBRecord /\ lb'.state = lb.state
  BY <1>1 DEF Claim, LBRecord
<1>3. UNCHANGED <<conf, comp, refs, claim, net, obj, gen, bound>>
  BY DEF Claim, kcVars
<1>4. PICK l : l = [Idle EXCEPT !.at = "claimed", !.held = TRUE]
  OBVIOUS
<1>5. l \in Lane /\ l.at = "claimed" /\ l.held = TRUE
  BY <1>4, IdleLane DEF Lane
<1>6. /\ lane'[w] = l /\ lane' \in [Workers -> Lane]
      /\ \A v \in Workers : v # w => lane'[v] = Broken(lane)[v]
  BY <1>4, <1>5, BrokenIsTyped DEF Claim
<1>7. \A v \in Workers :
        /\ v # w => ~lane'[v].held /\ lane'[v].at \notin {"claimed", "begin"}
        /\ lane'[v].at = "check" <=> lane[v].at = "check"
        /\ lane'[v].at = "check" => lane'[v].call = lane[v].call
  BY <1>1, <1>5, <1>6, BrokenLane
<1>8. \A c \in Components : OnePost(c)' /\ (PostMayLand(c)' <=> PostMayLand(c))
  BY <1>3, <1>7, SamePosts
<1>9. Advance
  BY <1>2, <1>3, <1>8 DEF Advance
<1>10. \A v \in Workers : v # w => GoodLane(v)'
  BY <1>7, <1>9, DeleteStaysSafe, LaneWithoutFences
<1>11. GoodLane(w)'
  BY <1>1, <1>2, <1>5, <1>6, <1>7 DEF GoodLane, GoodHolder
<1>12. Types'
  BY <1>2, <1>3, <1>6 DEF LBInv, Types
<1> QED
  BY <1>3, <1>8, <1>9, <1>10, <1>11, <1>12, StepAtRest

\* DeleteLoadBalancer.
LEMMA DeleteLBKeeps ==
  ASSUME LBInv, DeleteLB
  PROVE  LBInv'
<1>1. lb \in LBRecord /\ lb.state \in States \ {"none", "deleting", "deleted"}
  BY DEF LBInv, Types, DeleteLB, LBRecord
<1>2. lb' \in LBRecord /\ lb'.state = "deleting"
  BY <1>1 DEF DeleteLB, LBRecord, States
<1>3. UNCHANGED <<conf, comp, refs, claim, net, obj, gen, bound>> /\ lane' = Broken(lane)
  BY DEF DeleteLB, kcVars
<1>4. /\ \A c \in Components : (PostMayLand(c)' <=> PostMayLand(c)) /\ (Gone(c)' <=> Gone(c))
      /\ /\ \A c \in Components :
              GoodPost(c)' /\ GoodComponent(c)' /\ (SafeDelete(c) => SafeDelete(c)')
         /\ GoodAddress' /\ GoodRefs'
         => LBInv'
  BY <1>2, <1>3, BrokenIsTyped, FencesBreak DEF LBInv, Types
<1>5. ASSUME NEW c \in Components
      PROVE  GoodPost(c)' /\ GoodComponent(c)' /\ (SafeDelete(c) => SafeDelete(c)')
  <2>1. GoodPost(c) /\ GoodComponent(c)
    BY DEF LBInv
  <2>2. GoodPost(c)'
    BY <1>3, <1>4, <2>1 DEF GoodPost
  <2>3. GoodComponent(c)'
    BY <1>3, <1>4, <2>1 DEF GoodComponent
  <2>4. SafeDelete(c) => SafeDelete(c)'
    BY <1>1, <1>3 DEF SafeDelete, Ending
  <2> QED
    BY <2>2, <2>3, <2>4
<1>6. GoodAddress'
  BY <1>1, <1>2, <1>3 DEF LBInv, GoodAddress
<1>7. GoodRefs'
  BY <1>1, <1>2, <1>3 DEF LBInv, GoodRefs
<1> QED
  BY <1>4, <1>5, <1>6, <1>7

\* New component rows are blank, the others stay.
LEMMA InsertedRows ==
  ASSUME LBInv, NEW new \in SUBSET Components
  PROVE  /\ Inserted(new) \in [Components -> Component]
         /\ \A c \in Components :
              /\ c \notin new => Inserted(new)[c] = comp[c]
              /\ c \in new => /\ Inserted(new)[c].row /\ Inserted(new)[c].uid = 0
                              /\ Inserted(new)[c].pending = "" /\ ~Inserted(new)[c].deleted
<1>1. comp \in [Components -> Component]
  BY DEF LBInv, Types
<1>2. PICK fresh : fresh = [NoComponent EXCEPT !.row = TRUE]
  OBVIOUS
<1>3. fresh \in Component /\ fresh.row /\ fresh.uid = 0 /\ fresh.pending = "" /\ ~fresh.deleted
  BY <1>2 DEF NoComponent, Component
<1>4. Inserted(new) = [c \in Components |-> IF c \in new THEN fresh ELSE comp[c]]
  BY <1>2 DEF Inserted
<1> QED
  BY <1>1, <1>3, <1>4

\* A new configuration: only members that never had a row are inserted.
LEMMA UpdateLBKeeps ==
  ASSUME LBInv, NEW members \in SUBSET Members, UpdateLB(members)
  PROVE  LBInv'
<1> DEFINE new == members \ conf
<1>1. lb \in LBRecord /\ lb.state \in States \ {"none", "deleting", "deleted"}
  BY DEF LBInv, Types, UpdateLB, LBRecord
<1>2. lb' \in LBRecord /\ lb'.state = lb.state
  <2>1. lb.desired + 1 \in Nat
    BY <1>1 DEF LBRecord
  <2>2. lb' = [lb EXCEPT !.active = TRUE, !.desired = lb.desired + 1, !.lease = FALSE]
    BY <1>1 DEF UpdateLB
  <2> QED
    BY <1>1, <2>1, <2>2 DEF LBRecord
<1>3. /\ UNCHANGED <<claim, net, obj, gen, bound>> /\ lane' = Broken(lane)
      /\ conf' = members /\ comp' = Inserted(new)
      /\ refs' = refs \cup {Entry} \cup SubnetsOf(members)
  BY DEF UpdateLB, kcVars
<1>4. new \in SUBSET Components
  BY Names
<1>5. \A m \in new : ~comp[m].row
  BY DEF UpdateLB, Retains
<1> HIDE DEF new
<1>6. /\ comp' \in [Components -> Component]
      /\ \A c \in Components :
           /\ c \notin new => comp'[c] = comp[c]
           /\ c \in new => /\ comp'[c].row /\ comp'[c].uid = 0
                           /\ comp'[c].pending = "" /\ ~comp'[c].deleted
  BY <1>3, <1>4, InsertedRows
<1>7. /\ \A c \in Components : (PostMayLand(c)' <=> PostMayLand(c)) /\ (Gone(c)' <=> Gone(c))
      /\ /\ \A c \in Components :
              GoodPost(c)' /\ GoodComponent(c)' /\ (SafeDelete(c) => SafeDelete(c)')
         /\ GoodAddress' /\ GoodRefs'
         => LBInv'
  BY <1>2, <1>3, <1>6, BrokenIsTyped, FencesBreak DEF LBInv, Types
<1>8. \A c \in new : obj[c].uid = 0 /\ ~PostMayLand(c) /\ Gone(c)
  BY <1>4, <1>5, RowOrNothing
<1>9. ASSUME NEW c \in Components
      PROVE  GoodPost(c)' /\ GoodComponent(c)' /\ (SafeDelete(c) => SafeDelete(c)')
  <2>1. GoodPost(c) /\ GoodComponent(c)
    BY DEF LBInv
  <2>2. GoodPost(c)'
    BY <1>3, <1>6, <1>7, <1>8, <2>1 DEF GoodPost
  <2>3. GoodComponent(c)'
    <3>1. CASE c \in new
      BY <1>3, <1>6, <1>7, <1>8, <2>1, <3>1 DEF GoodComponent
    <3>2. CASE c \notin new
      BY <1>3, <1>6, <1>7, <2>1, <3>2 DEF GoodComponent
    <3> QED
      BY <3>1, <3>2
  <2>4. SafeDelete(c) => SafeDelete(c)'
    <3> SUFFICES ASSUME SafeDelete(c) PROVE SafeDelete(c)'
      OBVIOUS
    <3>1. c # "gateway" /\ c \notin conf /\ (c \in Members => comp[c].row)
      BY <1>1 DEF SafeDelete, Ending
    <3>2. c \notin new
      BY <1>5, <3>1 DEF new
    <3>3. c \notin members
      BY <3>1, <3>2 DEF new
    <3> QED
      BY <1>3, <1>6, <3>1, <3>2, <3>3 DEF SafeDelete
  <2> QED
    BY <2>2, <2>3, <2>4
<1>10. \A c \in Components : comp[c].row => comp'[c].row
  BY <1>6
<1>11. GoodAddress'
  <2>1. GoodAddress
    BY DEF LBInv
  <2>2. ASSUME NEW m \in members PROVE m \in Members /\ comp'[m].row
    <3>1. m \in Components
      BY Names
    <3>2. CASE m \in conf
      BY <1>10, <2>1, <3>1, <3>2 DEF GoodAddress
    <3>3. CASE m \notin conf
      BY <1>6, <3>1, <3>3 DEF new
    <3> QED
      BY <3>2, <3>3
  <2> QED
    BY <1>1, <1>2, <1>3, <1>10, <2>1, <2>2 DEF GoodAddress
<1>12. GoodRefs'
  <2>1. ASSUME NEW m \in Members, comp'[m].row, ~comp'[m].deleted PROVE SubnetOf[m] \in refs'
    <3>1. m \in Components
      BY Names
    <3>2. CASE m \in new
      BY <1>3, <3>2 DEF new, SubnetsOf
    <3>3. CASE m \notin new
      BY <1>1, <1>3, <1>6, <2>1, <3>1, <3>3 DEF LBInv, GoodRefs
    <3> QED
      BY <3>2, <3>3
  <2> QED
    BY <1>1, <1>2, <2>1 DEF GoodRefs
<1> QED
  BY <1>7, <1>9, <1>11, <1>12

\* AcceptLoadBalancer: nothing was there before.
LEMMA CreateLBKeeps ==
  ASSUME LBInv, NEW members \in SUBSET Members, CreateLB(members)
  PROVE  LBInv'
<1> DEFINE new == {"gateway", "route", "policy"} \cup members
<1>1. lb \in LBRecord /\ lb.state = "none"
  BY DEF LBInv, Types, CreateLB
<1>2. lb' \in LBRecord /\ lb'.state = "provisioning"
  BY <1>1 DEF CreateLB, LBRecord, States
<1>3. /\ UNCHANGED <<lane, net, obj, gen, bound>>
      /\ conf' = members /\ comp' = Inserted(new) /\ claim' = TRUE
      /\ refs' = {Entry} \cup SubnetsOf(members)
  BY DEF CreateLB, kcVars
<1>4. new \in SUBSET Components
  BY Names
<1>5. \A c \in Components : ~comp[c].row
  BY <1>1 DEF LBInv, GoodAddress
<1>6. /\ comp' \in [Components -> Component]
      /\ \A c \in Components :
           /\ c \notin new => comp'[c] = comp[c]
           /\ c \in new => /\ comp'[c].row /\ comp'[c].uid = 0
                           /\ comp'[c].pending = "" /\ ~comp'[c].deleted
  BY <1>3, <1>4, InsertedRows
<1>7. \A c \in Components : obj[c].uid = 0 /\ ~PostMayLand(c) /\ Gone(c)
  BY <1>5, RowOrNothing
<1>8. \A c \in Components : OnePost(c)' /\ (PostMayLand(c)' <=> PostMayLand(c))
  BY <1>3, SamePosts
<1>9. \A c \in Components : Gone(c)' <=> Gone(c)
  BY <1>3, <1>8 DEF Gone, Present
<1>10. ASSUME NEW c \in Components
       PROVE  GoodPost(c)' /\ GoodComponent(c)' /\ (SafeDelete(c) => SafeDelete(c)')
  <2>1. GoodComponent(c)
    BY DEF LBInv
  <2>2. GoodPost(c)'
    BY <1>7, <1>8 DEF GoodPost
  <2>3. GoodComponent(c)'
    BY <1>3, <1>6, <1>7, <1>9, <2>1 DEF GoodComponent
  <2>4. SafeDelete(c) => SafeDelete(c)'
    <3> SUFFICES ASSUME SafeDelete(c) PROVE SafeDelete(c)'
      OBVIOUS
    <3>1. c # "gateway" /\ c \notin Members
      BY <1>1, <1>5 DEF SafeDelete, Ending
    <3> QED
      BY <1>3, <3>1 DEF SafeDelete
  <2> QED
    BY <2>2, <2>3, <2>4
<1>11. GoodAddress'
  <2>1. ~gen /\ ~bound
    BY <1>7, Names DEF LBInv, GoodAddress
  <2>2. conf' \subseteq {m \in Members : comp'[m].row}
    BY <1>3, <1>6, Names
  <2>3. \A c \in Components \ Members : comp'[c].row
    BY <1>6 DEF Components
  <2> QED
    BY <1>2, <1>3, <2>1, <2>2, <2>3 DEF GoodAddress
<1>12. GoodRefs'
  <2>1. ASSUME NEW m \in Members, comp'[m].row PROVE SubnetOf[m] \in refs'
    <3>1. m \in members
      BY <1>5, <1>6, <2>1, Names
    <3> QED
      BY <1>3, <3>1 DEF SubnetsOf
  <2> QED
    BY <1>2, <2>1 DEF GoodRefs
<1>13. \A v \in Workers : ~lane'[v].held /\ lane'[v].at \notin {"claimed", "begin"}
  BY <1>1, <1>3 DEF LBInv, GoodLane, GoodHolder
<1>14. \A v \in Workers : GoodLane(v)'
  BY <1>3, <1>10, <1>13, LaneWithoutFences
<1>15. \A q \in net' : q.call.action = "delete" => SafeDelete(q.call.c)'
  <2> SUFFICES ASSUME NEW q \in net, q.call.action = "delete" PROVE SafeDelete(q.call.c)'
    BY <1>3
  <2>1. q.call.c \in Components /\ SafeDelete(q.call.c)
    BY DEF LBInv, Types, Request, Call
  <2> QED
    BY <1>10, <2>1
<1>16. Types'
  BY <1>2, <1>3, <1>6 DEF LBInv, Types
<1> QED
  BY <1>8, <1>10, <1>11, <1>12, <1>14, <1>15, <1>16 DEF LBInv

\* Finish records what is true of the components.
LEMMA FinishKeeps ==
  ASSUME LBInv, NEW w \in Workers, Finish(w)
  PROVE  LBInv'
<1>1. PICK p : p = lane[w].prog
  OBVIOUS
<1>2. /\ lane[w] \in Lane /\ p \in Progress /\ lane[w].at = "finish"
      /\ lb \in LBRecord /\ lb.state # "none" /\ GoodProgress(p)
  BY <1>1 DEF LBInv, Types, Lane, GoodLane, GoodHolder, Finish, Fenced
<1>3. lb' \in LBRecord /\ lb'.state = p.state
  <2>1. lb' = [lb EXCEPT !.state = p.state, !.active = lb.active /\ ~p.done,
                         !.applied = IF p.state = "available" THEN lb.desired ELSE lb.applied,
                         !.lease = FALSE]
    BY <1>1, <1>2 DEF Finish, LBRecord
  <2>2. p.state \in States /\ (lb.active /\ ~p.done) \in BOOLEAN
        /\ (IF p.state = "available" THEN lb.desired ELSE lb.applied) \in Nat
    BY <1>2 DEF Progress, LBRecord
  <2> QED
    BY <1>2, <2>1, <2>2 DEF LBRecord
<1>4. /\ UNCHANGED <<conf, net, obj, gen, bound>>
      /\ comp' = CompAfter(p) /\ refs' = RefsAfter(p, comp') /\ claim' = ClaimAfter(p)
      /\ lane' = [Broken(lane) EXCEPT ![w] = Idle]
  BY <1>1 DEF Finish, kcVars
<1>5. ASSUME NEW c \in Components
      PROVE  /\ comp'[c] \in Component /\ comp'[c].row = comp[c].row
             /\ \/ comp'[c] = comp[c]
                \/ LET note == p.comp[c]
                   IN /\ comp'[c].uid = (IF comp[c].uid = 0 THEN note.uid ELSE comp[c].uid)
                      /\ comp'[c].pending = (IF note.clear THEN "" ELSE comp[c].pending)
                      /\ comp'[c].deleted => comp[c].deleted \/ note.gone
                      /\ comp[c].deleted => comp'[c].deleted
  <2>1. comp[c] \in Component /\ p.comp[c] \in Note
    BY <1>2 DEF LBInv, Types, Progress
  <2>2. PICK row, note : row = comp[c] /\ note = p.comp[c]
    OBVIOUS
  <2>3. comp'[c] = row \/ comp'[c] = Saved(row, note, c = "gateway")
    BY <1>4, <2>2 DEF CompAfter
  <2>4. /\ Saved(row, note, c = "gateway") \in Component
        /\ Saved(row, note, c = "gateway").row = row.row
        /\ Saved(row, note, c = "gateway").uid = (IF row.uid = 0 THEN note.uid ELSE row.uid)
        /\ Saved(row, note, c = "gateway").pending = (IF note.clear THEN "" ELSE row.pending)
        /\ Saved(row, note, c = "gateway").deleted => row.deleted \/ note.gone
        /\ row.deleted => Saved(row, note, c = "gateway").deleted
    BY <2>1, <2>2 DEF Saved, Component, Note
  <2> QED
    BY <2>1, <2>2, <2>3, <2>4
<1>6. comp' \in [Components -> Component]
  BY <1>4, <1>5 DEF CompAfter
<1>7. /\ lane' \in [Workers -> Lane]
      /\ \A v \in Workers : \/ lane'[v] = Broken(lane)[v]
                            \/ lane'[v] = Idle /\ lane[v].at # "check"
  BY <1>2, <1>4, BrokenIsTyped, IdleLane
<1>8. claim' \in BOOLEAN /\ (claim' <=> claim /\ p.state # "deleted")
  BY <1>4 DEF ClaimAfter, LBInv, Types
<1>9. /\ \A c \in Components : (PostMayLand(c)' <=> PostMayLand(c)) /\ (Gone(c)' <=> Gone(c))
      /\ AllGone' <=> AllGone
      /\ /\ \A c \in Components :
              GoodPost(c)' /\ GoodComponent(c)' /\ (SafeDelete(c) => SafeDelete(c)')
         /\ GoodAddress' /\ GoodRefs'
         => LBInv'
  BY <1>3, <1>4, <1>6, <1>7, <1>8, FencesBreak DEF LBInv, Types
<1>10. ASSUME NEW c \in Components
       PROVE  GoodPost(c)' /\ GoodComponent(c)' /\ (SafeDelete(c) => SafeDelete(c)')
  <2>1. GoodPost(c) /\ GoodComponent(c) /\ GoodNote(c, p.comp[c])
    BY <1>2 DEF LBInv, GoodProgress
  <2>2. GoodPost(c)'
    BY <1>4, <1>5, <1>9, <2>1 DEF GoodPost, GoodNote, Gone, Present
  <2>3. GoodComponent(c)'
    BY <1>4, <1>5, <1>9, <2>1 DEF GoodComponent, GoodNote
  <2>4. SafeDelete(c) => SafeDelete(c)'
    <3>1. lb.state \in Ending <=> lb'.state \in Ending
      BY <1>2, <1>3 DEF GoodProgress
    <3> QED
      BY <1>4, <1>5, <1>9, <3>1, Names DEF SafeDelete
  <2> QED
    BY <2>2, <2>3, <2>4
<1>11. GoodAddress'
  <2>1. p.state # "none" /\ (lb.state = "deleted" => p.state = "deleted")
    BY <1>2 DEF GoodProgress
  <2>2. GoodAddress
    BY DEF LBInv
  <2>3. \A m \in conf : m \in Members /\ comp'[m].row
    BY <1>5, <2>2, Names DEF GoodAddress
  <2>4. \A c \in Components \ Members : comp'[c].row
    BY <1>2, <1>5, <2>2 DEF GoodAddress
  <2> QED
    BY <1>2, <1>3, <1>4, <1>8, <2>1, <2>2, <2>3, <2>4 DEF GoodAddress
<1>12. GoodRefs'
  <2>1. p.state = "deleted" => AllGone'
    BY <1>2, <1>9 DEF GoodProgress
  <2>2. ASSUME p.state # "deleted", NEW m \in Members, comp'[m].row, ~comp'[m].deleted
        PROVE  SubnetOf[m] \in refs'
    <3>1. lb.state # "deleted" /\ m \in Components
      BY <1>2, <2>2, Names DEF GoodProgress
    <3>2. comp[m].row /\ ~comp[m].deleted
      BY <1>5, <2>2, <3>1
    <3>3. SubnetOf[m] \in refs
      BY <3>1, <3>2 DEF LBInv, GoodRefs
    <3>4. SubnetOf[m] \in SubnetsOf({x \in Members : comp'[x].row /\ ~comp'[x].deleted})
      BY <2>2 DEF SubnetsOf
    <3> QED
      BY <1>4, <2>2, <3>3, <3>4 DEF RefsAfter
  <2> QED
    BY <1>3, <2>1, <2>2 DEF GoodRefs
<1> QED
  BY <1>9, <1>10, <1>11, <1>12

\* The row is marked before the request is made.
LEMMA BeginKeeps ==
  ASSUME LBInv, NEW w \in Workers, BeginLoadBalancerMutation(w)
  PROVE  LBInv'
<1>1. PICK k, p, uid : k = lane[w].call /\ p = lane[w].prog /\ uid = p.comp[k.c].uid
  OBVIOUS
<1>2. PICK c, action : c = k.c /\ action = k.action
  OBVIOUS
<1> DEFINE ok == /\ Fenced(w) /\ MayBegin(c, action, uid)
                 /\ Deleting(Work) => action = "delete"
<1>3. /\ lane[w].at = "begin" /\ lane[w] \in Lane /\ lane \in [Workers -> Lane]
      /\ k \in Call /\ p \in Progress /\ c \in Components /\ uid \in Nat
      /\ action \in Actions \cup {"none"} /\ comp[c] \in Component /\ comp \in [Components -> Component]
  BY <1>1, <1>2
     DEF BeginLoadBalancerMutation, LBInv, Types, Lane, Call, Progress, Note
<1>4. UNCHANGED <<lb, conf, refs, claim, net, obj, gen, bound>>
  BY DEF BeginLoadBalancerMutation, kcVars
<1>5. \/ /\ ok
         /\ comp' = [comp EXCEPT ![c] =
              [comp[c] EXCEPT !.pending = action,
                              !.uid = IF comp[c].uid = 0 THEN uid ELSE comp[c].uid]]
         /\ lane' = [lane EXCEPT ![w].at = "check"]
      \/ lane' = [lane EXCEPT ![w] = Idle] /\ comp' = comp
  BY <1>1, <1>2, Zenon DEF BeginLoadBalancerMutation
<1>6. CASE lane' = [lane EXCEPT ![w] = Idle] /\ comp' = comp
  BY <1>4, <1>6, LaneEnds
<1>7. CASE /\ ok
           /\ comp' = [comp EXCEPT ![c] =
                [comp[c] EXCEPT !.pending = action,
                                !.uid = IF comp[c].uid = 0 THEN uid ELSE comp[c].uid]]
           /\ lane' = [lane EXCEPT ![w].at = "check"]
  <2>1. /\ GoodLane(w) /\ lane[w].held /\ GoodHolder(w) /\ GoodProgress(p) /\ lb.state # "none"
        /\ ~p.comp[c].clear /\ ~p.comp[c].gone /\ comp[c].row /\ action \in Actions
        /\ action = "delete" => SafeDelete(c)
    BY <1>1, <1>2, <1>3, <1>7 DEF LBInv, GoodLane, GoodHolder, Fenced
  <2>2. GoodPost(c) /\ GoodComponent(c) /\ GoodNote(c, p.comp[c]) /\ uid \in {0, obj[c].uid}
    BY <1>1, <1>2, <1>3, <2>1 DEF LBInv, GoodProgress, GoodNote
  <2>3. /\ ~comp[c].deleted /\ comp[c].uid \in {0, uid}
        /\ \/ action = "create" /\ comp[c].pending = "" /\ comp[c].uid = 0
           \/ action = "update" /\ comp[c].uid # 0
           \/ action = "delete" /\ uid # 0
        /\ action # "delete" => lb.state \notin Ending
    BY <1>7, WorkFacts DEF MayBegin
  <2>4. ~PostMayLand(c) /\ (action = "create" => obj[c].uid = 0 /\ uid = 0)
        /\ (action # "create" => obj[c].uid = 1 /\ (comp[c].uid = 1 \/ (comp[c].uid = 0 /\ uid = 1)))
    BY <2>2, <2>3 DEF GoodPost, GoodComponent
  <2>5. PICK row : row = [comp[c] EXCEPT !.pending = action,
                                         !.uid = IF comp[c].uid = 0 THEN uid ELSE comp[c].uid]
    OBVIOUS
  <2>6. /\ row \in Component /\ row.row /\ ~row.deleted /\ row.pending = action
        /\ row.uid = IF comp[c].uid = 0 THEN uid ELSE comp[c].uid
    BY <1>3, <2>1, <2>3, <2>5 DEF Component, Actions
  <2>7. comp' \in [Components -> Component] /\ comp'[c] = row
        /\ \A d \in Components : d # c => comp'[d] = comp[d]
    BY <1>3, <1>7, <2>5, <2>6
  <2>8. /\ lane'[w].at = "check" /\ lane'[w].call = k /\ lane'[w].prog = p
        /\ lane'[w].held = TRUE /\ lane'[w] \in Lane
        /\ \A v \in Workers : v # w => lane'[v] = lane[v]
    BY <1>1, <1>3, <1>7, <2>1 DEF Lane
  <2>9. lane' \in [Workers -> Lane]
    BY <1>3, <1>7, <2>8
  <2>10. Types'
    BY <1>4, <2>7, <2>9 DEF LBInv, Types
  <2>11. \A v \in Workers, d \in Components :
           Sending(v, d)' <=> Sending(v, d) \/ (v = w /\ d = c /\ action = "create")
    BY <1>2, <1>3, <2>8 DEF Sending
  <2>12. \A d \in Components :
           PostMayLand(d)' <=> PostMayLand(d) \/ (d = c /\ action = "create")
    <3> SUFFICES ASSUME NEW d \in Components
                 PROVE  PostMayLand(d)' <=> PostMayLand(d) \/ (d = c /\ action = "create")
      OBVIOUS
    <3>1. PostMayLand(d)' <=> (\E q \in net : IsPost(q, d)) \/ \E v \in Workers : Sending(v, d)'
      BY <1>4 DEF PostMayLand, IsPost, Sending
    <3> QED
      BY <2>11, <3>1, Posts
  <2>13. ASSUME NEW d \in Components PROVE OnePost(d)'
    <3>1. OnePost(d)
      BY DEF LBInv
    <3>2. CASE d = c /\ action = "create"
      <4>1. (\A q \in net : ~IsPost(q, d)) /\ \A v \in Workers : ~Sending(v, d)
        BY <2>4, <3>2, Posts
      <4> QED
        BY <1>4, <2>11, <3>1, <4>1 DEF OnePost, IsPost
    <3>3. CASE ~(d = c /\ action = "create")
      BY <1>4, <2>11, <3>1, <3>3 DEF OnePost, IsPost
    <3> QED
      BY <3>2, <3>3
  <2>14. ASSUME NEW d \in Components, Gone(d), ~(d = c /\ action = "create") PROVE Gone(d)'
    BY <1>4, <2>12, <2>14 DEF Gone, Present
  <2>15. ASSUME NEW d \in Components PROVE GoodPost(d)' /\ GoodComponent(d)'
    <3>1. GoodPost(d) /\ GoodComponent(d)
      BY DEF LBInv
    <3>2. CASE d = c
      BY <1>4, <2>2, <2>3, <2>4, <2>6, <2>7, <2>12, <3>2 DEF GoodPost, GoodComponent
    <3>3. CASE d # c
      BY <1>4, <2>7, <2>12, <2>14, <3>1, <3>3 DEF GoodPost, GoodComponent
    <3> QED
      BY <3>2, <3>3
  <2>16. AllGone /\ lb.state \in Ending => AllGone'
    BY <1>4, <2>3, <2>14 DEF AllGone, Actions
  <2>17. \A d \in Components : comp'[d].row = comp[d].row
    BY <2>1, <2>6, <2>7, <1>3 DEF Component
  <2>18. GoodAddress'
    BY <1>4, <2>17, Names DEF LBInv, GoodAddress
  <2>19. GoodRefs'
    <3>1. \A m \in Members : comp'[m].deleted => comp[m].deleted
      BY <2>6, <2>7, Names
    <3>2. \A m \in Members : comp[m].deleted => comp'[m].deleted
      BY <2>3, <2>7, Names
    <3> QED
      BY <1>4, <2>16, <2>17, <3>2, Names DEF LBInv, GoodRefs, Ending
  <2>20. ASSUME NEW d \in Components, SafeDelete(d) PROVE SafeDelete(d)'
    <3>1. CASE action = "create"
      <4>1. lb.state \notin Ending
        BY <2>3, <3>1
      <4> QED
        BY <1>4, <2>17, <2>20, <4>1 DEF SafeDelete
    <3>2. CASE action # "create"
      <4>1. \A x \in Components : Gone(x) => Gone(x)'
        BY <2>14, <3>2
      <4> QED
        BY <1>4, <2>17, <2>20, <4>1, Names DEF SafeDelete
    <3> QED
      BY <3>1, <3>2
  <2>21. \A q \in net' : q.call.action = "delete" => SafeDelete(q.call.c)'
    <3> SUFFICES ASSUME NEW q \in net, q.call.action = "delete" PROVE SafeDelete(q.call.c)'
      BY <1>4
    <3>1. q.call.c \in Components /\ SafeDelete(q.call.c)
      BY DEF LBInv, Types, Request, Call
    <3> QED
      BY <2>20, <3>1
  <2>22. ASSUME NEW v \in Workers, v # w PROVE GoodLane(v)'
    <3>1. ~lane[v].held /\ lane[v].at \notin {"claimed", "begin"} /\ lane'[v] = lane[v]
      BY <2>1, <2>8, <2>22 DEF LBInv, GoodLane
    <3> QED
      BY <2>20, <3>1, LaneWithoutFences
  <2>23. GoodProgress(p)'
    <3>1. ASSUME NEW d \in Components PROVE GoodNote(d, p.comp[d])'
      <4>1. GoodNote(d, p.comp[d])
        BY <2>1 DEF GoodProgress
      <4>2. CASE d = c
        BY <1>4, <2>1, <4>1, <4>2 DEF GoodNote
      <4>3. CASE d # c
        BY <1>4, <2>7, <2>12, <2>14, <4>1, <4>3 DEF GoodNote
      <4> QED
        BY <4>2, <4>3
    <3>2. p.state = "deleted" => AllGone'
      BY <2>1, <2>16 DEF GoodProgress, Ending
    <3> QED
      BY <1>4, <2>1, <3>1, <3>2 DEF GoodProgress
  <2>24. GoodProgress(lane[w].prog)'
    BY <2>8, <2>23 DEF GoodProgress, GoodNote
  <2>25. GoodHolder(w)'
    BY <1>2, <1>4, <2>1, <2>6, <2>7, <2>8, <2>24 DEF GoodHolder
  <2>26. action = "delete" => SafeDelete(lane[w].call.c)'
    <3>1. action = "delete" => SafeDelete(c)'
      BY <1>3, <2>1, <2>20
    <3> QED
      BY <1>2, <2>8, <3>1 DEF SafeDelete
  <2>27. GoodLane(w)'
    <3>1. \A v \in Workers : lane'[v].held => v = w
      BY <2>1, <2>8 DEF GoodLane
    <3> QED
      BY <1>2, <2>8, <2>25, <2>26, <3>1 DEF GoodLane
  <2> QED
    BY <2>10, <2>13, <2>15, <2>18, <2>19, <2>21, <2>22, <2>27 DEF LBInv
<1> QED
  BY <1>5, <1>6, <1>7

-----------------------------------------------------------------------------
\* Initially there is nothing.
LEMMA LBInit ==
  ASSUME Init
  PROVE  LBInv
<1>1. Types
  <2>1. lb \in LBRecord
    BY DEF Init, LBRecord, States
  <2>2. NoComponent \in Component /\ NoObject \in Object
    BY DEF NoComponent, Component, NoObject, Object, ObjectSpec
  <2>3. comp \in [Components -> Component] /\ obj \in [Components -> Object]
    BY <2>2 DEF Init
  <2>4. lane \in [Workers -> Lane]
    BY IdleLane DEF Init
  <2> QED
    BY <2>1, <2>3, <2>4 DEF Init, Types
<1>2. /\ lb.state = "none" /\ conf = {} /\ refs = {} /\ net = {} /\ ~gen /\ ~bound
      /\ \A c \in Components : /\ ~comp[c].row /\ comp[c].uid = 0 /\ ~comp[c].deleted
                               /\ obj[c].uid = 0 /\ obj[c].phase = "absent"
      /\ \A w \in Workers : lane[w].at = "idle" /\ ~lane[w].held
  BY IdleLane DEF Init, NoComponent, NoObject
<1>3. \A c \in Components : OnePost(c) /\ ~PostMayLand(c)
  BY <1>2 DEF OnePost, PostMayLand, Sending
<1>4. \A c \in Components : GoodPost(c) /\ GoodComponent(c)
  BY <1>2, <1>3 DEF GoodPost, GoodComponent, Gone, Present
<1>5. GoodAddress /\ GoodRefs
  BY <1>2, Names DEF GoodAddress, GoodRefs
<1>6. \A w \in Workers : GoodLane(w)
  BY <1>2 DEF GoodLane
<1> QED
  BY <1>1, <1>2, <1>3, <1>4, <1>5, <1>6 DEF LBInv

\* Every step preserves the invariant.
LEMMA LBNext ==
  ASSUME LBInv, [Next]_vars
  PROVE  LBInv'
<1>1. ASSUME NEW members \in SUBSET Members, CreateLB(members) \/ UpdateLB(members)
      PROVE  LBInv'
  BY <1>1, CreateLBKeeps, UpdateLBKeeps
<1>2. CASE DeleteLB
  BY <1>2, DeleteLBKeeps
<1>3. ASSUME NEW w \in Workers, LaneStep(w) PROVE LBInv'
  BY <1>3, ClaimKeeps, ObserveKeeps, BeginKeeps, CheckKeeps, FinishKeeps, CrashKeeps
     DEF LaneStep
<1>4. ASSUME NEW w \in Workers, LaneFails(w) PROVE LBInv'
  BY <1>4, ObserveKeeps, CheckKeeps, CrashKeeps DEF LaneFails
<1>5. ASSUME NEW q \in net, Provider(q) \/ Refuse(q) PROVE LBInv'
  BY <1>5, ProviderKeeps
<1>6. CASE LeaseExpires \/ Controllers \/ World
  BY <1>6, LeaseExpiresKeeps, ControllersKeep, WorldKeeps
<1>7. CASE UNCHANGED vars
  BY <1>7, ObjectsMove DEF vars, rows, kcVars, LBInv, Types
<1> QED
  BY <1>1, <1>2, <1>3, <1>4, <1>5, <1>6, <1>7 DEF Next

\* The invariant implies what the runs check.
LEMMA LBInvIsSafe ==
  ASSUME LBInv
  PROVE  LBSafety
<1>1. \A c \in Components : Present(c) => comp[c].row
  BY RowOrNothing DEF Gone
<1>2. CleanupOrder
  BY DEF LBInv, CleanupOrder, SafeDelete, Gone
<1>3. DeletedIsGone
  BY DEF LBInv, GoodRefs, AllGone, Gone, DeletedIsGone
<1>4. ClaimCoversAddress
  <2>1. CASE lb.state = "none"
    BY <2>1, RowOrNothing, Names DEF LBInv, GoodAddress, Gone, ClaimCoversAddress
  <2>2. CASE lb.state = "deleted"
    BY <2>2, Names DEF LBInv, GoodRefs, AllGone, Gone, ClaimCoversAddress
  <2>3. CASE lb.state \notin {"none", "deleted"}
    BY <2>3 DEF LBInv, GoodAddress, ClaimCoversAddress
  <2> QED
    BY <2>1, <2>2, <2>3
<1>5. SubnetStaysWhileUsed
  <2> SUFFICES ASSUME NEW m \in Members, Present(m) PROVE SubnetOf[m] \in refs
    BY DEF SubnetStaysWhileUsed
  <2>1. m \in Components /\ comp[m].row
    BY <1>1, Names
  <2>2. ~comp[m].deleted /\ lb.state # "deleted"
    BY <2>1 DEF LBInv, GoodComponent, GoodRefs, AllGone, Gone
  <2> QED
    BY <2>1, <2>2 DEF LBInv, GoodRefs
<1>6. CreatedOnce
  BY DEF LBInv, GoodComponent, CreatedOnce
<1> QED
  BY <1>2, <1>3, <1>4, <1>5, <1>6 DEF LBSafety

\* Rows, lanes, requests and objects of a load balancer always agree (LBInv).
THEOREM LBInvariant == Spec => []LBInv
<1>1. Init => LBInv
  BY LBInit
<1>2. LBInv /\ [Next]_vars => LBInv'
  BY LBNext
<1> QED
  BY <1>1, <1>2, PTL DEF Spec

\* The removal keeps its order, references and claims cover what exists, no
\* component is created twice, and "deleted" means that nothing is left or can
\* come back (stepLoadBalancer, finishLB), for any members, lanes and bounds.
THEOREM LBIsSafe == Spec => []LBSafety
<1>1. LBInv => LBSafety
  BY LBInvIsSafe
<1> QED
  BY <1>1, LBInvariant, PTL
=============================================================================
