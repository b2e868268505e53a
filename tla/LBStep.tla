------------------------------- MODULE LBStep -------------------------------
(***************************************************************************)
(* The decision of one step on a load balancer (Worker.stepLoadBalancer):  *)
(* which of its components to create, update or delete next, and what to   *)
(* record.  Pure operators over                                            *)
(*                                                                         *)
(*   work  the claimed rows: state, active, desired and applied version,   *)
(*         conf (the members of the desired version) and comp              *)
(*   seen  what was observed: the objects (obj), the members that are      *)
(*         still the workloads they were accepted for (elig), deps,        *)
(*         foreign (generated objects of somebody else), released, served  *)
(*         and the components whose conditions are good (good)             *)
(*                                                                         *)
(* The backend component of a member is named by the member.               *)
(***************************************************************************)
EXTENDS Integers, Sequences, SequencesExt

CONSTANT Members

Components == {"gateway", "route", "policy"} \cup Members
KindOf(c)  == IF c \in Members THEN "backend" ELSE c
Actions    == {"create", "update", "delete"}

Deleting(work) == work.state \in {"deleting", "deleted"}

AllEligible(work, seen) == work.conf # {} /\ work.conf \subseteq seen.elig

-----------------------------------------------------------------------------
(***************************************************************************)
(* The object a component should be (lbDesiredObject): the configuration   *)
(* version it is labelled with and, of a route, the members it refers to.  *)
(* The route leaves out members that lost their identity.                  *)
(***************************************************************************)
DesiredSpec(work, seen, c) ==
  [ver  |-> IF c \in {"route", "policy"} THEN work.desired ELSE 1,
   refs |-> IF c = "route" THEN work.conf \cap seen.elig ELSE {}]

Exists(seen, c)  == seen.obj[c].phase # "absent"
Matches(work, seen, c) ==
  Exists(seen, c) /\ seen.obj[c].spec = DesiredSpec(work, seen, c)
Ready(work, seen, c) ==
  Matches(work, seen, c) /\ seen.obj[c].phase = "live" /\ c \in seen.good

\* lbRouteCurrent.
RouteCurrent(work, seen) == Ready(work, seen, "route")

-----------------------------------------------------------------------------
(***************************************************************************)
(* What the step makes of one component.                                   *)
(***************************************************************************)
Retired(work, c) == c \in Members \ work.conf

Removes(work, c) == Deleting(work) \/ Retired(work, c)

Verdict(work, seen, c) ==
  LET known == work.comp[c]
  IN IF Exists(seen, c) /\ known.uid \notin {0, seen.obj[c].uid} THEN "foreign"
     ELSE IF Retired(work, c) /\ ~Deleting(work) /\ ~RouteCurrent(work, seen) THEN "waits"
     ELSE IF ~Exists(seen, c) /\ known.pending = "create" THEN "unknown"
     ELSE IF Removes(work, c) THEN
       IF ~Exists(seen, c) THEN "gone"
       ELSE IF seen.obj[c].phase = "live" THEN "delete" ELSE "draining"
     ELSE IF ~Exists(seen, c) THEN
       IF known.uid # 0 \/ known.deleted \/ ~work.active THEN "missing"
       ELSE IF seen.deps /\ AllEligible(work, seen) THEN "create" ELSE "unready"
     ELSE IF ~Matches(work, seen, c) THEN
       IF c \in {"route", "policy"} THEN "update" ELSE "foreign"
     ELSE IF Ready(work, seen, c) THEN "ready" ELSE "unready"

-----------------------------------------------------------------------------
(***************************************************************************)
(* The order of the components.  A route that must stop using a member     *)
(* goes first; the backends go last, after the addresses are free.         *)
(***************************************************************************)
Backends(work) == SetToSeq({c \in Members : work.comp[c].row})

Order_GatewayFirst(work, seen) ==
  IF Deleting(work) THEN
    IF seen.foreign THEN <<"route", "policy">>
    ELSE <<"gateway", "route", "policy">>
           \o IF seen.released THEN Backends(work) ELSE <<>>
  ELSE IF ~AllEligible(work, seen) THEN
    IF seen.foreign THEN <<"route">>
                    ELSE <<"route">> \o Backends(work) \o <<"gateway", "policy">>
  ELSE IF seen.foreign THEN <<>>
                       ELSE Backends(work) \o <<"gateway", "policy", "route">>

Order(work, seen) ==
  IF Deleting(work) THEN
    IF seen.foreign THEN <<"route", "policy">>
    ELSE <<"route", "policy", "gateway">>
           \o IF seen.released THEN Backends(work) ELSE <<>>
  ELSE IF ~AllEligible(work, seen) THEN
    IF seen.foreign THEN <<"route">>
                    ELSE <<"route">> \o Backends(work) \o <<"gateway", "policy">>
  ELSE IF seen.foreign THEN <<>>
                       ELSE Backends(work) \o <<"gateway", "policy", "route">>

\* The components the loop reaches, with its verdict on them.  It ends at
\* the first one that needs a request or cannot be judged; a missing one ends
\* its kind only; a removal goes on to the next kind when everything of the
\* kinds before it is gone and nobody else has generated objects here.
Reached(work, seen) ==
  LET order == Order(work, seen)
      v     == [i \in DOMAIN order |-> Verdict(work, seen, order[i])]
      Same(i, j) == KindOf(order[i]) = KindOf(order[j])
      Missed(i)  == \E j \in 1..(i - 1) : Same(i, j) /\ v[j] = "missing"
      Ends(j)    == ~Missed(j) /\ v[j] \in {"foreign", "unknown"} \cup Actions
      Held(i)    == /\ Deleting(work)
                    /\ \E j \in 1..(i - 1) : ~Same(i, j) /\ (seen.foreign \/ v[j] # "gone")
  IN {<<order[i], v[i]>> : i \in {k \in DOMAIN order :
        ~Missed(k) /\ ~Held(k) /\ \A j \in 1..(k - 1) : ~Ends(j)}}

\* The one request of a step, if any.
Requests(reached) == {r \in reached : r[2] \in Actions}

AllReady(work, seen, reached) ==
  /\ ~seen.foreign
  /\ Deleting(work) => seen.released
  /\ \A c \in ToSet(Order(work, seen)) :
       \E r \in reached : r[1] = c /\ r[2] \in {"gone", "ready"}

-----------------------------------------------------------------------------
(***************************************************************************)
(* What Finish will record.                                                *)
(***************************************************************************)
\* Per component: the identity, whether the pending action is over, whether
\* the component is gone for good.
Noted(work, seen, reached, c) ==
  LET gone == <<c, "gone">> \in reached
  IN [uid   |-> IF Exists(seen, c) THEN seen.obj[c].uid ELSE 0,
      clear |-> \/ gone
                \/ /\ Matches(work, seen, c) /\ work.comp[c].pending # "delete"
                   /\ {<<c, "ready">>, <<c, "unready">>} \cap reached # {},
      gone  |-> gone]

LBProgress(work, seen, reached) ==
  LET ready == AllReady(work, seen, reached)
      configured == ready /\ AllEligible(work, seen) /\ seen.deps /\ seen.served
  IN [observed |-> TRUE,
      comp     |-> [c \in Components |-> Noted(work, seen, reached, c)],
      state    |-> IF Deleting(work) THEN IF ready THEN "deleted" ELSE work.state
                   ELSE IF configured THEN "available"
                   ELSE IF work.applied > 0 THEN "degraded" ELSE work.state,
      done     |-> IF Deleting(work) THEN ready ELSE configured]

\* ObserveLoadBalancer failed: nothing is recorded of the components.
LBUnobserved(work) ==
  [observed |-> FALSE,
   comp     |-> [c \in Components |-> [uid |-> 0, clear |-> FALSE, gone |-> FALSE]],
   state    |-> IF work.state = "available" THEN "degraded" ELSE work.state,
   done     |-> FALSE]

\* The answer to the request.
LBAnswered(prog, c, action, answer, uid) ==
  [prog EXCEPT !.comp[c] =
     [uid   |-> IF answer = "ok" /\ uid # 0 THEN uid ELSE @.uid,
      clear |-> IF answer = "ok" THEN action # "delete" ELSE answer # "uncertain",
      gone  |-> @.gone]]
=============================================================================
