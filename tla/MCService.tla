----------------------------- MODULE MCService -----------------------------
(***************************************************************************)
(* The service around its resources, for TLC, side by side:                *)
(*   process     the life of a process over a database (Process)           *)
(*   migrations  three releases migrate one database (Migration)           *)
(*   keys        repeated and concurrent commands under one key            *)
(*   changes     concurrent changes of one row                             *)
(*   pairs       any two transactions, and                                 *)
(*   crowds      any three of those that lock most (all four: Admission)   *)
(*   pages       readings of a collection that changes                     *)
(*   scope       readings of several collections (both: Listing)           *)
(*                                                                         *)
(* They share no variable, or are instances of one module over the same    *)
(* variables, so a behaviour takes the steps of one of them, chosen at the *)
(* start, while the variables of the others stay as they began.            *)
(***************************************************************************)
EXTENDS Process, TLC

CONSTANTS Parts,        \* what to choose from
          Disturbances, \* bound on what happens to a running process
          c1, c2, c3    \* callers

VARIABLES call, accepted, namespaces, newVpcs, version, ready, lapsed, calls, flips,
          state, at, clock, walk, issued, changes, walks,
          part       \* whose steps the behaviour takes

onlyAdmission == <<call, accepted, namespaces, newVpcs, version, ready, lapsed, calls, flips>>
onlyListing   == <<state, at, clock, walk, issued, changes, walks>>

-----------------------------------------------------------------------------
(* Releases: the second adds a file, and the third disagrees about it.     *)
Files == ("m1" :> <<"a">>) @@ ("m2" :> <<"a", "b">>) @@ ("m3" :> <<"a", "c", "d">>)
             @@ ("old" :> <<"a">>)

OneProcess == [p \in {"old"} |-> {"resource", "attachment"}]

\* Around a running process two of them migrate, without failures; an outage,
\* a failure and the second release count as disturbances.
Quietly ==
  /\ failures' = failures /\ tx'["m3"] = tx["m3"]
  /\ faults' + outages' + Len(schema') <= 1 + Disturbances

-----------------------------------------------------------------------------
\* A request of which only the named fields matter.
Request(cmd) ==
  [cmd |-> cmd, tenant |-> "t", key |-> "none", intent |-> "a", vpc |-> "v1", nextVpc |-> "v2",
   vpcs |-> <<"v1", "v2">>, subnet |-> 1, subnets |-> {1, 2}, eip |-> "e", pool |-> "p",
   row |-> "none", parents |-> <<>>, instance |-> "i", kind |-> "none", expected |-> 0]

\* A request under the key "k" with each of two intents.
Keyed(r) == {[r EXCEPT !.key = "k", !.intent = i] : i \in {"a", "b"}}

\* A subnet key may be repeated against another parent.
KeyedCreations ==
  UNION {Keyed(Request(cmd)) :
           cmd \in {"create_vpc", "create_subnet", "create_eip", "prepare_attachment", "adopt_device"}}
    \cup Keyed([Request("create_vlan") EXCEPT !.parents = <<"device">>])
    \cup {[Request("create_subnet") EXCEPT !.key = "k", !.vpc = "v2", !.intent = "b"]}

\* Two changes of each row, with the same expected version and with the next,
\* and a verification, whose evidence may expire before it is sent again;
\* the removals and the workers' writes change the versions too.
Changes ==
  {[Request(q[1]) EXCEPT !.row = q[2], !.key = key, !.expected = v] :
     q \in {<<"set_snat_enabled", "s">>, <<"update_load_balancer", "l">>, <<"change_pool", "p">>},
     key \in {"k", "m"}, v \in {0, 1}}
    \cup {[Request("verify_pool") EXCEPT !.row = "p", !.key = "k"],
          [Request("delete_snat") EXCEPT !.row = "s"],
          [Request("delete_load_balancer") EXCEPT !.row = "l"],
          [Request("delete_platform") EXCEPT !.row = "p"],
          [Request("work") EXCEPT !.kind = "snat", !.row = "s"]}

\* Every transaction there is, once per order of its locks.
Transactions ==
  {[Request(k) EXCEPT !.key = "k"] :
     k \in {"create_vpc", "create_subnet", "create_eip", "prepare_attachment",
            "bind_snat", "create_load_balancer"}}
    \cup {[Request("create_pool") EXCEPT !.key = "k", !.parents = <<"gateway", "vlan">>],
          [Request("change_pool") EXCEPT !.key = "k", !.row = "p"],
          [Request("set_snat_enabled") EXCEPT !.key = "k", !.row = "s"],
          [Request("update_load_balancer") EXCEPT !.key = "k", !.row = "l"]}
    \cup {Request(k) : k \in {"delete_vpc", "delete_subnet", "delete_eip", "confirm_attachment",
                              "dispatch", "set_new_vpcs", "activate_legacy"}}
    \cup {[Request(k) EXCEPT !.row = "s"] : k \in {"claim", "cancel_base"}}
    \cup {[Request("claim") EXCEPT !.row = "s", !.vpc = "v2", !.nextVpc = "v1"],
          [Request("claim_lb") EXCEPT !.row = "l"],
          [Request("finish_platform") EXCEPT !.row = "p"],
          [Request("create_subnet") EXCEPT !.key = "k", !.vpc = "v2", !.subnet = 3]}
    \cup {[Request("work") EXCEPT !.kind = "lb", !.row = "l"],
          [Request("work") EXCEPT !.kind = "subnet"],
          [Request("work") EXCEPT !.kind = "eip"],
          [Request("work") EXCEPT !.kind = "eip", !.vpc = "none"]}

Crowded ==
  {r \in Transactions :
     r.cmd \in {"create_vpc", "update_load_balancer", "claim", "delete_subnet", "dispatch",
                "activate_legacy", "change_pool"}}

TwoCallers   == {c1, c2}
ThreeCallers == {c1, c2, c3}

Keys ==
  INSTANCE Admission
    WITH Calls <- TwoCallers, Requests <- KeyedCreations, Registered <- {},
         InitialNewVpcs <- FALSE, MaxCalls <- 3, MaxFlips <- 1
Updates ==
  INSTANCE Admission
    WITH Calls <- TwoCallers, Requests <- Changes, Registered <- {"t"},
         InitialNewVpcs <- TRUE, MaxCalls <- 3, MaxFlips <- 1
Pairs ==
  INSTANCE Admission
    WITH Calls <- TwoCallers, Requests <- Transactions, Registered <- {"t"},
         InitialNewVpcs <- TRUE, MaxCalls <- 2, MaxFlips <- 0
Crowds ==
  INSTANCE Admission
    WITH Calls <- ThreeCallers, Requests <- Crowded, Registered <- {"t"},
         InitialNewVpcs <- TRUE, MaxCalls <- 3, MaxFlips <- 0

-----------------------------------------------------------------------------
Row(kind, tenant, name, parent, shown) ==
  [kind |-> kind, tenant |-> tenant, name |-> name, parent |-> parent, shown |-> shown]
Ask(kind, state0, parent) ==
  [kind |-> kind, tenant |-> "t", name |-> "", state |-> state0, parent |-> parent]

\* Subnets of two VPCs, three of one instant; the last two are created while
\* the client reads.
SubnetRows ==
  [i \in 1..6 |-> Row("subnet", "t", "n", IF i \in {2, 6} THEN "v2" ELSE "v1", TRUE)]
SubnetStart == <<1, 2, 2, 2, 0, 0>>
SubnetQueries == {Ask("subnet", "", ""), Ask("subnet", "available", ""), Ask("subnet", "", "v1")}

\* EIPs of the tenant, of the system and of another tenant, and rows of the
\* other collections.
MixedRows ==
  <<Row("eip", "t", "n", "", TRUE), Row("eip", "t", "n", "", FALSE), Row("eip", "u", "n", "", TRUE),
    Row("eip", "t", "n", "", TRUE), Row("load_balancer", "t", "n", "v1", TRUE),
    Row("load_balancer", "t", "n", "v1", FALSE), Row("intranet_pool", "t", "n", "", TRUE),
    Row("public_pool", "t", "n", "", TRUE), Row("vpc", "t", "n", "", TRUE)>>
MixedStart == <<1, 1, 2, 2, 2, 2, 1, 1, 0>>
MixedQueries ==
  {Ask(k, "", "") : k \in {"eip", "vpc", "load_balancer", "public_pool", "intranet_pool"}}
    \cup {Ask("eip", "available", ""), Ask("load_balancer", "", "v1")}

Pages ==
  INSTANCE Listing
    WITH Ids <- 1..6, Fixed <- SubnetRows, Starting <- SubnetStart, Queries <- SubnetQueries,
         Limit <- 2, MaxClock <- 3, MaxChanges <- 2, MaxWalks <- 2
Scope ==
  INSTANCE Listing
    WITH Ids <- 1..9, Fixed <- MixedRows, Starting <- MixedStart, Queries <- MixedQueries,
         Limit <- 1, MaxClock <- 3, MaxChanges <- 2, MaxWalks <- 2

ASSUME ListingAssumption == Pages!ListingConstants /\ Scope!ListingConstants

-----------------------------------------------------------------------------
Callers == Permutations({c1, c2, c3})

\* A component that takes no step begins somewhere.
MCInit ==
  /\ part \in Parts
  /\ Init
  /\ part # "migrations" => database = "empty"
  /\ CASE part = "keys"    -> Keys!Init
       [] part = "changes" -> Updates!Init
       [] part = "crowds"  -> Crowds!Init
       [] OTHER            -> Pairs!Init
  /\ IF part = "scope" THEN Scope!Init ELSE Pages!Init

MCNext ==
  /\ \/ part = "process" /\ Next /\ Quietly /\ UNCHANGED <<onlyAdmission, onlyListing>>
     \/ /\ part = "migrations" /\ \E m \in Migrators : Migrate(m)
        /\ UNCHANGED <<processVars, onlyAdmission, onlyListing>>
     \/ /\ \/ part = "keys" /\ Keys!Next
           \/ part = "changes" /\ Updates!Next
           \/ part = "pairs" /\ Pairs!Next
           \/ part = "crowds" /\ Crowds!Next
        /\ UNCHANGED <<vars, onlyListing>>
     \/ /\ \/ part = "pages" /\ Pages!Next
           \/ part = "scope" /\ Scope!Next
        /\ UNCHANGED <<vars, onlyAdmission>>
  /\ UNCHANGED part

MCSpec == MCInit /\ [][MCNext]_<<vars, onlyAdmission, onlyListing, part>>

\* Admission: a key stands for one intent and a version for one change.
KeySafety ==
  /\ part = "keys" => Keys!KeySafety
  /\ part = "changes" => Updates!KeySafety
  /\ part = "pairs" => Pairs!KeySafety

\* Admission: transactions never wait for each other in a circle, once the
\* tenant's namespace exists.
NoWaitCycle ==
  /\ part = "changes" => Updates!NoWaitCycle
  /\ part = "pairs" => Pairs!NoWaitCycle
  /\ part = "crowds" => Crowds!NoWaitCycle

\* Listing: a reading lists every row it should once, and nothing else.
ReadingIsExact ==
  /\ part = "pages" => Pages!ReadingIsExact
  /\ part = "scope" => Scope!ReadingIsExact
=============================================================================
