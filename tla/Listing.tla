------------------------------ MODULE Listing ------------------------------
(***************************************************************************)
(* Reading a collection page by page: normalizeList, the signed cursors    *)
(* and the List* functions of internal/biz/network with their queries,     *)
(* while rows are created, change state and are deleted between the pages. *)
(* The creation time of a row is read inside its transaction, so a row may *)
(* become visible after rows that are younger; equal times are told apart  *)
(* by the identifier.  Nothing is remembered between two pages but what    *)
(* the cursor carries, and a client may present any cursor it was given.   *)
(***************************************************************************)
EXTENDS Naturals, Sequences, SequencesExt, FiniteSets

CONSTANTS Ids,          \* row identifiers, a set of naturals in their order
          Fixed,        \* per identifier: kind, tenant, name, parent, shown
          Starting,     \* per identifier: creation time, 0 when not yet created
          Queries,      \* what the client asks for: kind, tenant, name, state, parent
          Limit,        \* the page size asked for
          MaxClock, MaxChanges, MaxWalks   \* bounds

\* What an instance must satisfy.
ListingConstants == Limit \in Nat \ {0} /\ Ids \subseteq Nat

VARIABLES state,        \* of each row: absent, writing (uncommitted), or a resource state
          at,           \* its created_at
          clock,
          walk,         \* the client's reading of one query
          issued,       \* every cursor handed out
          changes, walks

vars == <<state, at, clock, walk, issued, changes, walks>>

NoQuery == [kind |-> "", tenant |-> "", name |-> "", state |-> "", parent |-> ""]
Start == [query |-> NoQuery, id |-> 0, at |-> 0]    \* no cursor: the first page

NoWalk == [st |-> "none", query |-> NoQuery, cursor |-> Start, seen |-> [i \in Ids |-> 0], throughout |-> {}]

Init ==
    /\ state = [i \in Ids |-> IF Starting[i] = 0 THEN "absent" ELSE "available"]
    /\ at = Starting
    /\ clock = 1
    /\ walk = NoWalk
    /\ issued = {}
    /\ changes = 0 /\ walks = 0

-----------------------------------------------------------------------------
(* The queries. *)

Visible(i) == state[i] \notin {"absent", "writing"}

\* The conditions all queries share: the name, and the state, where no state
\* stands for everything but deleted.
Common(q, i) ==
    /\ Visible(i)
    /\ q.name = "" \/ q.name = Fixed[i].name
    /\ IF q.state = "" THEN state[i] # "deleted" ELSE state[i] = q.state

Of(q, i) == Fixed[i].kind = q.kind /\ Fixed[i].tenant = q.tenant
Under(q, i) == q.parent = "" \/ q.parent = Fixed[i].parent

\* VPCs and Subnets of the tenant; its own public EIPs and not those of the
\* system; load balancers whose admission is complete; platform resources of
\* the kind, where pools of the two scopes are different kinds.
SelectVPCs(q, i) == Of(q, i) /\ Common(q, i)
SelectSubnets(q, i) == Of(q, i) /\ Common(q, i) /\ Under(q, i)
SelectEIPs(q, i) == Of(q, i) /\ Common(q, i) /\ Fixed[i].shown
SelectLBs(q, i) == Of(q, i) /\ Common(q, i) /\ Under(q, i) /\ Fixed[i].shown
SelectPlatform(q, i) == Of(q, i) /\ Common(q, i)
SelectIntranetPools(q, i) == Fixed[i].kind = "intranet_pool" /\ Common(q, i)

\* ORDER BY created_at DESC, id DESC; the keyset condition continues below.
Younger(i, j) == at[i] > at[j] \/ (at[i] = at[j] /\ i > j)
Below(c, i) == c = Start \/ at[i] < c.at \/ (at[i] = c.at /\ i < c.id)

\* normalizeList asks for one row more than the page holds.
normalizeList(limit) == limit + 1

Ordered(rows, c) ==
    LET all == SetToSortSeq({i \in rows : Below(c, i)}, Younger) IN
    SubSeq(all, 1, IF Len(all) < normalizeList(Limit) THEN Len(all) ELSE normalizeList(Limit))

ListVPCs(q, c) == Ordered({i \in Ids : SelectVPCs(q, i)}, c)
ListSubnets(q, c) == Ordered({i \in Ids : SelectSubnets(q, i)}, c)
ListEIPs(q, c) == Ordered({i \in Ids : SelectEIPs(q, i)}, c)
ListLoadBalancers(q, c) == Ordered({i \in Ids : SelectLBs(q, i)}, c)
ListPlatform(q, c) ==
    IF q.kind = "intranet_pool"
    THEN Ordered({i \in Ids : SelectIntranetPools(q, i)}, c)
    ELSE Ordered({i \in Ids : SelectPlatform(q, i)}, c)

-----------------------------------------------------------------------------
(* Pages and cursors. *)

\* VPCs and Subnets: the loop stops at the extra row.
PageByLoop(rows) ==
    [items |-> SubSeq(rows, 1, IF Len(rows) > Limit THEN Limit ELSE Len(rows)),
     more |-> Len(rows) > Limit]
\* The others: a full result is cut by its last row.
PageByCut(rows) ==
    IF Len(rows) = normalizeList(Limit)
    THEN [items |-> Front(rows), more |-> TRUE]
    ELSE [items |-> rows, more |-> FALSE]

PageVPCs(q, c) == PageByLoop(ListVPCs(q, c))
PageSubnets(q, c) == PageByLoop(ListSubnets(q, c))
PageEIPs(q, c) == PageByCut(ListEIPs(q, c))
PageLoadBalancers(q, c) == PageByCut(ListLoadBalancers(q, c))
PagePlatform(q, c) == PageByCut(ListPlatform(q, c))

PageOf(q, c) ==
    CASE q.kind = "vpc" -> PageVPCs(q, c)
      [] q.kind = "subnet" -> PageSubnets(q, c)
      [] q.kind = "eip" -> PageEIPs(q, c)
      [] q.kind = "load_balancer" -> PageLoadBalancers(q, c)
      [] OTHER -> PagePlatform(q, c)

\* A cursor is bound to its query: the kind (which holds the parent filters of a
\* load balancer query), the tenant, name, state and parent.  It is signed, so
\* only cursors that were handed out exist.
encodeCursor_Standing(q, items) ==
    [query |-> q, id |-> Head(items), at |-> at[Head(items)]]
encodeCursor(q, items) ==
    [query |-> q, id |-> Last(items), at |-> at[Last(items)]]
decodeCursor(q, c) == c = Start \/ c.query = q

\* What a reading should list.
Matches(q, i) ==
    CASE q.kind = "vpc" -> SelectVPCs(q, i)
      [] q.kind = "subnet" -> SelectSubnets(q, i)
      [] q.kind = "eip" -> SelectEIPs(q, i)
      [] q.kind = "load_balancer" -> SelectLBs(q, i)
      [] q.kind = "intranet_pool" -> SelectIntranetPools(q, i)
      [] OTHER -> SelectPlatform(q, i)

\* One call of a List function.  What matches from the first page on is kept
\* up to date as the rows change.
Open(q) ==
    /\ walk.st # "open"
    /\ walks < MaxWalks
    /\ walks' = walks + 1
    /\ walk' = [st |-> "open", query |-> q, cursor |-> Start, seen |-> [i \in Ids |-> 0],
                throughout |-> {i \in Ids : Matches(q, i)}]
    /\ UNCHANGED <<state, at, clock, issued, changes>>

\* How often each row was listed; twice stands for more.
Listed(seen, items) ==
    [i \in Ids |-> IF i \in ToSet(items) /\ seen[i] < 2 THEN seen[i] + 1 ELSE seen[i]]

List(c) ==
    /\ walk.st = "open"
    /\ \E page \in {PageOf(walk.query, c)} :
         IF ~decodeCursor(walk.query, c)
         THEN walk' = [walk EXCEPT !.st = "refused"] /\ UNCHANGED issued
         ELSE IF page.more
         THEN \E next \in {encodeCursor(walk.query, page.items)} :
                /\ walk' = [walk EXCEPT !.seen = Listed(@, page.items), !.cursor = next]
                /\ issued' = issued \cup {next}
         ELSE /\ walk' = [walk EXCEPT !.seen = Listed(@, page.items), !.st = "ended"]
              /\ UNCHANGED issued
    /\ UNCHANGED <<state, at, clock, changes, walks>>

\* The client goes on with its cursor, or tries one of another query that is
\* further down, which is refused.
Continue == List(walk.cursor)
Jump ==
    \E c \in issued :
        /\ walk.cursor # Start /\ Below(walk.cursor, c.id)
        /\ c.query # walk.query
        /\ List(c)

-----------------------------------------------------------------------------
(* The rows meanwhile. *)

Keep ==
    \E q \in {walk.query} :
        walk' = [walk EXCEPT !.throughout = {i \in @ : Matches(q, i)'}]

Begin(i) ==
    /\ state[i] = "absent"
    /\ \E now \in {clock, clock + 1} :
         /\ now <= MaxClock
         /\ clock' = now
         /\ at' = [at EXCEPT ![i] = now]
    /\ state' = [state EXCEPT ![i] = "writing"]
    /\ UNCHANGED <<walk, issued, changes, walks>>

Change(i, s) ==
    /\ changes < MaxChanges
    /\ changes' = changes + 1
    /\ CASE state[i] = "writing" -> s \in {"available", "absent"}
         [] state[i] = "available" -> s \in {"degraded", "deleting"}
         [] state[i] = "degraded" -> s \in {"available", "deleting"}
         [] state[i] = "deleting" -> s = "deleted"
         [] OTHER -> FALSE
    /\ state' = [state EXCEPT ![i] = s]
    /\ Keep
    /\ UNCHANGED <<at, clock, issued, walks>>

Next ==
    \/ Continue \/ Jump
    \/ \E q \in Queries : Open(q)
    \/ \E i \in Ids : Begin(i) \/ \E s \in {"available", "absent", "degraded", "deleting", "deleted"} : Change(i, s)

Spec == Init /\ [][Next]_vars

-----------------------------------------------------------------------------
(* Properties. *)

\* No row is listed twice by one reading, whatever is created, changed or
\* deleted between its pages.
ListedOnce == \A i \in Ids : walk.seen[i] <= 1

\* A reading that has come to its end has listed every row that matched it from
\* the first page to the last.
NothingMissed == walk.st = "ended" => \A i \in walk.throughout : walk.seen[i] >= 1

\* A reading never shows a row of another tenant or kind, nor one the service
\* keeps for itself (the system's EIPs, an unfinished load balancer).
NothingForeign ==
    \A i \in {j \in Ids : walk.seen[j] >= 1} :
        /\ Fixed[i].kind = walk.query.kind
        /\ Fixed[i].tenant = walk.query.tenant
        /\ walk.query.kind \in {"eip", "load_balancer"} => Fixed[i].shown

\* The three together.
ReadingIsExact == ListedOnce /\ NothingMissed /\ NothingForeign
=============================================================================
