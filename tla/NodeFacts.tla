------------------------------ MODULE NodeFacts ------------------------------
(***************************************************************************)
(* The facts of one node: the collector that samples the node's links and  *)
(* publishes them, and the view of them from which the service works.      *)
(*                                                                         *)
(* Each round of the collector samples the links (dated before it begins), *)
(* reads its ConfigMap and PATCHes it with tests on UID and revision; a    *)
(* round is given up after ten seconds, and its PATCH may still land.      *)
(*                                                                         *)
(* The service hears of a write later, when its informer's handler runs,   *)
(* and works from a view that an audit collected.  The handler tells a     *)
(* mere heartbeat from a change: a document with the same facts and a      *)
(* later date leaves the view valid, but never makes it younger.  An       *)
(* informer that lists anew skips writes, and says so when its Watch       *)
(* begins again.                                                           *)
(***************************************************************************)
EXTENDS Naturals, FiniteSets

CONSTANTS
  Links,      \* what the links of the node can look like
  Wired,      \* those in which the device is in kc's bridge
  Freshness,  \* how many ticks facts may be old (one minute)
  MaxTime,    \* bound on the clock
  MaxObjects, \* bound on the UIDs of the ConfigMap
  MaxLate     \* bound on the PATCHes under way

ASSUME FactsAssumption ==
  /\ Links # {} /\ Wired \subseteq Links
  /\ Freshness \in Nat /\ MaxTime \in Nat /\ MaxLate \in Nat /\ MaxObjects \in Nat \ {0}

VARIABLES
  now,     \* the clock
  link,    \* what the links look like
  lastAt,  \* when they last looked like this or that
  doc,     \* the ConfigMap: UID, revision and document
  col,     \* the collector: its step, sample, what it read and its pinned UID
  late,    \* PATCHes under way
  handled, \* the version the informer's handler saw last
  unseen,  \* versions written since, which it has yet to see
  watch,   \* 0, or the revision of a list whose Watch has not begun yet
  audit,   \* what the collection under way has listed
  view     \* what the last collection listed, while it is valid

service == <<handled, watch, audit, view>>
vars == <<now, link, lastAt, doc, col, late, unseen, service>>

None == "none"

NoDocument == [at |-> 0, link |-> None, bridged |-> FALSE]
NoVersion  == [uid |-> 0, rv |-> 0, body |-> NoDocument]

Init ==
  /\ now = 1
  /\ link \in Links
  /\ lastAt = [l \in Links |-> IF l = link THEN 1 ELSE 0]
  /\ doc = [uid |-> 1, rv |-> 1, body |-> NoDocument]
  /\ col = [at |-> "idle", body |-> NoDocument, uid |-> 0, rv |-> 0, pin |-> 0, round |-> 0]
  /\ late = {}
  /\ handled = doc /\ unseen = {} /\ watch = 0
  /\ audit = NoVersion /\ view = NoVersion

-----------------------------------------------------------------------------
(***************************************************************************)
(* The collector.                                                          *)
(***************************************************************************)
\* Bridge, kc's mark on it and the mapping of the local network agree.
Bridged == link \in Wired

\* The ticker: a round per tick.  The date is taken first; the links are
\* sampled some time later.
Date ==
  /\ col.at = "idle" /\ col.round < now
  /\ col' = [col EXCEPT !.at = "dated", !.round = now,
                        !.body = [NoDocument EXCEPT !.at = now]]
  /\ UNCHANGED <<now, link, lastAt, doc, late, unseen, service>>

Collect ==
  /\ col.at = "dated"
  /\ col' = [col EXCEPT !.at = "sampled", !.body.link = link, !.body.bridged = Bridged]
  /\ UNCHANGED <<now, link, lastAt, doc, late, unseen, service>>

\* The UID found first is the only one the collector ever writes to.
IdentityHolds == col.pin \in {0, doc.uid}

Read ==
  /\ col.at = "sampled"
  /\ col' = IF IdentityHolds
              THEN [col EXCEPT !.at = "read", !.uid = doc.uid, !.rv = doc.rv,
                               !.pin = doc.uid]
              ELSE [col EXCEPT !.at = "idle"]
  /\ UNCHANGED <<now, link, lastAt, doc, late, unseen, service>>

SendPatch ==
  /\ col.at = "read" /\ Cardinality(late) < MaxLate
  /\ late' = late \cup {[uid |-> col.uid, rv |-> col.rv, body |-> col.body]}
  /\ col'  = [col EXCEPT !.at = "sent"]
  /\ UNCHANGED <<now, link, lastAt, doc, unseen, service>>

\* The answer, an error or the timeout ends the round, wherever it is.
GiveUp ==
  /\ col.at # "idle"
  /\ col' = [col EXCEPT !.at = "idle", !.body = NoDocument, !.uid = 0, !.rv = 0]
  /\ UNCHANGED <<now, link, lastAt, doc, late, unseen, service>>

-----------------------------------------------------------------------------
(***************************************************************************)
(* The API server, the node and the clock.                                 *)
(***************************************************************************)
\* Every write is an event of the Watch.
Store(version) == doc' = version /\ unseen' = unseen \cup {version}

Tests_AnyRevision(p) == p.uid = doc.uid

Tests(p) == p.uid = doc.uid /\ p.rv = doc.rv

Land(p) ==
  /\ late' = late \ {p}
  /\ IF Tests(p)
       THEN Store([uid |-> doc.uid, rv |-> doc.rv + 1, body |-> p.body])
       ELSE UNCHANGED <<doc, unseen>>
  /\ UNCHANGED <<now, link, lastAt, col, service>>

Recreate ==
  /\ doc.uid < MaxObjects
  /\ Store([uid |-> doc.uid + 1, rv |-> doc.rv + 1, body |-> NoDocument])
  /\ UNCHANGED <<now, link, lastAt, col, late, service>>

Relink ==
  /\ \E l \in Links \ {link} : link' = l /\ lastAt' = [lastAt EXCEPT ![l] = now]
  /\ UNCHANGED <<now, doc, col, late, unseen, service>>

\* A round ends after ten seconds, here before the second tick.
Tick ==
  /\ now < MaxTime
  /\ col.at # "idle" => col.body.at = now
  /\ now' = now + 1
  /\ lastAt' = [lastAt EXCEPT ![link] = now + 1]
  /\ UNCHANGED <<link, doc, col, late, unseen, service>>

-----------------------------------------------------------------------------
(***************************************************************************)
(* The service's informer and what its handler makes of an event.          *)
(***************************************************************************)
Recent(body) == body.link # None /\ body.at <= now /\ now - body.at <= Freshness

WellFormed(body) == Recent(body)

\* Everything but the dates and the revision.
Stable(version) == [version EXCEPT !.rv = 0, !.body.at = 0]

Renewal(before, after) ==
  /\ WellFormed(before.body) /\ WellFormed(after.body)
  /\ after.body.at >= before.body.at
  /\ Stable(before) = Stable(after)

Uncover_ViewOnly == view' = NoVersion /\ UNCHANGED audit

\* sequence, or epoch, moves on: neither the view nor a collection that has
\* begun covers what was reported.  A view that is not valid, or will not be,
\* is as good as none.
Uncover == view' = NoVersion /\ audit' = NoVersion

\* The events are handled in their order, those after a list only when the
\* Watch has begun.  Any event but a heartbeat ends the view's validity.
Handle(version) ==
  /\ \A other \in unseen : version.rv <= other.rv
  /\ watch = 0 \/ version.rv <= watch
  /\ handled' = version
  /\ unseen'  = unseen \ {version}
  /\ IF Renewal(handled, version) THEN UNCHANGED <<audit, view>> ELSE Uncover
  /\ UNCHANGED <<now, link, lastAt, doc, col, late, watch>>

\* The Watch is lost: of what was not yet received only the last is listed.
Relist ==
  /\ watch = 0 /\ unseen # {}
  /\ watch' = doc.rv
  /\ \E received \in 0..doc.rv :
       unseen' = {version \in unseen : version.rv <= received \/ version = doc}
  /\ UNCHANGED <<now, link, lastAt, doc, col, late, handled, audit, view>>

\* A Watch request: nothing collected before it is valid any more.
SourceBoundary ==
  /\ watch' = 0
  /\ Uncover
  /\ UNCHANGED <<now, link, lastAt, doc, col, late, handled, unseen>>

-----------------------------------------------------------------------------
(***************************************************************************)
(* The audits: sequence and epoch are noted, then the document is listed,   *)
(* and the whole becomes the view if nothing fails.  An event handled      *)
(* between the first two makes the collection worthless, so that one that  *)
(* is worth anything starts from its list.                                 *)
(***************************************************************************)
AuditList ==
  /\ audit = NoVersion
  /\ audit' = doc
  /\ UNCHANGED <<now, link, lastAt, doc, col, late, handled, unseen, watch, view>>

AuditEnd ==
  /\ audit # NoVersion
  /\ view'  = audit
  /\ audit' = NoVersion
  /\ UNCHANGED <<now, link, lastAt, doc, col, late, handled, unseen, watch>>

AuditFails ==
  /\ audit # NoVersion
  /\ audit' = NoVersion
  /\ UNCHANGED <<now, link, lastAt, doc, col, late, handled, unseen, watch, view>>

Valid == view # NoVersion

\* The view is valid and its facts, dated by the collector, recent enough to
\* select a device or to call it ready.
Authorise == Valid /\ Recent(view.body)

Next ==
  \/ Date \/ Collect \/ Read \/ SendPatch \/ GiveUp
  \/ \E p \in late : Land(p)
  \/ Recreate \/ Relink \/ Tick
  \/ \E version \in unseen : Handle(version)
  \/ Relist \/ SourceBoundary
  \/ AuditList \/ AuditEnd \/ AuditFails

Spec == Init /\ [][Next]_vars

-----------------------------------------------------------------------------
(***************************************************************************)
(* Properties.                                                             *)
(***************************************************************************)
\* Published facts are never replaced by older ones, although a PATCH that
\* was given up may land after the next round (NodeFactsCollector.Publish).
DocumentsAdvance ==
  [][doc'.uid = doc.uid => doc'.body.at >= doc.body.at]_vars

\* A valid view lacks nothing but heartbeats and what the handler has yet to
\* see: it holds a version still on its way, or what the last event showed,
\* apart from the dates; with no event on its way that is what is published.
\* Only between a list and its Watch request may it miss more, until the
\* request ends its validity (changed, unchangedNodeFactsRenewal, collect,
\* sourceBoundary, valid).
ValidViewIsHandled ==
  Valid /\ watch = 0 =>
    /\ view \in unseen \/ Stable(view) = Stable(handled)
    /\ unseen = {} => Stable(view) = Stable(doc)

\* What authorises a step was true of the node within the last minute: no
\* heartbeat, audit or late document makes old facts look young
\* (FilterNodeInterfaces never renews observed_at).
AuthorisedIsRecent ==
  Authorise => now - lastAt[view.body.link] <= Freshness

\* Both: the view lacks only what is on its way, and what it authorises is
\* recent.
FactsSafety == ValidViewIsHandled /\ AuthorisedIsRecent
=============================================================================
