--------------------------- MODULE ProcessProofs ---------------------------
(***************************************************************************)
(* Migrations never mix releases, and a process never serves longer than a *)
(* probe counts on a schema that is not its own: for any releases,         *)
(* migrators, processes, lanes and bounds.                                 *)
(*                                                                         *)
(* The three queries of a probe see three states of the database.  They    *)
(* add up to one state because the schema only ever grows: a checksum that *)
(* matched still matches when the versions are counted.  The first part    *)
(* proves this of Migrate, the second uses it.                             *)
(***************************************************************************)
EXTENDS Process, SequenceTheorems, TLAPS

USE DEF migrationVars, processVars

-----------------------------------------------------------------------------
(* Migrations. *)

\* s begins t.
Begins(s, t) == Len(s) <= Len(t) /\ \A i \in 1..Len(s) : s[i] = t[i]

\* The community module's IsPrefix says the same with subsequences.
LEMMA PrefixFacts ==
  ASSUME NEW S, NEW s \in Seq(S), NEW t \in Seq(S)
  PROVE  IsPrefix(s, t) <=> Begins(s, t)
<1>1. IsPrefix(s, t) <=> Len(s) <= Len(t) /\ SubSeq(s, 1, Len(s)) = SubSeq(t, 1, Len(s))
  BY DEF IsPrefix
<1> QED BY <1>1 DEF Begins

Transaction ==
  [pc : {"idle", "files", "grants", "refused", "done"}, draft : Seq(STRING), at : Nat \ {0}]

MigrationTypeOK ==
  /\ schema \in Seq(STRING) /\ granted \in BOOLEAN
  /\ tx \in [Migrators -> Transaction]

Locked(m) == tx[m].pc \in {"files", "grants"}

\* The advisory lock: one migration at a time.
OneMigration == \A m, n \in Migrators : Locked(m) /\ Locked(n) => m = n

\* The draft of the migration under way: what was committed, then the files of
\* its own release, all of which it has compared up to at.
GoodDraft(m) ==
  /\ Begins(schema, tx[m].draft)
  /\ tx[m].at - 1 <= Len(Release[m]) /\ tx[m].at - 1 <= Len(tx[m].draft)
  /\ \A i \in 1..(tx[m].at - 1) : tx[m].draft[i] = Release[m][i]
  /\ Len(tx[m].draft) > Len(schema) => Len(tx[m].draft) = tx[m].at - 1
  /\ tx[m].pc = "grants" => tx[m].at - 1 = Len(Release[m])

MigrationInv ==
  /\ MigrationTypeOK /\ OneMigration
  /\ \A m \in Migrators : Locked(m) => GoodDraft(m)
  /\ \E r \in DOMAIN Release : Begins(schema, Release[r])
  /\ \A m \in Migrators : tx[m].pc = "done" => granted /\ Begins(Release[m], schema)
  /\ schema # <<>> => granted

\* What the other readers of the database may rely on.
Grows == Begins(schema, schema') /\ (granted => granted')

-----------------------------------------------------------------------------
(* Processes. *)

ProcessRecord ==
  [app : {"down", "starting", "serving", "stopping", "closed"}, flag : BOOLEAN, group : BOOLEAN,
   started : BOOLEAN, stopped : BOOLEAN, cancelled : BOOLEAN, done : BOOLEAN, alive : BOOLEAN,
   start : {"none", "monitor", "lanes", "wait", "drain", "returned"},
   stop : {"none", "marked", "waiting", "stopped", "timeout"}, stopSaw : BOOLEAN,
   probe : {"none", "tables", "checksums", "versions", "store", "stamp", "waiting", "ended"},
   ok : BOOLEAN, ready : BOOLEAN, age : 0..Fresh, gap : 0..Interval, pool : BOOLEAN]

LaneStates == {"none", "idle", "step", "ended", "failed"}

ProcessTypeOK ==
  /\ up \in BOOLEAN
  /\ proc \in [Processes -> ProcessRecord]
  /\ lane \in [LaneIds -> LaneStates]
  /\ unfit \in [Processes -> 0..(Fresh + 2)]

\* How far Start and Stop can be from each other: Stop has seen a Start that
\* was begun, or the Start that comes later is refused.
Agreed(r) ==
  /\ r.app = "down" => r.start = "none"
  /\ r.app = "closed" => r.start = "returned"
  /\ r.start = "none" => ~r.started
  /\ r.start \in {"monitor", "lanes", "wait", "drain"} => r.started
  /\ r.start \in {"none", "monitor"} => r.probe = "none"
  /\ r.start = "returned" => r.probe \in {"none", "ended"}
  /\ r.alive => r.start \in {"wait", "drain"}
  /\ r.done => r.start = "returned"
  /\ r.stop = "none" <=> ~r.stopped
  /\ r.stop # "none" => (r.stopSaw <=> r.started)
  /\ r.stop = "waiting" => r.stopSaw
  /\ r.stop = "stopped" => ~r.stopSaw \/ r.done

\* Lanes run only between StartLanes and StartReturns.
Settled(p, r, f) ==
  /\ r.start \in {"none", "monitor", "lanes"} => \A l \in Lanes[p] : f[l] = "none"
  /\ r.start = "returned" => \A l \in Lanes[p] : f[l] \in {"none", "ended", "failed"}

\* What a probe has established, query by query, and what readiness rests on.
Established(p, r) ==
  /\ r.probe = "none" => ~r.ready
  /\ r.probe = "checksums" /\ r.ok => granted
  /\ r.probe = "versions" /\ r.ok => granted /\ Begins(Release[p], schema)
  /\ r.probe \in {"store", "stamp"} /\ r.ok => unfit[p] = 0
  /\ r.probe = "stamp" /\ r.ready => unfit[p] = 0
  /\ r.ready /\ r.age < Fresh => unfit[p] <= r.age

\* The inductive invariant.
ProcessInv ==
  /\ MigrationInv /\ ProcessTypeOK
  /\ \A p \in Processes :
       /\ Usable(p) => unfit[p] = 0
       /\ Agreed(proc[p]) /\ Settled(p, proc[p], lane) /\ Established(p, proc[p])

-----------------------------------------------------------------------------
(* Migrate keeps MigrationInv, and the schema grows. *)

LEMMA BeginsFacts ==
  ASSUME NEW s \in Seq(STRING), NEW t \in Seq(STRING), NEW u \in Seq(STRING)
  PROVE  /\ Begins(s, s) /\ Begins(<<>>, s)
         /\ Begins(s, t) /\ Begins(t, u) => Begins(s, u)
         /\ Begins(s, t) /\ Len(s) = Len(t) => s = t

<1>0. Len(s) \in Nat /\ Len(t) \in Nat /\ Len(u) \in Nat
  OBVIOUS
<1>1. Begins(s, s) /\ Begins(<<>>, s)
  BY <1>0 DEF Begins
<1>2. ASSUME Begins(s, t), Begins(t, u) PROVE Begins(s, u)
  BY <1>0, <1>2 DEF Begins
<1>3. ASSUME Begins(s, t), Len(s) = Len(t) PROVE s = t
  BY <1>3, SeqEqual DEF Begins
<1> QED BY <1>1, <1>2, <1>3

\* A step that leaves the database alone and ends m's transaction or takes it
\* further, as nobody else's.
LEMMA StillDrafting ==
  ASSUME MigrationInv, NEW m \in Migrators, NEW t \in Transaction,
         UNCHANGED <<schema, granted>>, tx' = [tx EXCEPT ![m] = t], t.pc # "done",
         t.pc \in {"files", "grants"} =>
            /\ \A o \in Migrators : Locked(o) => o = m
            /\ Begins(schema, t.draft)
            /\ t.at - 1 <= Len(Release[m]) /\ t.at - 1 <= Len(t.draft)
            /\ \A i \in 1..(t.at - 1) : t.draft[i] = Release[m][i]
            /\ Len(t.draft) > Len(schema) => Len(t.draft) = t.at - 1
            /\ t.pc = "grants" => t.at - 1 = Len(Release[m])
  PROVE  MigrationInv' /\ Grows
<1>1. /\ schema' = schema /\ granted' = granted /\ schema \in Seq(STRING)
      /\ tx'[m] = t /\ \A o \in Migrators : o # m => tx'[o] = tx[o]
  BY DEF MigrationInv, MigrationTypeOK
<1>2. MigrationTypeOK'
  BY DEF MigrationInv, MigrationTypeOK
<1>3. OneMigration'
  BY <1>1 DEF MigrationInv, OneMigration, Locked
<1>4. \A o \in Migrators : Locked(o)' => GoodDraft(o)'
  BY <1>1 DEF MigrationInv, Locked, GoodDraft
<1>5. (\E r \in DOMAIN Release : Begins(schema, Release[r]))' /\ (schema # <<>> => granted)'
  BY <1>1 DEF MigrationInv
<1>6. \A o \in Migrators : tx'[o].pc = "done" => granted' /\ Begins(Release[o], schema')
  BY <1>1 DEF MigrationInv
<1>7. Grows
  BY <1>1, BeginsFacts DEF Grows
<1> QED BY <1>2, <1>3, <1>4, <1>5, <1>6, <1>7 DEF MigrationInv

LEMMA Ended ==
  ASSUME NEW m \in Migrators, NEW result \in {"idle", "refused", "done"}, End(m, result)
  PROVE  \E t \in Transaction : tx' = [tx EXCEPT ![m] = t] /\ t.pc = result
<1>1. <<>> \in Seq(STRING)
  OBVIOUS
<1>2. PICK d \in Seq(STRING) : d = <<>>
  BY <1>1
<1>3. PICK t : t = [pc |-> result, draft |-> d, at |-> 1]
  OBVIOUS
<1>4. t \in Transaction /\ t.pc = result
  BY <1>3 DEF Transaction
<1>5. [Idle EXCEPT !.pc = result] = t
  BY <1>2, <1>3 DEF Idle
<1> QED BY <1>4, <1>5 DEF End

LEMMA MigrateStep ==
  ASSUME MigrationInv, NEW m \in Migrators, Migrate(m)
  PROVE  MigrationInv' /\ Grows
<1>0. /\ tx[m] \in Transaction /\ tx[m].draft \in Seq(STRING) /\ tx[m].at \in Nat \ {0}
      /\ tx[m].pc \in {"idle", "files", "grants", "refused", "done"}
      /\ schema \in Seq(STRING) /\ Release[m] \in Seq(STRING)
  BY MigrationAssumption DEF MigrationInv, MigrationTypeOK, Transaction
<1>1. CASE LockSchema(m)
  <2>1. CASE End(m, "refused")
    <3>1. PICK t \in Transaction : tx' = [tx EXCEPT ![m] = t] /\ t.pc = "refused"
      BY <2>1, Ended
    <3> QED BY <1>1, <3>1, StillDrafting DEF LockSchema
  <2>2. CASE tx' = [tx EXCEPT ![m] = [pc |-> "files", draft |-> schema, at |-> 1]]
    <3>1. PICK t : t = [pc |-> "files", draft |-> schema, at |-> 1]
      OBVIOUS
    <3>2. t \in Transaction /\ t.pc = "files" /\ t.draft = schema /\ t.at = 1
      BY <3>1, <1>0 DEF Transaction
    <3>3. \A o \in Migrators : ~Locked(o)
      BY <1>1 DEF LockSchema, Locked
    <3>4. Begins(schema, t.draft) /\ Len(schema) \in Nat /\ Len(Release[m]) \in Nat
      BY <3>2, <1>0, BeginsFacts
    <3>5. tx' = [tx EXCEPT ![m] = t] /\ UNCHANGED <<schema, granted>>
      BY <2>2, <3>1, <1>1 DEF LockSchema
    <3>6. /\ t.at - 1 = 0 /\ Len(t.draft) = Len(schema)
          /\ \A i \in 1..(t.at - 1) : t.draft[i] = Release[m][i]
      BY <3>2, <3>4
    <3>7. t.at - 1 <= Len(Release[m]) /\ t.at - 1 <= Len(t.draft) /\ ~(Len(t.draft) > Len(schema))
      BY <3>2, <3>4, <3>6
    <3> QED BY <3>2, <3>3, <3>4, <3>5, <3>6, <3>7, StillDrafting
  <2> QED BY <1>1, <2>1, <2>2 DEF LockSchema
<1>2. CASE ApplyFile(m)
  <2>0. /\ tx[m].pc = "files" /\ UNCHANGED <<schema, granted>> /\ Locked(m)
        /\ \A o \in Migrators : Locked(o) => o = m
        /\ Len(schema) \in Nat /\ Len(Release[m]) \in Nat /\ Len(tx[m].draft) \in Nat
    BY <1>0, <1>2 DEF ApplyFile, Locked, MigrationInv, OneMigration
  <2>a. /\ Begins(schema, tx[m].draft)
        /\ tx[m].at - 1 <= Len(Release[m]) /\ tx[m].at - 1 <= Len(tx[m].draft)
        /\ \A i \in 1..(tx[m].at - 1) : tx[m].draft[i] = Release[m][i]
        /\ Len(tx[m].draft) > Len(schema) => Len(tx[m].draft) = tx[m].at - 1
    BY <2>0 DEF MigrationInv, GoodDraft
  <2>1. CASE tx[m].at > Len(Release[m])
    <3>1. PICK t : t = [tx[m] EXCEPT !.pc = "grants"]
      OBVIOUS
    <3>2. t \in Transaction /\ t.pc = "grants" /\ t.draft = tx[m].draft /\ t.at = tx[m].at
      BY <3>1, <1>0 DEF Transaction
    <3>3. tx' = [tx EXCEPT ![m] = t]
      BY <1>2, <2>1, <3>1 DEF ApplyFile
    <3>4. t.at - 1 = Len(Release[m])
      BY <2>0, <2>a, <2>1, <3>2, <1>0
    <3> QED BY <2>0, <2>a, <3>2, <3>3, <3>4, StillDrafting
  <2>2. CASE tx[m].at <= Len(Release[m]) /\ tx[m].at <= Len(tx[m].draft) /\ SameChecksum(m, tx[m].at)
    <3>1. PICK t : t = [tx[m] EXCEPT !.at = tx[m].at + 1]
      OBVIOUS
    <3>2. t \in Transaction /\ t.pc = "files" /\ t.draft = tx[m].draft /\ t.at = tx[m].at + 1
      BY <3>1, <1>0, <2>0 DEF Transaction
    <3>3. tx' = [tx EXCEPT ![m] = t]
      BY <1>0, <1>2, <2>0, <2>2, <3>1 DEF ApplyFile
    <3>4. \A i \in 1..(t.at - 1) : t.draft[i] = Release[m][i]
      BY <1>0, <2>a, <2>2, <3>2 DEF SameChecksum
    <3>5. /\ t.at - 1 <= Len(Release[m]) /\ t.at - 1 <= Len(t.draft)
          /\ Len(t.draft) > Len(schema) => Len(t.draft) = t.at - 1
      BY <1>0, <2>0, <2>a, <2>2, <3>2
    <3> QED BY <2>0, <2>a, <3>2, <3>3, <3>4, <3>5, StillDrafting
  <2>3. CASE tx[m].at <= Len(Release[m]) /\ tx[m].at <= Len(tx[m].draft) /\ ~SameChecksum(m, tx[m].at)
    <3>1. End(m, "refused")
      BY <1>0, <1>2, <2>0, <2>3 DEF ApplyFile
    <3>2. PICK t \in Transaction : tx' = [tx EXCEPT ![m] = t] /\ t.pc = "refused"
      BY <3>1, Ended
    <3> QED BY <2>0, <3>2, StillDrafting
  <2>4. CASE tx[m].at <= Len(Release[m]) /\ tx[m].at > Len(tx[m].draft)
    <3>0. PICK d : d = Append(tx[m].draft, Release[m][tx[m].at])
      OBVIOUS
    <3>a. /\ d \in Seq(STRING) /\ Len(d) = Len(tx[m].draft) + 1
          /\ \A i \in 1..Len(tx[m].draft) : d[i] = tx[m].draft[i]
          /\ d[Len(tx[m].draft) + 1] = Release[m][tx[m].at]
      BY <1>0, <2>4, <3>0
    <3>b. Len(tx[m].draft) = tx[m].at - 1
      BY <1>0, <2>0, <2>a, <2>4
    <3>1. PICK t : t = [tx[m] EXCEPT !.draft = d, !.at = tx[m].at + 1]
      OBVIOUS
    <3>c. tx[m].at + 1 \in Nat \ {0}
      BY <1>0
    <3>2. t \in Transaction /\ t.pc = "files" /\ t.draft = d /\ t.at = tx[m].at + 1
      BY <3>1, <3>a, <3>c, <1>0, <2>0 DEF Transaction
    <3>d. tx' = [tx EXCEPT ![m].draft = Append(@, Release[m][tx[m].at]), ![m].at = tx[m].at + 1]
      <4>1. ~(tx[m].at > Len(Release[m])) /\ ~(tx[m].at <= Len(tx[m].draft))
        BY <1>0, <2>0, <2>4
      <4> QED BY <1>2, <4>1, Zenon DEF ApplyFile
    <3>3. tx' = [tx EXCEPT ![m] = t]
      BY <3>d, <3>0, <3>1 DEF MigrationInv, MigrationTypeOK, Transaction
    <3>4. \A i \in 1..(t.at - 1) : t.draft[i] = Release[m][i]
      <4>1. t.at - 1 = tx[m].at /\ tx[m].at = Len(tx[m].draft) + 1
        BY <1>0, <2>0, <3>2, <3>b
      <4>a. \A k \in Nat : \A i \in 1..k : i \in 1..(k - 1) \/ i = k
        OBVIOUS
      <4>2. \A i \in 1..(t.at - 1) : i \in 1..(tx[m].at - 1) \/ i = tx[m].at
        BY <1>0, <4>1, <4>a
      <4> QED BY <2>a, <3>2, <3>a, <3>b, <4>1, <4>2
    <3>5. /\ t.at - 1 <= Len(Release[m]) /\ t.at - 1 <= Len(t.draft)
          /\ Len(t.draft) > Len(schema) => Len(t.draft) = t.at - 1
      <4>1. PICK n \in Nat : n = tx[m].at
        BY <1>0
      <4>2. t.at - 1 = n /\ Len(t.draft) = n
        BY <4>1, <3>2, <3>a, <3>b
      <4>3. n <= Len(Release[m])
        BY <2>4, <4>1
      <4> QED BY <4>2, <4>3
    <3>6. Begins(schema, t.draft)
      BY <1>0, <2>0, <2>a, <3>2, <3>a DEF Begins
    <3> QED BY <2>0, <3>2, <3>3, <3>4, <3>5, <3>6, StillDrafting
  <2> QED BY <1>0, <2>0, <2>1, <2>2, <2>3, <2>4
<1>3. CASE Commit(m)
  <2>0. /\ tx[m].pc = "grants" /\ schema' = tx[m].draft /\ granted' = TRUE /\ Locked(m)
        /\ \A o \in Migrators : Locked(o) => o = m
        /\ Len(schema) \in Nat /\ Len(Release[m]) \in Nat /\ Len(tx[m].draft) \in Nat
    BY <1>0, <1>3 DEF Commit, Locked, MigrationInv, OneMigration
  <2>a. /\ Begins(schema, tx[m].draft)
        /\ tx[m].at - 1 = Len(Release[m]) /\ tx[m].at - 1 <= Len(tx[m].draft)
        /\ \A i \in 1..(tx[m].at - 1) : tx[m].draft[i] = Release[m][i]
        /\ Len(tx[m].draft) > Len(schema) => Len(tx[m].draft) = tx[m].at - 1
    BY <2>0 DEF MigrationInv, GoodDraft
  <2>1. PICK t \in Transaction : tx' = [tx EXCEPT ![m] = t] /\ t.pc = "done"
    BY <1>3, Ended DEF Commit
  <2>2. MigrationTypeOK' /\ tx'[m].pc = "done" /\ \A o \in Migrators : o # m => tx'[o] = tx[o]
    BY <1>0, <2>0, <2>1 DEF MigrationInv, MigrationTypeOK
  <2>3. \A o \in Migrators : ~Locked(o)'
    BY <2>0, <2>2 DEF Locked
  <2>4. Begins(Release[m], schema') /\ Begins(schema, schema') /\ schema' \in Seq(STRING)
    BY <1>0, <2>0, <2>a DEF Begins
  <2>5. \E r \in DOMAIN Release : Begins(schema', Release[r])
    <3>1. CASE Len(tx[m].draft) = Len(schema)
      BY <1>0, <2>0, <2>a, <3>1, BeginsFacts DEF MigrationInv
    <3>2. CASE Len(tx[m].draft) > Len(schema)
      BY <1>0, <2>0, <2>a, <3>2, MigrationAssumption DEF Begins
    <3> QED BY <2>0, <2>a, <3>1, <3>2 DEF Begins
  <2>6. \A o \in Migrators : tx'[o].pc = "done" => granted' /\ Begins(Release[o], schema')
    <3>1. \A o \in Migrators : Release[o] \in Seq(STRING)
      BY MigrationAssumption
    <3> QED BY <1>0, <2>0, <2>2, <2>4, <3>1, BeginsFacts DEF MigrationInv
  <2> QED BY <2>0, <2>2, <2>3, <2>4, <2>5, <2>6 DEF MigrationInv, OneMigration, Grows
<1>4. CASE RollBack(m)
  <2>1. PICK t \in Transaction : tx' = [tx EXCEPT ![m] = t] /\ t.pc = "idle"
    BY <1>4, Ended DEF RollBack
  <2> QED BY <1>4, <2>1, StillDrafting DEF RollBack
<1> QED BY <1>1, <1>2, <1>3, <1>4 DEF Migrate

-----------------------------------------------------------------------------
(* A step of one process. *)

\* What is to be shown of a step that makes r of the process p.
LEMMA OneMoves ==
  ASSUME ProcessInv, NEW p \in Processes, NEW r \in ProcessRecord, Set(p, r),
         UNCHANGED <<up, unfit, migrationVars>>,
         lane' \in [LaneIds -> LaneStates],
         \A l \in LaneIds : l \notin Lanes[p] => lane'[l] = lane[l],
         Agreed(r), Settled(p, r, lane'), Established(p, r)
  PROVE  ProcessInv'
<1>1. /\ schema' = schema /\ granted' = granted /\ tx' = tx /\ up' = up /\ unfit' = unfit
      /\ proc'[p] = r /\ \A q \in Processes : q # p => proc'[q] = proc[q]
      /\ proc' \in [Processes -> ProcessRecord]
  BY DEF ProcessInv, ProcessTypeOK, Set
<1>2. MigrationInv'
  <2>1. MigrationTypeOK' /\ OneMigration'
    BY <1>1 DEF ProcessInv, MigrationInv, MigrationTypeOK, OneMigration, Locked
  <2>2. \A m \in Migrators : Locked(m)' => GoodDraft(m)'
    BY <1>1 DEF ProcessInv, MigrationInv, Locked, GoodDraft
  <2> QED BY <1>1, <2>1, <2>2 DEF ProcessInv, MigrationInv
<1>3. ProcessTypeOK'
  BY <1>1 DEF ProcessInv, ProcessTypeOK
<1>4. ASSUME NEW q \in Processes
      PROVE  /\ Usable(q)' => unfit'[q] = 0
             /\ Agreed(proc'[q]) /\ Settled(q, proc'[q], lane') /\ Established(q, proc[q])'
  <2>1. Usable(q)' => unfit'[q] = 0
    BY <1>1 DEF ProcessInv, Usable, Fits
  <2>2. CASE q = p
    <3>1. Agreed(proc'[q]) /\ Settled(q, proc'[q], lane')
      BY <1>1, <2>2
    <3>2. Established(q, proc[q])'
      BY <1>1, <2>2 DEF Established
    <3> QED BY <2>1, <3>1, <3>2
  <2>3. CASE q # p
    <3>1. \A l \in Lanes[q] : l \in LaneIds /\ l \notin Lanes[p]
      BY <2>3, ProcessAssumption DEF LaneIds
    <3>2. Agreed(proc'[q])
      BY <1>1, <2>3 DEF ProcessInv
    <3>3. Settled(q, proc'[q], lane')
      BY <1>1, <2>3, <3>1 DEF ProcessInv, Settled
    <3>4. Established(q, proc[q])'
      BY <1>1, <2>3 DEF ProcessInv, Established
    <3> QED BY <2>1, <3>2, <3>3, <3>4
  <2> QED BY <2>2, <2>3
<1> QED BY <1>2, <1>3, <1>4 DEF ProcessInv

\* The fields of a process and what the invariant says of it.
LEMMA AboutProcess ==
  ASSUME ProcessInv, NEW p \in Processes
  PROVE  /\ proc[p] \in ProcessRecord
         /\ proc[p].age \in 0..Fresh /\ proc[p].gap \in 0..Interval
         /\ Agreed(proc[p]) /\ Settled(p, proc[p], lane) /\ Established(p, proc[p])
         /\ unfit[p] \in 0..(Fresh + 2) /\ Fresh \in Nat /\ Interval \in Nat
         /\ lane \in [LaneIds -> LaneStates]
         /\ Release[p] \in Seq(STRING) /\ schema \in Seq(STRING)
         /\ granted \in BOOLEAN /\ up \in BOOLEAN
<1>1. proc[p] \in ProcessRecord
  BY DEF ProcessInv, ProcessTypeOK
<1>2. proc[p].age \in 0..Fresh /\ proc[p].gap \in 0..Interval
  BY <1>1 DEF ProcessRecord
<1> QED BY <1>1, <1>2, ProcessAssumption, MigrationAssumption
        DEF ProcessInv, ProcessTypeOK, MigrationInv, MigrationTypeOK

\* Clocks start at 0.
LEMMA Zeros == 0 \in 0..Fresh /\ 0 \in 0..Interval
BY ProcessAssumption

\* One lemma per step.  Each names the record the step makes, checks what is said
\* of it alone, and leaves the rest to OneMoves.
LEMMA AfterStartStep ==
  ASSUME ProcessInv, NEW p \in Processes, AfterStart(p)
  PROVE  ProcessInv'
<1>0. PICK k \in ProcessRecord : k = proc[p]
  BY AboutProcess
<1>1. PICK r : r = [k EXCEPT !.app = "serving", !.flag = TRUE]
  OBVIOUS
<1>2. r \in ProcessRecord
  BY <1>1 DEF ProcessRecord
<1>3. Agreed(r)
  BY <1>0, <1>1, AboutProcess DEF AfterStart, Agreed, ProcessRecord
<1>4. Settled(p, r, lane)
  BY <1>0, <1>1, AboutProcess DEF AfterStart, Settled, ProcessRecord
<1>5. Established(p, r)
  BY <1>0, <1>1, AboutProcess DEF AfterStart, Established, ProcessRecord
<1>6. Set(p, r) /\ lane' = lane /\ UNCHANGED <<up, unfit, migrationVars>>
  BY <1>0, <1>1 DEF AfterStart, Rest
<1> QED BY <1>2, <1>3, <1>4, <1>5, <1>6, AboutProcess, OneMoves

LEMMA TerminateStep ==
  ASSUME ProcessInv, NEW p \in Processes, Terminate(p)
  PROVE  ProcessInv'
<1>0. PICK k \in ProcessRecord : k = proc[p]
  BY AboutProcess
<1>1. PICK r : r = [k EXCEPT !.app = "stopping", !.flag = FALSE, !.group = TRUE]
  OBVIOUS
<1>2. r \in ProcessRecord
  BY <1>1 DEF ProcessRecord
<1>3. Agreed(r)
  BY <1>0, <1>1, AboutProcess DEF Terminate, Agreed, ProcessRecord
<1>4. Settled(p, r, lane)
  BY <1>0, <1>1, AboutProcess DEF Terminate, Settled, ProcessRecord
<1>5. Established(p, r)
  BY <1>0, <1>1, AboutProcess DEF Terminate, Established, ProcessRecord
<1>6. Set(p, r) /\ lane' = lane /\ UNCHANGED <<up, unfit, migrationVars>>
  BY <1>0, <1>1 DEF Terminate, Rest
<1> QED BY <1>2, <1>3, <1>4, <1>5, <1>6, AboutProcess, OneMoves

LEMMA OtherServerFailsStep ==
  ASSUME ProcessInv, NEW p \in Processes, OtherServerFails(p)
  PROVE  ProcessInv'
<1>0. PICK k \in ProcessRecord : k = proc[p]
  BY AboutProcess
<1>1. PICK r : r = [k EXCEPT !.group = TRUE]
  OBVIOUS
<1>2. r \in ProcessRecord
  BY <1>1 DEF ProcessRecord
<1>3. Agreed(r)
  BY <1>0, <1>1, AboutProcess DEF OtherServerFails, Agreed, ProcessRecord
<1>4. Settled(p, r, lane)
  BY <1>0, <1>1, AboutProcess DEF OtherServerFails, Settled, ProcessRecord
<1>5. Established(p, r)
  BY <1>0, <1>1, AboutProcess DEF OtherServerFails, Established, ProcessRecord
<1>6. Set(p, r) /\ lane' = lane /\ UNCHANGED <<up, unfit, migrationVars>>
  BY <1>0, <1>1 DEF OtherServerFails, Rest
<1> QED BY <1>2, <1>3, <1>4, <1>5, <1>6, AboutProcess, OneMoves

LEMMA RunEndsStep ==
  ASSUME ProcessInv, NEW p \in Processes, RunEnds(p)
  PROVE  ProcessInv'
<1>0. PICK k \in ProcessRecord : k = proc[p]
  BY AboutProcess
<1>1. PICK r : r = [k EXCEPT !.app = "closed", !.pool = FALSE]
  OBVIOUS
<1>2. r \in ProcessRecord
  BY <1>1 DEF ProcessRecord
<1>3. Agreed(r)
  BY <1>0, <1>1, AboutProcess DEF RunEnds, Agreed, ProcessRecord
<1>4. Settled(p, r, lane)
  BY <1>0, <1>1, AboutProcess DEF RunEnds, Settled, ProcessRecord
<1>5. Established(p, r)
  BY <1>0, <1>1, AboutProcess DEF RunEnds, Established, ProcessRecord
<1>6. Set(p, r) /\ lane' = lane /\ UNCHANGED <<up, unfit, migrationVars>>
  BY <1>0, <1>1 DEF RunEnds, Rest
<1> QED BY <1>2, <1>3, <1>4, <1>5, <1>6, AboutProcess, OneMoves

LEMMA StartMonitorStep ==
  ASSUME ProcessInv, NEW p \in Processes, StartMonitor(p)
  PROVE  ProcessInv'
<1>0. PICK k \in ProcessRecord : k = proc[p]
  BY AboutProcess
<1>1. PICK r : r = [k EXCEPT !.start = "lanes", !.probe = "tables", !.ok = TRUE, !.gap = 0]
  OBVIOUS
<1>2. r \in ProcessRecord
  BY <1>1, Zeros DEF ProcessRecord
<1>3. Agreed(r)
  BY <1>0, <1>1, AboutProcess DEF StartMonitor, Agreed, ProcessRecord
<1>4. Settled(p, r, lane)
  BY <1>0, <1>1, AboutProcess DEF StartMonitor, Settled, ProcessRecord
<1>5. Established(p, r)
  BY <1>0, <1>1, AboutProcess DEF StartMonitor, Established, ProcessRecord
<1>6. Set(p, r) /\ lane' = lane /\ UNCHANGED <<up, unfit, migrationVars>>
  BY <1>0, <1>1 DEF StartMonitor, Rest
<1> QED BY <1>2, <1>3, <1>4, <1>5, <1>6, AboutProcess, OneMoves

LEMMA StartCancelsStep ==
  ASSUME ProcessInv, NEW p \in Processes, StartCancels(p)
  PROVE  ProcessInv'
<1>0. PICK k \in ProcessRecord : k = proc[p]
  BY AboutProcess
<1>1. PICK r : r = [k EXCEPT !.start = "drain", !.cancelled = TRUE]
  OBVIOUS
<1>2. r \in ProcessRecord
  BY <1>1 DEF ProcessRecord
<1>3. Agreed(r)
  BY <1>0, <1>1, AboutProcess DEF StartCancels, Agreed, ProcessRecord
<1>4. Settled(p, r, lane)
  BY <1>0, <1>1, AboutProcess DEF StartCancels, Settled, ProcessRecord
<1>5. Established(p, r)
  BY <1>0, <1>1, AboutProcess DEF StartCancels, Established, ProcessRecord
<1>6. Set(p, r) /\ lane' = lane /\ UNCHANGED <<up, unfit, migrationVars>>
  BY <1>0, <1>1 DEF StartCancels, Rest
<1> QED BY <1>2, <1>3, <1>4, <1>5, <1>6, AboutProcess, OneMoves

LEMMA MonitorStoresStep ==
  ASSUME ProcessInv, NEW p \in Processes, MonitorStores(p)
  PROVE  ProcessInv'
<1>0. PICK k \in ProcessRecord : k = proc[p]
  BY AboutProcess
<1>1. PICK r : r = [k EXCEPT !.probe = "stamp", !.ready = k.ok]
  OBVIOUS
<1>2. r \in ProcessRecord
  BY <1>1 DEF ProcessRecord
<1>3. Agreed(r)
  BY <1>0, <1>1, AboutProcess DEF MonitorStores, Agreed, ProcessRecord
<1>4. Settled(p, r, lane)
  BY <1>0, <1>1, AboutProcess DEF MonitorStores, Settled, ProcessRecord
<1>5. Established(p, r)
  BY <1>0, <1>1, AboutProcess DEF MonitorStores, Established, ProcessRecord
<1>6. Set(p, r) /\ lane' = lane /\ UNCHANGED <<up, unfit, migrationVars>>
  BY <1>0, <1>1 DEF MonitorStores, Rest
<1> QED BY <1>2, <1>3, <1>4, <1>5, <1>6, AboutProcess, OneMoves

LEMMA MonitorStampsStep ==
  ASSUME ProcessInv, NEW p \in Processes, MonitorStamps(p)
  PROVE  ProcessInv'
<1>0. PICK k \in ProcessRecord : k = proc[p]
  BY AboutProcess
<1>1. PICK r : r = [k EXCEPT !.probe = "waiting", !.age = 0]
  OBVIOUS
<1>2. r \in ProcessRecord
  BY <1>1, Zeros DEF ProcessRecord
<1>3. Agreed(r)
  BY <1>0, <1>1, AboutProcess DEF MonitorStamps, Agreed, ProcessRecord
<1>4. Settled(p, r, lane)
  BY <1>0, <1>1, AboutProcess DEF MonitorStamps, Settled, ProcessRecord
<1>5. Established(p, r)
  BY <1>0, <1>1, AboutProcess DEF MonitorStamps, Established, ProcessRecord
<1>6. Set(p, r) /\ lane' = lane /\ UNCHANGED <<up, unfit, migrationVars>>
  BY <1>0, <1>1 DEF MonitorStamps, Rest
<1> QED BY <1>2, <1>3, <1>4, <1>5, <1>6, AboutProcess, OneMoves

LEMMA MonitorTicksStep ==
  ASSUME ProcessInv, NEW p \in Processes, MonitorTicks(p)
  PROVE  ProcessInv'
<1>0. PICK k \in ProcessRecord : k = proc[p]
  BY AboutProcess
<1>1. PICK r : r = [k EXCEPT !.probe = "tables", !.ok = TRUE, !.gap = 0]
  OBVIOUS
<1>2. r \in ProcessRecord
  BY <1>1, Zeros DEF ProcessRecord
<1>3. Agreed(r)
  BY <1>0, <1>1, AboutProcess DEF MonitorTicks, Agreed, ProcessRecord
<1>4. Settled(p, r, lane)
  BY <1>0, <1>1, AboutProcess DEF MonitorTicks, Settled, ProcessRecord
<1>5. Established(p, r)
  BY <1>0, <1>1, AboutProcess DEF MonitorTicks, Established, ProcessRecord
<1>6. Set(p, r) /\ lane' = lane /\ UNCHANGED <<up, unfit, migrationVars>>
  BY <1>0, <1>1 DEF MonitorTicks, Rest
<1> QED BY <1>2, <1>3, <1>4, <1>5, <1>6, AboutProcess, OneMoves

LEMMA MonitorEndsStep ==
  ASSUME ProcessInv, NEW p \in Processes, MonitorEnds(p)
  PROVE  ProcessInv'
<1>0. PICK k \in ProcessRecord : k = proc[p]
  BY AboutProcess
<1>1. PICK r : r = [k EXCEPT !.probe = "ended"]
  OBVIOUS
<1>2. r \in ProcessRecord
  BY <1>1 DEF ProcessRecord
<1>3. Agreed(r)
  BY <1>0, <1>1, AboutProcess DEF MonitorEnds, Agreed, ProcessRecord
<1>4. Settled(p, r, lane)
  BY <1>0, <1>1, AboutProcess DEF MonitorEnds, Settled, ProcessRecord
<1>5. Established(p, r)
  BY <1>0, <1>1, AboutProcess DEF MonitorEnds, Established, ProcessRecord
<1>6. Set(p, r) /\ lane' = lane /\ UNCHANGED <<up, unfit, migrationVars>>
  BY <1>0, <1>1 DEF MonitorEnds, Rest
<1> QED BY <1>2, <1>3, <1>4, <1>5, <1>6, AboutProcess, OneMoves

LEMMA StopMarksStep ==
  ASSUME ProcessInv, NEW p \in Processes, StopMarks(p)
  PROVE  ProcessInv'
<1>0. PICK k \in ProcessRecord : k = proc[p]
  BY AboutProcess
<1>1. PICK r : r = [k EXCEPT !.stopped = TRUE, !.stopSaw = k.started, !.stop = "marked"]
  OBVIOUS
<1>2. r \in ProcessRecord
  BY <1>1 DEF ProcessRecord
<1>3. Agreed(r)
  BY <1>0, <1>1, AboutProcess DEF StopMarks, Agreed, ProcessRecord
<1>4. Settled(p, r, lane)
  BY <1>0, <1>1, AboutProcess DEF StopMarks, Settled, ProcessRecord
<1>5. Established(p, r)
  BY <1>0, <1>1, AboutProcess DEF StopMarks, Established, ProcessRecord
<1>6. Set(p, r) /\ lane' = lane /\ UNCHANGED <<up, unfit, migrationVars>>
  BY <1>0, <1>1 DEF StopMarks, Rest
<1> QED BY <1>2, <1>3, <1>4, <1>5, <1>6, AboutProcess, OneMoves

LEMMA StartBeginStep ==
  ASSUME ProcessInv, NEW p \in Processes, StartBegin(p)
  PROVE  ProcessInv'
<1>0. PICK k \in ProcessRecord : k = proc[p]
  BY AboutProcess
<1>1. CASE k.stopped
  <2>1. PICK r : r = [k EXCEPT !.start = "returned", !.group = TRUE]
    OBVIOUS
  <2>2. r \in ProcessRecord
    BY <2>1 DEF ProcessRecord
  <2>3. Agreed(r)
    BY <1>0, <1>1, <2>1, AboutProcess DEF StartBegin, Agreed, ProcessRecord
  <2>4. Settled(p, r, lane)
    BY <1>0, <2>1, AboutProcess DEF StartBegin, Settled, ProcessRecord
  <2>5. Established(p, r)
    BY <1>0, <2>1, AboutProcess DEF StartBegin, Established, ProcessRecord
  <2>6. Set(p, r) /\ lane' = lane /\ UNCHANGED <<up, unfit, migrationVars>>
    BY <1>0, <1>1, <2>1 DEF StartBegin, Rest
  <2> QED BY <2>2, <2>3, <2>4, <2>5, <2>6, AboutProcess, OneMoves
<1>2. CASE ~k.stopped
  <2>1. PICK r : r = [k EXCEPT !.started = TRUE, !.start = "monitor"]
    OBVIOUS
  <2>2. r \in ProcessRecord
    BY <2>1 DEF ProcessRecord
  <2>3. Agreed(r)
    BY <1>0, <1>2, <2>1, AboutProcess DEF StartBegin, Agreed, ProcessRecord
  <2>4. Settled(p, r, lane)
    BY <1>0, <2>1, AboutProcess DEF StartBegin, Settled, ProcessRecord
  <2>5. Established(p, r)
    BY <1>0, <2>1, AboutProcess DEF StartBegin, Established, ProcessRecord
  <2>6. Set(p, r) /\ lane' = lane /\ UNCHANGED <<up, unfit, migrationVars>>
    BY <1>0, <1>2, <2>1 DEF StartBegin, Rest
  <2> QED BY <2>2, <2>3, <2>4, <2>5, <2>6, AboutProcess, OneMoves
<1> QED BY <1>1, <1>2

LEMMA StartLanesStep ==
  ASSUME ProcessInv, NEW p \in Processes, StartLanes(p)
  PROVE  ProcessInv'
<1>0. PICK k \in ProcessRecord : k = proc[p]
  BY AboutProcess
<1>1. PICK r : r = [k EXCEPT !.start = "wait", !.alive = TRUE]
  OBVIOUS
<1>2. r \in ProcessRecord
  BY <1>1 DEF ProcessRecord
<1>3. Agreed(r)
  BY <1>0, <1>1, AboutProcess DEF StartLanes, Agreed, ProcessRecord
<1>4. Settled(p, r, lane')
  BY <1>1 DEF Settled, ProcessRecord
<1>5. Established(p, r)
  BY <1>0, <1>1, AboutProcess DEF StartLanes, Established, ProcessRecord
<1>6. Set(p, r) /\ UNCHANGED <<up, unfit, migrationVars>>
  BY <1>0, <1>1 DEF StartLanes, Rest
<1>7. /\ lane' \in [LaneIds -> LaneStates]
      /\ \A l \in LaneIds : l \notin Lanes[p] => lane'[l] = lane[l]
  BY AboutProcess DEF StartLanes, LaneStates
<1> QED BY <1>2, <1>3, <1>4, <1>5, <1>6, <1>7, OneMoves

\* Start returns when all lanes have ended and the monitor with them.
LEMMA StartReturnsStep ==
  ASSUME ProcessInv, NEW p \in Processes, StartReturns(p)
  PROVE  ProcessInv'
<1>0. PICK k \in ProcessRecord : k = proc[p]
  BY AboutProcess
<1>a. PICK g \in BOOLEAN : g = (k.group \/ \E l \in Lanes[p] : lane[l] = "failed")
  BY DEF ProcessRecord
<1>1. PICK r : r = [k EXCEPT !.start = "returned", !.alive = FALSE, !.done = TRUE, !.group = g]
  OBVIOUS
<1>2. r \in ProcessRecord
  BY <1>1 DEF ProcessRecord
<1>3. Agreed(r)
  BY <1>0, <1>1, AboutProcess DEF StartReturns, Agreed, ProcessRecord
<1>4. Settled(p, r, lane)
  BY <1>0, <1>1, AboutProcess DEF StartReturns, Settled, ProcessRecord
<1>5. Established(p, r)
  BY <1>0, <1>1, AboutProcess DEF StartReturns, Established, ProcessRecord
<1>6. Set(p, r) /\ lane' = lane /\ UNCHANGED <<up, unfit, migrationVars>>
  BY <1>0, <1>1, <1>a, Zenon DEF StartReturns, Rest
<1> QED BY <1>2, <1>3, <1>4, <1>5, <1>6, AboutProcess, OneMoves

LEMMA StopCancelsStep ==
  ASSUME ProcessInv, NEW p \in Processes, StopCancels(p)
  PROVE  ProcessInv'
<1>0. PICK k \in ProcessRecord : k = proc[p]
  BY AboutProcess
<1>a. PICK c \in BOOLEAN : c = (k.cancelled \/ k.stopSaw)
  BY DEF ProcessRecord
<1>b. PICK s \in {"waiting", "stopped"} : s = IF k.stopSaw THEN "waiting" ELSE "stopped"
  OBVIOUS
<1>1. PICK r : r = [k EXCEPT !.alive = FALSE, !.cancelled = c, !.stop = s]
  OBVIOUS
<1>2. r \in ProcessRecord
  <2>1. PICK x \in ProcessRecord : x = [k EXCEPT !.alive = FALSE, !.cancelled = c]
    BY DEF ProcessRecord
  <2>2. s \in {"none", "marked", "waiting", "stopped", "timeout"}
    BY <1>b
  <2>3. [x EXCEPT !.stop = s] \in ProcessRecord
    BY <2>2 DEF ProcessRecord
  <2>4. r = [x EXCEPT !.stop = s]
    BY <1>1, <2>1 DEF ProcessRecord
  <2> QED BY <2>3, <2>4
<1>3. Agreed(r)
  BY <1>0, <1>1, <1>b, AboutProcess DEF StopCancels, Agreed, ProcessRecord
<1>4. Settled(p, r, lane)
  BY <1>0, <1>1, AboutProcess DEF StopCancels, Settled, ProcessRecord
<1>5. Established(p, r)
  BY <1>0, <1>1, AboutProcess DEF StopCancels, Established, ProcessRecord
<1>6. Set(p, r) /\ lane' = lane /\ UNCHANGED <<up, unfit, migrationVars>>
  BY <1>0, <1>1, <1>a, <1>b, Zenon DEF StopCancels, Rest
<1> QED BY <1>2, <1>3, <1>4, <1>5, <1>6, AboutProcess, OneMoves

LEMMA StopReturnsStep ==
  ASSUME ProcessInv, NEW p \in Processes, StopReturns(p)
  PROVE  ProcessInv'
<1>0. PICK k \in ProcessRecord : k = proc[p]
  BY AboutProcess
<1>a. PICK s \in {"stopped", "timeout"} :
         (s = "stopped" => k.done) /\ Set(p, [k EXCEPT !.stop = s])
  BY <1>0 DEF StopReturns
<1>1. PICK r : r = [k EXCEPT !.stop = s]
  OBVIOUS
<1>2. r \in ProcessRecord
  BY <1>1 DEF ProcessRecord
<1>3. Agreed(r)
  BY <1>0, <1>1, <1>a, AboutProcess DEF StopReturns, Agreed, ProcessRecord
<1>4. Settled(p, r, lane)
  BY <1>0, <1>1, AboutProcess DEF StopReturns, Settled, ProcessRecord
<1>5. Established(p, r)
  BY <1>0, <1>1, AboutProcess DEF StopReturns, Established, ProcessRecord
<1>6. Set(p, r) /\ lane' = lane /\ UNCHANGED <<up, unfit, migrationVars>>
  BY <1>1, <1>a DEF StopReturns, Rest
<1> QED BY <1>2, <1>3, <1>4, <1>5, <1>6, AboutProcess, OneMoves

\* The process is built, or gone.
LEMMA Restarted ==
  ASSUME ProcessInv, NEW p \in Processes, NEW a \in {"down", "starting"}, NEW o \in BOOLEAN,
         Set(p, [Down EXCEPT !.app = a, !.pool = o]), UNCHANGED <<up, unfit, migrationVars>>,
         lane' \in [LaneIds -> LaneStates],
         \A l \in LaneIds : lane'[l] = IF l \in Lanes[p] THEN "none" ELSE lane[l]
  PROVE  ProcessInv'
<1>1. PICK r : r = [Down EXCEPT !.app = a, !.pool = o]
  OBVIOUS
<1>2. r = [app |-> a, flag |-> FALSE, group |-> FALSE,
           started |-> FALSE, stopped |-> FALSE, cancelled |-> FALSE, done |-> FALSE, alive |-> FALSE,
           start |-> "none", stop |-> "none", stopSaw |-> FALSE,
           probe |-> "none", ok |-> FALSE, ready |-> FALSE, age |-> Fresh, gap |-> 0, pool |-> o]
  BY <1>1 DEF Down
<1>a. Fresh \in 0..Fresh
  BY ProcessAssumption
<1>3. r \in ProcessRecord
  BY <1>2, <1>a, Zeros DEF ProcessRecord
<1>4. Agreed(r) /\ Established(p, r)
  BY <1>2 DEF Agreed, Established
<1>5. Settled(p, r, lane')
  <2>1. \A l \in Lanes[p] : l \in LaneIds
    BY DEF LaneIds
  <2> QED BY <1>2, <2>1 DEF Settled
<1> QED BY <1>1, <1>3, <1>4, <1>5, OneMoves

LEMMA BuildStep ==
  ASSUME ProcessInv, NEW p \in Processes, Build(p)
  PROVE  ProcessInv'
<1>1. \A l \in Lanes[p] : lane[l] = "none"
  BY AboutProcess DEF Build, Agreed, Settled
<1> QED BY <1>1, AboutProcess, Restarted DEF Build

LEMMA GoneStep ==
  ASSUME ProcessInv, NEW p \in Processes, Exit(p) \/ Kill(p)
  PROVE  ProcessInv'
<1>1. Gone(p) /\ UNCHANGED <<up, unfit, migrationVars>>
  BY DEF Exit, Kill, Rest
<1>2. Down = [Down EXCEPT !.app = "down", !.pool = FALSE]
  <2>1. PICK r : r = [Down EXCEPT !.app = "down", !.pool = FALSE]
    OBVIOUS
  <2>2. r = [app |-> "down", flag |-> FALSE, group |-> FALSE,
             started |-> FALSE, stopped |-> FALSE, cancelled |-> FALSE, done |-> FALSE, alive |-> FALSE,
             start |-> "none", stop |-> "none", stopSaw |-> FALSE,
             probe |-> "none", ok |-> FALSE, ready |-> FALSE, age |-> Fresh, gap |-> 0, pool |-> FALSE]
    BY <2>1 DEF Down
  <2> QED BY <2>1, <2>2, Zenon DEF Down
<1>3. /\ lane' \in [LaneIds -> LaneStates]
      /\ \A l \in LaneIds : lane'[l] = IF l \in Lanes[p] THEN "none" ELSE lane[l]
  BY <1>1, AboutProcess DEF Gone, LaneStates
<1>4. Set(p, [Down EXCEPT !.app = "down", !.pool = FALSE])
  BY <1>1, <1>2 DEF Gone
<1> QED BY <1>1, <1>3, <1>4, Restarted

\* A lane takes a step, ends or fails: only while Start waits for it.
LEMMA RunLaneStep ==
  ASSUME ProcessInv, NEW p \in Processes, NEW l \in LaneIds, RunLane(l, p)
  PROVE  ProcessInv'
<1>0. PICK k \in ProcessRecord : k = proc[p]
  BY AboutProcess
<1>a. PICK s \in {"idle", "step", "ended", "failed"} : lane' = [lane EXCEPT ![l] = s]
  BY DEF RunLane, LaneTakesStep, LaneStepReturns, LaneLosesDatabase, LaneFails, Lane
<1>b. l \in Lanes[p] /\ lane[l] \in {"idle", "step"} /\ UNCHANGED <<up, unfit, migrationVars>>
  BY DEF RunLane, LaneTakesStep, LaneStepReturns, LaneLosesDatabase, LaneFails, Rest
<1>c. PICK d \in BOOLEAN : (d => k.ready) /\ Set(p, [k EXCEPT !.ready = d])
  <2>1. CASE LaneLosesDatabase(l, p)
    <3>1. Set(p, [k EXCEPT !.ready = FALSE])
      BY <1>0, <2>1 DEF LaneLosesDatabase
    <3> QED BY <3>1
  <2>2. CASE proc' = proc
    <3>1. k.ready \in BOOLEAN /\ k = [k EXCEPT !.ready = k.ready]
      BY DEF ProcessRecord
    <3>2. Set(p, k)
      BY <1>0, <2>2 DEF Set, ProcessInv, ProcessTypeOK
    <3>3. Set(p, [k EXCEPT !.ready = k.ready])
      BY <3>1, <3>2
    <3> QED BY <3>1, <3>3, Zenon
  <2> QED BY <2>1, <2>2 DEF RunLane, LaneTakesStep, LaneStepReturns, LaneFails
<1>1. PICK r : r = [k EXCEPT !.ready = d]
  OBVIOUS
<1>2. r \in ProcessRecord
  BY <1>1 DEF ProcessRecord
<1>3. Agreed(r)
  BY <1>0, <1>1, AboutProcess DEF Agreed, ProcessRecord
<1>4. Settled(p, r, lane')
  <2>1. k.start \in {"wait", "drain"}
    BY <1>0, <1>b, AboutProcess DEF Settled, ProcessRecord
  <2>2. r.start = k.start
    BY <1>1 DEF ProcessRecord
  <2> QED BY <2>1, <2>2 DEF Settled
<1>5. Established(p, r)
  BY <1>0, <1>1, <1>c, AboutProcess DEF Established, ProcessRecord
<1>6. /\ lane' \in [LaneIds -> LaneStates]
      /\ \A m \in LaneIds : m \notin Lanes[p] => lane'[m] = lane[m]
  BY <1>a, <1>b, AboutProcess DEF LaneStates
<1>7. Set(p, r)
  BY <1>1, <1>c
<1> QED BY <1>2, <1>3, <1>4, <1>5, <1>6, <1>7, <1>b, OneMoves

\* The queries of a probe, with what each adds to what was established.
LEMMA QueryStep ==
  ASSUME ProcessInv, NEW p \in Processes, NEW holds \in BOOLEAN,
         NEW at \in {"tables", "checksums", "versions"},
         NEW next \in {"checksums", "versions", "store"}, Query(p, at, next, holds),
         proc[p].ok /\ up /\ holds =>
            /\ next = "checksums" => granted
            /\ next = "versions" => granted /\ Begins(Release[p], schema)
            /\ next = "store" => unfit[p] = 0
  PROVE  ProcessInv'
<1>0. PICK k \in ProcessRecord : k = proc[p]
  BY AboutProcess
<1>a. PICK o \in BOOLEAN : o = (k.ok /\ up /\ holds /\ ~k.cancelled)
  BY DEF ProcessRecord
<1>1. PICK r : r = [k EXCEPT !.probe = next, !.ok = o]
  OBVIOUS
<1>2. r \in ProcessRecord
  BY <1>1 DEF ProcessRecord
<1>3. Agreed(r)
  BY <1>0, <1>1, AboutProcess DEF Query, Agreed, ProcessRecord
<1>4. Settled(p, r, lane)
  BY <1>0, <1>1, AboutProcess DEF Query, Settled, ProcessRecord
<1>5. Established(p, r)
  BY <1>0, <1>1, <1>a, AboutProcess DEF Query, Established, ProcessRecord
<1>6. Set(p, r) /\ lane' = lane /\ UNCHANGED <<up, unfit, migrationVars>>
  BY <1>0, <1>1, <1>a, Zenon DEF Query, Rest
<1> QED BY <1>2, <1>3, <1>4, <1>5, <1>6, AboutProcess, OneMoves

\* The last query completes the evidence that the schema is that of the process:
\* it still begins with the files of its release, and it is no longer.
LEMMA CheckReadyStep ==
  ASSUME ProcessInv, NEW p \in Processes, CheckReady(p)
  PROVE  ProcessInv'
<1>0. Release[p] \in Seq(STRING) /\ schema \in Seq(STRING) /\ Established(p, proc[p])
  BY AboutProcess
<1>1. CASE Query(p, "tables", "checksums", TablesPresent(p))
  <2>1. PICK h \in BOOLEAN : h = TablesPresent(p)
    <3>1. TablesPresent(p) \in BOOLEAN
      BY <1>0 DEF TablesPresent
    <3> QED BY <3>1, Zenon
  <2>2. h => granted
    <3>1. Release[p] # <<>> /\ (schema # <<>> => granted)
      BY MigrationAssumption, ProcessAssumption DEF ProcessInv, MigrationInv
    <3>2. h => schema # <<>>
      <4>1. TablesPresent(p) => schema # <<>>
        BY <1>0, <3>1 DEF TablesPresent
      <4> QED BY <2>1, <4>1, Zenon
    <3> QED BY <3>1, <3>2
  <2> QED BY <1>1, <2>1, <2>2, QueryStep
<1>2. CASE Query(p, "checksums", "versions", ChecksumsMatch(p))
  <2>1. PICK h \in BOOLEAN : h = ChecksumsMatch(p)
    BY DEF ChecksumsMatch
  <2>2. h => Begins(Release[p], schema)
    <3>1. /\ DOMAIN Release[p] = 1..Len(Release[p])
          /\ Len(Release[p]) \in Nat /\ Len(schema) \in Nat
      BY <1>0
    <3>2. h => Len(schema) >= Len(Release[p]) /\ \A i \in 1..Len(Release[p]) : schema[i] = Release[p][i]
      BY <2>1, <3>1 DEF ChecksumsMatch
    <3>3. \A i \in 1..Len(Release[p]) : schema[i] = Release[p][i] => Release[p][i] = schema[i]
      OBVIOUS
    <3> QED BY <3>1, <3>2, <3>3 DEF Begins
  <2>3. proc[p].ok => granted
    BY <1>0, <1>2 DEF Established, Query
  <2> QED BY <1>2, <2>1, <2>2, <2>3, QueryStep
<1>3. CASE Query(p, "versions", "store", NoMoreVersions(p))
  <2>1. PICK h \in BOOLEAN : h = NoMoreVersions(p)
    BY DEF NoMoreVersions
  <2>2. proc[p].ok => granted /\ Begins(Release[p], schema)
    BY <1>0, <1>3 DEF Established, Query
  <2>3. proc[p].ok /\ up /\ h => Usable(p)
    BY <1>0, <2>1, <2>2, BeginsFacts DEF NoMoreVersions, Usable, Fits
  <2>4. proc[p].ok /\ up /\ h => unfit[p] = 0
    BY <2>3 DEF ProcessInv
  <2> QED BY <1>3, <2>1, <2>4, QueryStep
<1> QED BY <1>1, <1>2, <1>3 DEF CheckReady

-----------------------------------------------------------------------------
(* The database and the clock. *)

\* The database changes: the schema grows, or goes, or is back.
LEMMA DatabaseStep ==
  ASSUME ProcessInv, MigrationInv', Grows, up' \in BOOLEAN, UNCHANGED <<proc, lane>>,
         unfit' = [p \in Processes |-> IF Usable(p)' THEN 0 ELSE unfit[p]]
  PROVE  ProcessInv'
<1>1. ProcessTypeOK'
  BY ProcessAssumption DEF ProcessInv, ProcessTypeOK
<1>2. ASSUME NEW p \in Processes
      PROVE  /\ Usable(p)' => unfit'[p] = 0
             /\ Agreed(proc'[p]) /\ Settled(p, proc'[p], lane') /\ Established(p, proc[p])'
  <2>1. (Usable(p)' => unfit'[p] = 0) /\ unfit'[p] \in {0, unfit[p]}
    OBVIOUS
  <2>2. Agreed(proc'[p]) /\ Settled(p, proc'[p], lane')
    BY DEF ProcessInv
  <2>3. Begins(Release[p], schema) => Begins(Release[p], schema')
    <3>1. schema' \in Seq(STRING)
      BY DEF MigrationInv, MigrationTypeOK
    <3> QED BY <3>1, AboutProcess, BeginsFacts DEF Grows
  <2>4. Established(p, proc[p])'
    <3>1. proc[p].age \in Nat /\ unfit[p] \in Nat /\ Established(p, proc[p])
      BY AboutProcess
    <3> QED BY <2>1, <2>3, <3>1 DEF Established, Grows
  <2> QED BY <2>1, <2>2, <2>4
<1> QED BY <1>1, <1>2 DEF ProcessInv

LEMMA MigrationStays ==
  ASSUME MigrationInv, UNCHANGED <<schema, granted, tx>>
  PROVE  MigrationInv' /\ Grows
<1>1. MigrationTypeOK' /\ OneMigration'
  BY DEF MigrationInv, MigrationTypeOK, OneMigration, Locked
<1>2. \A m \in Migrators : Locked(m)' => GoodDraft(m)'
  BY DEF MigrationInv, Locked, GoodDraft
<1>3. Grows
  BY BeginsFacts DEF MigrationInv, MigrationTypeOK, Grows
<1> QED BY <1>1, <1>2, <1>3 DEF MigrationInv

LEMMA TickStep ==
  ASSUME ProcessInv, Tick
  PROVE  ProcessInv'
<1>1. MigrationInv' /\ up' = up /\ lane' = lane /\ schema' = schema /\ granted' = granted
  BY MigrationStays DEF Tick, ProcessInv
<1>2. ASSUME NEW p \in Processes
      PROVE  /\ proc'[p] \in ProcessRecord /\ unfit'[p] \in 0..(Fresh + 2)
             /\ Usable(p)' => unfit'[p] = 0
             /\ Agreed(proc'[p]) /\ Settled(p, proc'[p], lane') /\ Established(p, proc[p])'
  <2>0. PICK k \in ProcessRecord : k = proc[p]
    BY AboutProcess
  <2>1. PICK a \in 0..Fresh : a = Older(k.age, Fresh)
    BY <2>0, AboutProcess DEF Older
  <2>2. PICK g \in 0..Interval : g = Older(k.gap, Interval)
    BY <2>0, AboutProcess DEF Older
  <2>3. PICK r : r = IF k.probe = "none" THEN k ELSE [k EXCEPT !.age = a, !.gap = g]
    OBVIOUS
  <2>4. r \in ProcessRecord
    BY <2>3 DEF ProcessRecord
  <2>5. proc'[p] = r
    BY <2>0, <2>1, <2>2, <2>3 DEF Tick
  <2>6. PICK u : u = IF Usable(p) THEN 0 ELSE Older(unfit[p], Fresh + 2)
    OBVIOUS
  <2>7. unfit'[p] = u /\ u \in 0..(Fresh + 2) /\ u <= unfit[p] + 1
    <3>1. unfit'[p] = u
      BY <2>6 DEF Tick
    <3>2. PICK n \in 0..(Fresh + 2) : n = unfit[p] /\ Fresh \in Nat
      BY AboutProcess
    <3>3. Older(n, Fresh + 2) \in 0..(Fresh + 2) /\ Older(n, Fresh + 2) <= n + 1
      BY <3>2 DEF Older
    <3> QED BY <2>6, <3>1, <3>2, <3>3
  <2>8. Usable(p)' => u = 0
    BY <1>1, <2>6 DEF Usable, Fits
  <2>9. Agreed(r) /\ Settled(p, r, lane)
    BY <2>0, <2>3, AboutProcess DEF Agreed, Settled, ProcessRecord
  <2>10. Established(p, proc[p])'
    <3>1. /\ r.probe = k.probe /\ r.ok = k.ok /\ r.ready = k.ready
          /\ k.probe # "none" => r.age = a
          /\ k.probe = "none" => ~k.ready
          /\ k.probe \notin {"store", "stamp"}
      BY <2>0, <2>3, AboutProcess DEF Established, ProcessRecord, Tick
    <3>2. k.ready /\ a < Fresh => u <= a
      <4> SUFFICES ASSUME k.ready, a < Fresh
                   PROVE  u <= a
        OBVIOUS
      <4>1. PICK n \in Nat : n = k.age /\ Fresh \in Nat
        BY <2>0, AboutProcess
      <4>2. a = IF n < Fresh THEN n + 1 ELSE Fresh
        BY <2>1, <4>1 DEF Older
      <4>3. n < Fresh /\ a = n + 1
        BY <4>1, <4>2
      <4>4. PICK f \in 0..(Fresh + 2) : f = unfit[p]
        BY AboutProcess
      <4>5. f <= n
        BY <2>0, <4>1, <4>3, <4>4, AboutProcess DEF Established
      <4>6. u \in Nat /\ u <= f + 1
        BY <2>7, <4>1, <4>4
      <4> QED BY <4>3, <4>4, <4>5, <4>6
    <3>3. /\ k.probe = "checksums" /\ k.ok => granted
          /\ k.probe = "versions" /\ k.ok => granted /\ Begins(Release[p], schema)
      BY <2>0, AboutProcess DEF Established
    <3> QED BY <1>1, <2>5, <2>7, <3>1, <3>2, <3>3 DEF Established
  <2> QED BY <1>1, <2>4, <2>5, <2>7, <2>8, <2>9, <2>10
<1>3. ProcessTypeOK'
  BY <1>1, <1>2 DEF Tick, ProcessInv, ProcessTypeOK
<1> QED BY <1>1, <1>2, <1>3 DEF ProcessInv

-----------------------------------------------------------------------------
(* The theorems. *)

LEMMA MigrationStarts ==
  ASSUME MigrationInit
  PROVE  MigrationInv
<1>1. schema = <<>> /\ granted = FALSE /\ <<>> \in Seq(STRING)
  BY DEF MigrationInit
<1>2. PICK d \in Seq(STRING) : d = <<>>
  BY <1>1
<1>3. PICK t : t = [pc |-> "idle", draft |-> d, at |-> 1]
  OBVIOUS
<1>a. t \in Transaction
  BY <1>3 DEF Transaction
<1>4. tx = [m \in Migrators |-> t] /\ t.pc = "idle"
  BY <1>2, <1>3 DEF MigrationInit, Idle
<1>5. MigrationTypeOK
  BY <1>1, <1>2, <1>4, <1>a DEF MigrationTypeOK
<1>6. \E r \in DOMAIN Release : Begins(schema, Release[r])
  <2>1. PICK r \in DOMAIN Release : Release[r] \in Seq(STRING)
    BY MigrationAssumption
  <2> QED BY <1>1, <2>1, BeginsFacts
<1> QED BY <1>1, <1>4, <1>5, <1>6 DEF MigrationInv, OneMigration, Locked

LEMMA ProcessesStart == Init => ProcessInv
<1>1. SUFFICES ASSUME Init PROVE ProcessInv
  OBVIOUS
<1>2. MigrationInv
  BY <1>1, MigrationStarts DEF Init
<1>3. Down \in ProcessRecord
  <2>1. Fresh \in 0..Fresh
    BY ProcessAssumption
  <2> QED BY <2>1, Zeros DEF Down, ProcessRecord
<1>4. ProcessTypeOK
  BY <1>1, <1>3, ProcessAssumption DEF Init, ProcessTypeOK, LaneStates
<1>5. ASSUME NEW p \in Processes
      PROVE  /\ Usable(p) => unfit[p] = 0
             /\ Agreed(proc[p]) /\ Settled(p, proc[p], lane) /\ Established(p, proc[p])
  <2>1. proc[p] = Down /\ ~Usable(p) /\ \A l \in Lanes[p] : l \in LaneIds /\ lane[l] = "none"
    BY <1>1 DEF Init, MigrationInit, Usable, Fits, LaneIds
  <2>2. /\ Down.app = "down" /\ Down.start = "none" /\ Down.stop = "none" /\ Down.probe = "none"
        /\ ~Down.started /\ ~Down.alive /\ ~Down.done /\ ~Down.stopped /\ ~Down.ready
    BY DEF Down
  <2> QED BY <2>1, <2>2 DEF Agreed, Settled, Established
<1> QED BY <1>2, <1>4, <1>5 DEF ProcessInv

LEMMA ProcessStep == ProcessInv /\ [Next]_vars => ProcessInv'
<1>1. SUFFICES ASSUME ProcessInv, [Next]_vars PROVE ProcessInv'
  OBVIOUS
<1>a. MigrationInv
  BY <1>1 DEF ProcessInv
<1>2. ASSUME NEW p \in Processes,
             \/ Build(p) \/ Terminate(p) \/ OtherServerFails(p) \/ Kill(p)
             \/ AfterStart(p) \/ RunEnds(p) \/ Exit(p)
      PROVE  ProcessInv'
  BY <1>1, <1>2, BuildStep, TerminateStep, OtherServerFailsStep, GoneStep, AfterStartStep, RunEndsStep
<1>3. ASSUME NEW p \in Processes, Start(p) PROVE ProcessInv'
  BY <1>1, <1>3, StartBeginStep, StartMonitorStep, StartLanesStep, StartCancelsStep, StartReturnsStep
  DEF Start
<1>4. ASSUME NEW p \in Processes, Monitor(p) PROVE ProcessInv'
  BY <1>1, <1>4, CheckReadyStep, MonitorStoresStep, MonitorStampsStep, MonitorTicksStep, MonitorEndsStep
  DEF Monitor
<1>5. ASSUME NEW p \in Processes, Stop(p) PROVE ProcessInv'
  BY <1>1, <1>5, StopMarksStep, StopCancelsStep, StopReturnsStep DEF Stop
<1>6. ASSUME NEW p \in Processes, NEW l \in LaneIds, RunLane(l, p) PROVE ProcessInv'
  BY <1>1, <1>6, RunLaneStep
<1>7. CASE DatabaseGoes
  <2>1. MigrationInv' /\ Grows
    BY <1>a, <1>7, MigrationStays DEF DatabaseGoes
  <2>2. unfit' = [p \in Processes |-> IF Usable(p)' THEN 0 ELSE unfit[p]]
    BY <1>1, <1>7 DEF DatabaseGoes, Usable, ProcessInv, ProcessTypeOK
  <2> QED BY <1>1, <1>7, <2>1, <2>2, DatabaseStep DEF DatabaseGoes
<1>8. CASE DatabaseComesBack
  <2>1. MigrationInv' /\ Grows
    BY <1>a, <1>8, MigrationStays DEF DatabaseComesBack
  <2> QED BY <1>1, <1>8, <2>1, DatabaseStep DEF DatabaseComesBack, Recount
<1>9. CASE Migrations
  <2>1. MigrationInv' /\ Grows
    BY <1>a, <1>9, MigrateStep DEF Migrations
  <2>2. up' \in BOOLEAN
    BY <1>1, <1>9 DEF Migrations, ProcessInv, ProcessTypeOK
  <2> QED BY <1>1, <1>9, <2>1, <2>2, DatabaseStep DEF Migrations, Recount
<1>10. CASE Tick
  BY <1>1, <1>10, TickStep
<1>11. CASE UNCHANGED vars
  <2>1. MigrationInv' /\ up' = up /\ unfit' = unfit /\ proc' = proc /\ lane' = lane
        /\ schema' = schema /\ granted' = granted
    BY <1>a, <1>11, MigrationStays DEF vars
  <2>2. ProcessTypeOK'
    BY <1>1, <2>1 DEF ProcessInv, ProcessTypeOK
  <2>3. \A p \in Processes :
           /\ Usable(p)' => unfit'[p] = 0
           /\ Agreed(proc'[p]) /\ Settled(p, proc'[p], lane') /\ Established(p, proc[p])'
    BY <1>1, <2>1 DEF ProcessInv, Usable, Fits, Established
  <2> QED BY <2>1, <2>2, <2>3 DEF ProcessInv
<1> QED BY <1>1, <1>2, <1>3, <1>4, <1>5, <1>6, <1>7, <1>8, <1>9, <1>10, <1>11 DEF Next

\* ProcessInv is inductive: migrations hold the lock one at a time and only add
\* files, Start and Stop agree on who waits for whom, and each query of a probe
\* adds to what the ones before have established (Migrate; WorkerServer.Start,
\* Stop and monitorDatabase; CheckReady).
THEOREM ProcessInvariant == Spec => []ProcessInv
<1>1. ProcessInv /\ [Next]_vars => ProcessInv'
  BY ProcessStep
<1> QED BY <1>1, ProcessesStart, PTL DEF Spec

\* However many releases migrate the database, in whatever order, interrupted
\* anywhere, it holds the files of one release, all of those a successful
\* migration reported, and never a file without the permissions (Migrate).
THEOREM MigrationsAreSafe == Spec => []MigrationSafety
<1>1. ProcessInv => MigrationSafety
  <2>1. SUFFICES ASSUME ProcessInv PROVE MigrationSafety
    OBVIOUS
  <2>2. /\ schema \in Seq(STRING) /\ \A r \in DOMAIN Release : Release[r] \in Seq(STRING)
        /\ \A m \in Migrators : m \in DOMAIN Release
    BY <2>1, MigrationAssumption DEF ProcessInv, MigrationInv, MigrationTypeOK
  <2>3. /\ \A r \in DOMAIN Release : IsPrefix(schema, Release[r]) <=> Begins(schema, Release[r])
        /\ \A r \in DOMAIN Release : IsPrefix(Release[r], schema) <=> Begins(Release[r], schema)
    BY <2>2, PrefixFacts
  <2> QED BY <2>1, <2>2, <2>3
          DEF ProcessInv, MigrationInv, MigrationSafety, OneHistory, MigratedIsWhole, AllOrNothing
<1> QED BY <1>1, ProcessInvariant, PTL

\* Whatever the order of probes, migrations, outages, starts and stops: a ready
\* process saw its own schema within the time a probe counts, the pool is closed
\* after all work has ended, and a Stop that reports success leaves nothing
\* running (WorkerServer, app.go).
THEOREM ProcessesAreSafe == Spec => []ProcessSafety
<1>1. ProcessInv => ProcessSafety
  <2>1. SUFFICES ASSUME ProcessInv, NEW p \in Processes
                 PROVE  /\ Ready(p) => unfit[p] < Fresh + ProbeTime
                        /\ proc[p].app = "closed" =>
                              proc[p].probe \in {"none", "ended"} /\ \A l \in Lanes[p] : ~Working(l)
                        /\ proc[p].stop = "stopped" =>
                              /\ ~proc[p].alive /\ proc[p].start \in {"none", "returned"}
                              /\ \A l \in Lanes[p] : ~Working(l)
    BY DEF ProcessSafety, NoStaleServing, PoolOutlivesWork, StopMeansStopped
  <2>2. Ready(p) => unfit[p] < Fresh + ProbeTime
    <3>1. Ready(p) => unfit[p] <= proc[p].age /\ proc[p].age < Fresh
      BY <2>1, AboutProcess DEF Ready, WorkerReady, Established
    <3> QED BY <2>1, <3>1, AboutProcess, ProcessAssumption
  <2>3. proc[p].start \in {"none", "returned"} => \A l \in Lanes[p] : ~Working(l)
    BY <2>1, AboutProcess DEF Settled, Working
  <2>4. proc[p].app = "closed" => proc[p].start = "returned" /\ proc[p].probe \in {"none", "ended"}
    BY <2>1, AboutProcess DEF Agreed
  <2>5. proc[p].stop = "stopped" => ~proc[p].alive /\ proc[p].start \in {"none", "returned"}
    <3>1. proc[p] \in ProcessRecord
      BY <2>1, AboutProcess
    <3> QED BY <2>1, <3>1, AboutProcess DEF Agreed, ProcessRecord
  <2> QED BY <2>2, <2>3, <2>4, <2>5
<1> QED BY <1>1, ProcessInvariant, PTL
=============================================================================
