----------------------------- MODULE Migration -----------------------------
(***************************************************************************)
(* The schema of the Network database and its two readers: Migrate, the    *)
(* owner's explicit entry point, and CheckReady, by which every process    *)
(* decides whether the database is the one it was built for.  A release is *)
(* the sequence of its embedded migration files, each standing for its     *)
(* checksum; releases may disagree about a version.  Migrate runs in one   *)
(* transaction under an advisory lock, CheckReady as separate queries.     *)
(***************************************************************************)
EXTENDS Naturals, Sequences, SequencesExt

CONSTANTS Migrators,    \* runs of `ani-resource-service -migrate`
          Release,      \* per migrator and process: its migration files in order
          MaxFailures   \* bound: migrations that time out, crash or lose the database

\* A file stands for the checksum of its text.
ASSUME MigrationAssumption ==
    /\ DOMAIN Release # {} /\ Migrators \subseteq DOMAIN Release
    /\ Release \in [DOMAIN Release -> Seq(STRING)]
    /\ \A r \in DOMAIN Release : Release[r] # <<>>
    /\ MaxFailures \in Nat

VARIABLES schema,       \* the committed network_schema_version, 0 before it exists
          database,     \* what else the database holds: foreign tables, tables without a version
          granted,      \* the runtime role holds its table permissions
          tx,           \* each migrator's transaction
          failures

migrationVars == <<schema, database, granted, tx, failures>>

Idle == [pc |-> "idle", draft |-> <<>>, at |-> 1]

MigrationInit ==
    /\ schema = <<>>
    /\ database \in {"empty", "foreign", "unversioned"}
    /\ granted = FALSE
    /\ tx = [m \in Migrators |-> Idle]
    /\ failures = 0

-----------------------------------------------------------------------------
(* Migrate. *)

End(m, result) == tx' = [tx EXCEPT ![m] = [Idle EXCEPT !.pc = result]]

\* Tables of others, and Network tables without a version, are refused.
Occupied == database = "foreign" \/ (database = "unversioned" /\ schema = <<>>)

\* Tables of another release, if its files have added any, are foreign too.
Unfamiliar(m) == ~IsPrefix(schema, Release[m])

\* The transaction waits for the lock and then sees what is committed.
LockSchema(m) ==
    /\ tx[m].pc = "idle"
    /\ \A o \in Migrators : tx[o].pc \notin {"files", "grants"}
    /\ \/ /\ Occupied \/ Unfamiliar(m)
          /\ End(m, "refused")
       \/ /\ ~Occupied
          /\ tx' = [tx EXCEPT ![m] = [pc |-> "files", draft |-> schema, at |-> 1]]
    /\ UNCHANGED <<schema, database, granted, failures>>

\* An applied version must have the checksum of the file.
SameChecksum_Skipped(m, i) == TRUE
SameChecksum(m, i) == tx[m].draft[i] = Release[m][i]

\* One file: a recorded version is compared, a missing one is executed and
\* recorded.  After the last file the permissions follow.
ApplyFile(m) ==
    LET i == tx[m].at
    IN  /\ tx[m].pc = "files"
        /\ IF i > Len(Release[m])
             THEN tx' = [tx EXCEPT ![m].pc = "grants"]
             ELSE IF i <= Len(tx[m].draft)
                    THEN IF SameChecksum(m, i)
                           THEN tx' = [tx EXCEPT ![m].at = i + 1]
                           ELSE End(m, "refused")
                    ELSE tx' = [tx EXCEPT ![m].draft = Append(@, Release[m][i]), ![m].at = i + 1]
        /\ UNCHANGED <<schema, database, granted, failures>>

\* The permissions are granted in the same transaction as the files.
Commit(m) ==
    /\ tx[m].pc = "grants"
    /\ schema' = tx[m].draft
    /\ granted' = TRUE
    /\ End(m, "done")
    /\ UNCHANGED <<database, failures>>

\* The thirty seconds pass, the process dies or the connection is lost: the
\* transaction is rolled back and the lock with it.  The operator may try again.
RollBack(m) ==
    /\ tx[m].pc \in {"files", "grants"} /\ failures < MaxFailures
    /\ End(m, "idle")
    /\ failures' = failures + 1
    /\ UNCHANGED <<schema, database, granted>>

Migrate(m) == LockSchema(m) \/ ApplyFile(m) \/ Commit(m) \/ RollBack(m)

-----------------------------------------------------------------------------
(* CheckReady, for a process p: three of its queries. *)

\* The tables of the release are all there, and not the runtime role's own: so
\* it is once a migration of this release or a longer one has committed.
TablesPresent(p) == Len(schema) >= Len(Release[p])

\* Every file's version is recorded with the checksum of the file.
ChecksumsMatch(p) ==
    /\ Len(schema) >= Len(Release[p])
    /\ \A i \in DOMAIN Release[p] : schema[i] = Release[p][i]

\* There are no versions the release does not know.
NoMoreVersions(p) == Len(schema) = Len(Release[p])

\* The schema is exactly that of p's release.
Fits(p) == granted /\ schema = Release[p]

-----------------------------------------------------------------------------
(* Properties. *)

\* The versions of the database are always those of one release from its first
\* file on, never files of two releases that disagree (Migrate compares the
\* checksum of each applied version before it goes on).
OneHistory == \E r \in DOMAIN Release : IsPrefix(schema, Release[r])

\* A migration that reported success leaves a database that holds its whole
\* release with the runtime's permissions, whatever other migrations, failed
\* attempts and later releases do (one transaction for files and permissions).
MigratedIsWhole ==
    \A m \in Migrators : tx[m].pc = "done" => granted /\ IsPrefix(Release[m], schema)

\* No version is ever visible to a runtime that holds no permissions on its
\* tables: an interrupted migration leaves nothing (tx.Rollback).
AllOrNothing == schema # <<>> => granted

\* The three together.
MigrationSafety == OneHistory /\ MigratedIsWhole /\ AllOrNothing
=============================================================================
