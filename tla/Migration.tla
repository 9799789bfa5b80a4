------------------------------ MODULE Migration ------------------------------
(***************************************************************************)
(* internal/runstore: open and migrate, by processes that share a database *)
(* file of any earlier schema.  Outside a transaction each SQL statement   *)
(* commits on its own, so a process that stops between two of them leaves  *)
(* a schema that no version number describes.                              *)
(***************************************************************************)
EXTENDS Integers

CONSTANTS
  Openers,      \* processes that open the store to write
  SchemaVersion \* of this release

ASSUME SchemaAssumption == SchemaVersion = 3

VARIABLES
  schema,   \* user_version, the index and the columns in the file
  opener,   \* process -> its next statement
  faults    \* history: a process died, or a statement of one failed

migrationVars == <<schema, opener, faults>>

-----------------------------------------------------------------------------
\* The partial unique index and the two lease columns of each version.
Made(version, duplicates) ==
  [version |-> version, table |-> version > 0, unique |-> version > 1,
   owner |-> version > 2, expires |-> version > 2, duplicates |-> duplicates]

Consistent == schema = Made(schema.version, schema.duplicates)

\* A file of any release, with two active runs of a plan while no index
\* forbids it.
MigrationInit ==
  /\ \E version \in 0..(SchemaVersion + 1) :
       \/ schema = Made(version, FALSE)
       \/ version = 1 /\ schema = Made(version, TRUE)
  /\ opener = [p \in Openers |-> "closed"]
  /\ faults = FALSE

Goes(p, step) == opener' = [opener EXCEPT ![p] = step]

\* migrate reads user_version, and decides on what follows.
ReadVersion(p) ==
  /\ opener[p] = "closed"
  /\ CASE schema.version > SchemaVersion -> Goes(p, "refused")
       [] schema.version = SchemaVersion -> Goes(p, "open")
       [] schema.version = 0 -> Goes(p, "create")
       [] schema.version = 1 -> Goes(p, "count")
       [] schema.version = 2 -> Goes(p, "owner")
  /\ UNCHANGED <<schema, faults>>

\* The table of version 3, in one transaction.
CreateTable(p) ==
  /\ opener[p] = "create"
  /\ IF schema.table
     THEN Goes(p, "refused") /\ UNCHANGED schema
     ELSE Goes(p, "open") /\ schema' = Made(SchemaVersion, FALSE)
  /\ UNCHANGED faults

CountDuplicates(p) ==
  /\ opener[p] = "count"
  /\ Goes(p, IF schema.duplicates THEN "refused" ELSE "unique")
  /\ UNCHANGED <<schema, faults>>

\* Seeded bug: version is not set to 2 in migrate.
AfterWithoutSecondStep(step) ==
  CASE step = "unique" -> "version2" [] step = "version2" -> "open"
    [] step = "owner" -> "expires" [] step = "expires" -> "version3"
    [] step = "version3" -> "open"

\* Seeded bug: the second column is forgotten.
AfterOneColumn(step) ==
  CASE step = "unique" -> "version2" [] step = "version2" -> "owner"
    [] step = "owner" -> "version3" [] step = "expires" -> "version3"
    [] step = "version3" -> "open"

\* The statements in their order.
After(step) ==
  CASE step = "unique" -> "version2" [] step = "version2" -> "owner"
    [] step = "owner" -> "expires" [] step = "expires" -> "version3"
    [] step = "version3" -> "open"

\* Seeded bug: CREATE UNIQUE INDEX IF NOT EXISTS.
RefusedUnlessIndexed(step) ==
  CASE step = "unique" -> schema.duplicates
    [] step = "owner" -> schema.owner
    [] step = "expires" -> schema.expires
    [] OTHER -> FALSE

\* CREATE UNIQUE INDEX and ALTER TABLE refuse what exists, and the index
\* refuses duplicates.
Refused(step) ==
  CASE step = "unique" -> schema.unique \/ schema.duplicates
    [] step = "owner" -> schema.owner
    [] step = "expires" -> schema.expires
    [] OTHER -> FALSE

Applied(step) ==
  CASE step = "unique" -> [schema EXCEPT !.unique = TRUE]
    [] step = "owner" -> [schema EXCEPT !.owner = TRUE]
    [] step = "expires" -> [schema EXCEPT !.expires = TRUE]
    [] step = "version2" -> [schema EXCEPT !.version = 2]
    [] step = "version3" -> [schema EXCEPT !.version = 3]

Migrating == {"unique", "version2", "owner", "expires", "version3"}

MigrationStep(p) ==
  /\ opener[p] \in Migrating
  /\ IF Refused(opener[p])
     THEN Goes(p, "refused") /\ UNCHANGED schema
     ELSE Goes(p, After(opener[p])) /\ schema' = Applied(opener[p])
  /\ UNCHANGED faults

\* A release before the index adds a second active run.
DuplicateRun ==
  /\ schema.version = 1 /\ ~schema.unique
  /\ schema' = [schema EXCEPT !.duplicates = TRUE]
  /\ UNCHANGED <<opener, faults>>

\* A refused process tries again.
Retry(p) ==
  /\ opener[p] = "refused"
  /\ Goes(p, "closed")
  /\ UNCHANGED <<schema, faults>>

\* The process dies, or the file is busy for longer than busy_timeout.
OpenFails(p) ==
  /\ opener[p] \in {"create", "count"} \cup Migrating
  /\ Goes(p, "refused")
  /\ faults' = TRUE
  /\ UNCHANGED schema

MigrationNext ==
  \/ DuplicateRun
  \/ \E p \in Openers :
       \/ ReadVersion(p)
       \/ CreateTable(p)
       \/ CountDuplicates(p)
       \/ MigrationStep(p)
       \/ Retry(p)
       \/ OpenFails(p)

MigrationSpec == MigrationInit /\ [][MigrationNext]_migrationVars

-----------------------------------------------------------------------------
\* Whoever has opened the store has the index and the columns that every
\* statement of it relies on, also when two processes migrate at once.
OpenedIsUsable ==
  (\E p \in Openers : opener[p] = "open") => schema = Made(SchemaVersion, FALSE)

\* While no process dies and no statement is refused for being late, the file
\* always has a schema that open can migrate, or a process that is about to
\* complete it: the losers of a race never leave it half migrated.
WedgedOnlyByFault ==
  ~faults => Consistent \/ \E p \in Openers : opener[p] \in Migrating \ {"unique"}

\* The file never loses what a migration has made: a process that was slow
\* between two statements does not set the version back, or drop the index or a
\* column, under a process that has opened the store meanwhile.
SchemaNeverGoesBack ==
  [][/\ schema'.version >= schema.version
     /\ schema.table => schema'.table
     /\ schema.unique => schema'.unique
     /\ schema.owner => schema'.owner
     /\ schema.expires => schema'.expires]_migrationVars
=============================================================================
