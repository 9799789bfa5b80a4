----------------------------- MODULE StoreProofs -----------------------------
(***************************************************************************)
(* Theorems about Migration, for any number of processes, and about Store, *)
(* which composes it with the table of runs.                               *)
(***************************************************************************)
EXTENDS Store, RunStoreProofs

Version(v) == Made(v, FALSE)
Doubled == [version |-> 1, table |-> TRUE, unique |-> FALSE,
            owner |-> FALSE, expires |-> FALSE, duplicates |-> TRUE]

\* The schemas between two versions: the index without version 2, the first
\* lease column, and both without version 3.
Indexed == [version |-> 1, table |-> TRUE, unique |-> TRUE,
            owner |-> FALSE, expires |-> FALSE, duplicates |-> FALSE]
Owned   == [version |-> 2, table |-> TRUE, unique |-> TRUE,
            owner |-> TRUE, expires |-> FALSE, duplicates |-> FALSE]
Leased  == [version |-> 2, table |-> TRUE, unique |-> TRUE,
            owner |-> TRUE, expires |-> TRUE, duplicates |-> FALSE]

Schemas == {Version(0), Version(1), Version(2), Version(3), Version(4),
            Doubled, Indexed, Owned, Leased}

Statements == {"closed", "create", "count", "refused", "open"} \cup Migrating

\* What a process that has come to this statement knows of the file.
Knows(step) ==
  CASE step = "create"   -> {Version(0), Version(3)}
    [] step = "count"    -> Schemas \ {Version(0)}
    [] step = "unique"   -> Schemas \ {Version(0)}
    [] step = "version2" -> {Indexed}
    [] step = "owner"    -> {Version(2), Owned, Leased, Version(3)}
    [] step = "expires"  -> {Owned}
    [] step = "version3" -> {Leased}
    [] step = "open"     -> {Version(3)}
    [] OTHER             -> Schemas

\* The process that has created the index or the first column goes on alone:
\* every other one is refused by it.
Winning == {"version2", "expires", "version3"}

MigrationTypeOK ==
  /\ schema \in Schemas
  /\ opener \in [Openers -> Statements]
  /\ faults \in BOOLEAN

OneWinner ==
  \A p, q \in Openers : opener[p] \in Winning /\ opener[q] \in Winning => p = q

\* Without a fault, a schema between two versions has its winner at work.
Attended ==
  ~faults => /\ schema = Indexed => \E p \in Openers : opener[p] = "version2"
             /\ schema = Owned   => \E p \in Openers : opener[p] = "expires"
             /\ schema = Leased  => \E p \in Openers : opener[p] = "version3"

MigrationInv ==
  /\ MigrationTypeOK
  /\ \A p \in Openers : schema \in Knows(opener[p])
  /\ OneWinner
  /\ Attended

-----------------------------------------------------------------------------
\* The columns of the versions that a statement is applied to, or leads to.
LEMMA Version1 ==
  Version(1) = [version |-> 1, table |-> TRUE, unique |-> FALSE,
                owner |-> FALSE, expires |-> FALSE, duplicates |-> FALSE]
<1>1. (1 > 0) = TRUE /\ (1 > 1) = FALSE /\ (1 > 2) = FALSE
  OBVIOUS
<1> QED  BY <1>1 DEF Version, Made

LEMMA Version1Doubled == Made(1, TRUE) = Doubled
<1>1. (1 > 0) = TRUE /\ (1 > 1) = FALSE /\ (1 > 2) = FALSE
  OBVIOUS
<1> QED  BY <1>1 DEF Made, Doubled

LEMMA Version2 ==
  Version(2) = [version |-> 2, table |-> TRUE, unique |-> TRUE,
                owner |-> FALSE, expires |-> FALSE, duplicates |-> FALSE]
<1>1. (2 > 0) = TRUE /\ (2 > 1) = TRUE /\ (2 > 2) = FALSE
  OBVIOUS
<1> QED  BY <1>1 DEF Version, Made

LEMMA Version3 ==
  Version(3) = [version |-> 3, table |-> TRUE, unique |-> TRUE,
                owner |-> TRUE, expires |-> TRUE, duplicates |-> FALSE]
<1>1. (3 > 0) = TRUE /\ (3 > 1) = TRUE /\ (3 > 2) = TRUE
  OBVIOUS
<1> QED  BY <1>1 DEF Version, Made

\* The two statements that only one process gets through.
LEMMA IndexCreated == schema = Version(1) => Applied("unique") = Indexed
<1>1. Applied("unique") = [schema EXCEPT !.unique = TRUE]
  BY DEF Applied
<1> QED  BY <1>1, Version1 DEF Indexed

LEMMA OwnerAdded == schema = Version(2) => Applied("owner") = Owned
<1>1. Applied("owner") = [schema EXCEPT !.owner = TRUE]
  BY DEF Applied
<1> QED  BY <1>1, Version2 DEF Owned

\* A duplicate run in a file without the index, the first and any other.
LEMMA DuplicateAdded ==
  ASSUME NEW x, x = [version |-> 1, table |-> TRUE, unique |-> FALSE,
                     owner |-> FALSE, expires |-> FALSE, duplicates |-> FALSE],
         NEW new, new = [x EXCEPT !.duplicates = TRUE]
  PROVE  new = Doubled
BY DEF Doubled

LEMMA AnotherAdded ==
  ASSUME NEW new, new = [Doubled EXCEPT !.duplicates = TRUE]
  PROVE  new = Doubled
BY DEF Doubled

\* Each column of each schema.
LEMMA Columns ==
  /\ \A v \in 0 .. 4 :
       /\ Version(v).version = v
       /\ Version(v).table <=> v > 0
       /\ Version(v).unique <=> v > 1
       /\ Version(v).owner <=> v > 2
       /\ Version(v).expires <=> v > 2
       /\ ~Version(v).duplicates
  /\ Doubled.version = 1 /\ Doubled.table /\ ~Doubled.unique
  /\ ~Doubled.owner /\ ~Doubled.expires /\ Doubled.duplicates
  /\ Indexed.version = 1 /\ Indexed.table /\ Indexed.unique
  /\ ~Indexed.owner /\ ~Indexed.expires /\ ~Indexed.duplicates
  /\ Owned.version = 2 /\ Owned.table /\ Owned.unique
  /\ Owned.owner /\ ~Owned.expires /\ ~Owned.duplicates
  /\ Leased.version = 2 /\ Leased.table /\ Leased.unique
  /\ Leased.owner /\ Leased.expires /\ ~Leased.duplicates
<1>1. \A v \in 0 .. 4 : /\ Version(v).version = v
                        /\ Version(v).table <=> v > 0
                        /\ Version(v).unique <=> v > 1
                        /\ Version(v).owner <=> v > 2
                        /\ Version(v).expires <=> v > 2
                        /\ ~Version(v).duplicates
  BY DEF Version, Made
<1>2. /\ Doubled.version = 1 /\ Doubled.table /\ ~Doubled.unique
      /\ ~Doubled.owner /\ ~Doubled.expires /\ Doubled.duplicates
  BY DEF Doubled
<1>3. /\ Indexed.version = 1 /\ Indexed.table /\ Indexed.unique
      /\ ~Indexed.owner /\ ~Indexed.expires /\ ~Indexed.duplicates
  BY DEF Indexed
<1>4. /\ Owned.version = 2 /\ Owned.table /\ Owned.unique
      /\ Owned.owner /\ ~Owned.expires /\ ~Owned.duplicates
  BY DEF Owned
<1>5. /\ Leased.version = 2 /\ Leased.table /\ Leased.unique
      /\ Leased.owner /\ Leased.expires /\ ~Leased.duplicates
  BY DEF Leased
<1> QED  BY <1>1, <1>2, <1>3, <1>4, <1>5

\* A statement of migrate that is not refused takes the file from one schema to
\* the next, and the process to the statement that relies on it.
LEMMA StatementMoves ==
  ASSUME MigrationInv, NEW p \in Openers, opener[p] \in Migrating,
         ~Refused(opener[p])
  PROVE  LET step == opener[p] IN
    \/ step = "unique" /\ schema = Version(1) /\ Applied(step) = Indexed
    \/ step = "version2" /\ schema = Indexed /\ Applied(step) = Version(2)
    \/ step = "owner" /\ schema = Version(2) /\ Applied(step) = Owned
    \/ step = "expires" /\ schema = Owned /\ Applied(step) = Leased
    \/ step = "version3" /\ schema = Leased /\ Applied(step) = Version(3)
<1>1. schema \in Knows(opener[p]) /\ schema \in Schemas
  BY DEF MigrationInv, MigrationTypeOK
<1>2. CASE opener[p] = "unique"
  <2>1. ~schema.unique /\ ~schema.duplicates
    BY <1>2 DEF Refused
  <2>2. schema \notin {Version(2), Version(3), Version(4),
                       Doubled, Indexed, Owned, Leased}
    BY <2>1, Columns
  <2>3. schema # Version(0)
    BY <1>1, <1>2 DEF Knows
  <2>4. schema = Version(1)
    BY <1>1, <2>2, <2>3 DEF Schemas
  <2>5. Applied("unique") = Indexed
    BY <2>4, IndexCreated
  <2> QED  BY <1>2, <2>4, <2>5
<1>3. CASE opener[p] = "version2"
  <2>1. schema = Indexed
    BY <1>1, <1>3 DEF Knows
  <2>2. Applied("version2") = Version(2)
    BY <2>1, Version2 DEF Applied, Indexed
  <2> QED  BY <1>3, <2>1, <2>2
<1>4. CASE opener[p] = "owner"
  <2>1. ~schema.owner
    BY <1>4 DEF Refused
  <2>2. schema \notin {Owned, Leased, Version(3)}
    BY <2>1, Columns
  <2>3. schema = Version(2)
    BY <1>1, <1>4, <2>2 DEF Knows
  <2>4. Applied("owner") = Owned
    BY <2>3, OwnerAdded
  <2> QED  BY <1>4, <2>3, <2>4
<1>5. CASE opener[p] = "expires"
  <2>1. schema = Owned
    BY <1>1, <1>5 DEF Knows
  <2>2. Applied("expires") = Leased
    BY <2>1 DEF Applied, Owned, Leased
  <2> QED  BY <1>5, <2>1, <2>2
<1>6. CASE opener[p] = "version3"
  <2>1. schema = Leased
    BY <1>1, <1>6 DEF Knows
  <2>2. Applied("version3") = Version(3)
    BY <2>1, Version3 DEF Applied, Leased
  <2> QED  BY <1>6, <2>1, <2>2
<1> QED  BY <1>2, <1>3, <1>4, <1>5, <1>6 DEF Migrating

-----------------------------------------------------------------------------
LEMMA MigrationStart == MigrationInit => MigrationInv
<1> SUFFICES ASSUME MigrationInit PROVE MigrationInv
  OBVIOUS
<1>1. \A p \in Openers : opener[p] = "closed"
  BY DEF MigrationInit
<1>2. schema \in Schemas \ {Indexed, Owned, Leased}
  <2>0. PICK version \in 0 .. (SchemaVersion + 1) :
          schema = Made(version, FALSE) \/ (version = 1 /\ schema = Made(version, TRUE))
    BY Zenon DEF MigrationInit
  <2>1. version \in 0 .. 4
    BY SchemaAssumption
  <2>4. schema \in {Version(version), Doubled}
    BY <2>0, Version1Doubled, Zenon DEF Version
  <2>2. version \in {0, 1, 2, 3, 4}
    BY <2>1
  <2>3. schema \notin {Indexed, Owned, Leased}
    BY <2>1, <2>4, Columns
  <2> QED  BY <2>2, <2>3, <2>4 DEF Schemas
<1>3. MigrationTypeOK
  BY <1>2 DEF MigrationInit, MigrationTypeOK, Statements
<1> QED
  BY <1>1, <1>2, <1>3
     DEF MigrationInv, Knows, OneWinner, Winning, Attended

\* A process goes on while the schema stays, to a statement whose knowledge it
\* has; if it was the winner, that is a fault.
LEMMA Moved ==
  ASSUME MigrationInv, NEW p \in Openers, NEW step \in Statements \ Winning,
         Goes(p, step), schema \in Knows(step), UNCHANGED schema,
         faults' \in BOOLEAN, faults \/ opener[p] \in Winning => faults'
  PROVE  MigrationInv'
<1> USE DEF MigrationInv, MigrationTypeOK
<1>1. opener' = [opener EXCEPT ![p] = step]
  BY DEF Goes
<1>2. MigrationTypeOK' /\ \A q \in Openers : schema' \in Knows(opener'[q])
  BY <1>1
<1>3. OneWinner'
  BY <1>1 DEF OneWinner
<1>4. Attended'
  BY <1>1 DEF Attended, Winning
<1> QED  BY <1>2, <1>3, <1>4

\* The processes beside the one that changes the schema: none is at a statement
\* that relies on the schema it changes.
LEMMA Beside ==
  ASSUME MigrationInv, NEW p \in Openers, NEW q \in Openers, p # q
  PROVE  /\ schema = Version(1)
              => opener[q] \in {"closed", "count", "unique", "refused"}
         /\ schema \in {Indexed, Owned, Leased} /\ opener[p] \in Winning
              => opener[q] \in {"closed", "count", "unique", "owner", "refused"}
         /\ schema = Indexed => opener[q] # "owner"
         /\ schema = Version(2)
              => opener[q] \in {"closed", "count", "unique", "owner", "refused"}
<1>1. opener[q] \in Statements /\ schema \in Knows(opener[q])
  BY DEF MigrationInv, MigrationTypeOK
<1>2. opener[p] \in Winning => opener[q] \notin Winning
  BY DEF MigrationInv, OneWinner
<1>3. CASE schema = Version(1)
  BY <1>1, <1>3, Columns DEF Knows, Statements, Migrating
<1>4. CASE schema = Version(2)
  BY <1>1, <1>4, Columns DEF Knows, Statements, Migrating
<1>5. CASE schema \in {Indexed, Owned, Leased}
  BY <1>1, <1>2, <1>5, Columns DEF Knows, Statements, Migrating, Winning
<1> QED  BY <1>3, <1>4, <1>5, Columns

\* The process that gets its statement through takes what it knows along.
LEMMA Won ==
  ASSUME MigrationInv, NEW p \in Openers, opener[p] \in Migrating,
         ~Refused(opener[p]), Goes(p, After(opener[p])),
         schema' = Applied(opener[p]), UNCHANGED faults
  PROVE  MigrationInv'
<1> USE DEF MigrationInv, MigrationTypeOK
<1>1. opener' = [opener EXCEPT ![p] = After(opener[p])]
  BY DEF Goes
<1>2. ASSUME NEW q \in Openers, q # p PROVE opener'[q] = opener[q]
  BY <1>1, <1>2
<1>3. CASE opener[p] = "unique"
  <2>1. schema = Version(1) /\ schema' = Indexed /\ opener'[p] = "version2"
    BY <1>1, <1>3, StatementMoves DEF After
  <2>2. \A q \in Openers \ {p} : opener'[q] \in {"closed", "count", "unique", "refused"}
    BY <1>2, <2>1, Beside
  <2> QED
    BY <1>1, <2>1, <2>2, Columns
       DEF Schemas, Statements, Migrating, Knows, OneWinner, Winning, Attended
<1>4. CASE opener[p] = "version2"
  <2>1. schema = Indexed /\ schema' = Version(2) /\ opener'[p] = "owner"
    BY <1>1, <1>4, StatementMoves DEF After
  <2>2. \A q \in Openers \ {p} :
          opener'[q] \in {"closed", "count", "unique", "refused"}
    BY <1>2, <1>4, <2>1, Beside DEF Winning
  <2> QED
    BY <1>1, <2>1, <2>2, Columns
       DEF Schemas, Statements, Migrating, Knows, OneWinner, Winning, Attended
<1>5. CASE opener[p] = "owner"
  <2>1. schema = Version(2) /\ schema' = Owned /\ opener'[p] = "expires"
    BY <1>1, <1>5, StatementMoves DEF After
  <2>2. \A q \in Openers \ {p} :
          opener'[q] \in {"closed", "count", "unique", "owner", "refused"}
    BY <1>2, <2>1, Beside
  <2> QED
    BY <1>1, <2>1, <2>2, Columns
       DEF Schemas, Statements, Migrating, Knows, OneWinner, Winning, Attended
<1>6. CASE opener[p] = "expires"
  <2>1. schema = Owned /\ schema' = Leased /\ opener'[p] = "version3"
    BY <1>1, <1>6, StatementMoves DEF After
  <2>2. \A q \in Openers \ {p} :
          opener'[q] \in {"closed", "count", "unique", "owner", "refused"}
    BY <1>2, <1>6, <2>1, Beside DEF Winning
  <2> QED
    BY <1>1, <2>1, <2>2, Columns
       DEF Schemas, Statements, Migrating, Knows, OneWinner, Winning, Attended
<1>7. CASE opener[p] = "version3"
  <2>1. schema = Leased /\ schema' = Version(3) /\ opener'[p] = "open"
    BY <1>1, <1>7, StatementMoves DEF After
  <2>2. \A q \in Openers \ {p} :
          opener'[q] \in {"closed", "count", "unique", "owner", "refused"}
    BY <1>2, <1>7, <2>1, Beside DEF Winning
  <2> QED
    BY <1>1, <2>1, <2>2, Columns
       DEF Schemas, Statements, Migrating, Knows, OneWinner, Winning, Attended
<1> QED  BY <1>3, <1>4, <1>5, <1>6, <1>7 DEF Migrating

\* Only one process changes the schema at a time: what the others know stays
\* true, or they are at no statement that relies on it.
LEMMA MigrationKept == MigrationInv /\ [MigrationNext]_migrationVars => MigrationInv'
<1> SUFFICES ASSUME MigrationInv, [MigrationNext]_migrationVars
             PROVE  MigrationInv'
  OBVIOUS
<1> USE DEF MigrationInv, MigrationTypeOK
<1>1. CASE DuplicateRun
  <2>1. schema \in {Version(1), Doubled}
    BY <1>1, Columns DEF DuplicateRun, Schemas
  <2>2. schema' = Doubled
    <3>1. schema' = [schema EXCEPT !.duplicates = TRUE]
      BY <1>1 DEF DuplicateRun
    <3>2. CASE schema = Version(1)
      BY <3>1, <3>2, Version1, DuplicateAdded
    <3>3. CASE schema = Doubled
      BY <3>1, <3>3, AnotherAdded
    <3> QED  BY <2>1, <3>2, <3>3
  <2>3. \A p \in Openers : opener[p] \in {"closed", "count", "unique", "refused"}
    <3>1. schema \notin {Version(0), Version(2), Version(3), Indexed, Owned, Leased}
      BY <2>1, Columns
    <3> QED  BY <3>1, <1>1 DEF Knows, Statements, Migrating
  <2>4. Doubled \in Schemas \ {Version(0), Indexed, Owned, Leased}
    BY Columns DEF Schemas
  <2> QED
    BY <1>1, <2>2, <2>3, <2>4 DEF DuplicateRun, Knows, OneWinner, Winning, Attended
<1>2. ASSUME NEW p \in Openers, ReadVersion(p) PROVE MigrationInv'
  <2>1. schema.version \in 0 .. 4
    BY Columns DEF Schemas
  <2>2. CASE schema.version > SchemaVersion
    <3>0. schema.version # SchemaVersion /\ schema.version \notin {0, 1, 2}
      BY <2>1, <2>2, SchemaAssumption
    <3>1. Goes(p, "refused")
      BY <1>2, <2>2, <3>0, Zenon DEF ReadVersion
    <3> QED  BY <1>2, <3>1, Moved DEF ReadVersion, Statements, Winning, Knows
  <2>3. CASE schema.version = SchemaVersion
    <3>1. Goes(p, "open")
      BY <1>2, <2>3, SchemaAssumption DEF ReadVersion
    <3>2. schema = Version(3)
      BY <2>3, Columns, SchemaAssumption DEF Schemas
    <3> QED  BY <1>2, <3>1, <3>2, Moved DEF ReadVersion, Statements, Winning, Knows
  <2>4. CASE schema.version = 0
    <3>1. Goes(p, "create")
      BY <1>2, <2>4, SchemaAssumption DEF ReadVersion
    <3>2. schema = Version(0)
      BY <2>4, Columns DEF Schemas
    <3> QED  BY <1>2, <3>1, <3>2, Moved DEF ReadVersion, Statements, Winning, Knows
  <2>5. CASE schema.version = 1
    <3>1. Goes(p, "count")
      BY <1>2, <2>5, SchemaAssumption DEF ReadVersion
    <3>2. schema # Version(0)
      BY <2>5, Columns
    <3> QED  BY <1>2, <3>1, <3>2, Moved DEF ReadVersion, Statements, Winning, Knows
  <2>6. CASE schema.version = 2
    <3>1. Goes(p, "owner")
      BY <1>2, <2>6, SchemaAssumption DEF ReadVersion
    <3>2. schema \in {Version(2), Owned, Leased}
      BY <2>6, Columns DEF Schemas
    <3> QED
      BY <1>2, <3>1, <3>2, Moved
         DEF ReadVersion, Statements, Migrating, Winning, Knows
  <2>7. schema.version \in {0, 1, 2} \/ schema.version >= SchemaVersion
    BY <2>1, SchemaAssumption
  <2> QED  BY <2>1, <2>2, <2>3, <2>4, <2>5, <2>6, <2>7, SchemaAssumption
<1>3. ASSUME NEW p \in Openers, CreateTable(p) PROVE MigrationInv'
  <2>1. CASE schema.table
    BY <1>3, <2>1, Moved DEF CreateTable, Statements, Winning, Knows
  <2>2. CASE ~schema.table
    <3>1. schema = Version(0)
      BY <1>3, <2>2, Columns DEF CreateTable, Knows
    <3>2. schema' = Made(SchemaVersion, FALSE) /\ Goes(p, "open") /\ UNCHANGED faults
      BY <1>3, <2>2, Zenon DEF CreateTable
    <3>3. schema' = Version(3)
      BY <3>2, SchemaAssumption, Zenon DEF Version
    <3>4. \A q \in Openers : opener[q] \in {"closed", "create", "refused"}
      BY <3>1, Columns DEF Knows, Statements, Migrating
    <3>5. opener' = [opener EXCEPT ![p] = "open"]
      BY <3>2 DEF Goes
    <3>6. MigrationTypeOK'
      BY <3>2, <3>3, <3>5 DEF Schemas, Statements
    <3>7. \A q \in Openers : schema' \in Knows(opener'[q])
      BY <3>3, <3>4, <3>5 DEF Knows, Schemas
    <3>8. OneWinner' /\ Attended'
      BY <3>3, <3>4, <3>5, Columns DEF OneWinner, Winning, Attended
    <3> QED  BY <3>6, <3>7, <3>8
  <2> QED  BY <2>1, <2>2
<1>4. ASSUME NEW p \in Openers, CountDuplicates(p) PROVE MigrationInv'
  BY <1>4, Moved DEF CountDuplicates, Statements, Migrating, Winning, Knows
<1>5. ASSUME NEW p \in Openers, MigrationStep(p) PROVE MigrationInv'
  <2>1. CASE Refused(opener[p])
    <3>1. opener[p] \notin Winning
      BY <1>5, <2>1, Columns DEF Refused, Winning, Knows
    <3> QED
      BY <1>5, <2>1, <3>1, Moved DEF MigrationStep, Statements, Winning, Knows
  <2> QED  BY <1>5, <2>1, Won DEF MigrationStep
<1>6. ASSUME NEW p \in Openers, Retry(p) PROVE MigrationInv'
  BY <1>6, Moved DEF Retry, Statements, Winning, Knows
<1>7. ASSUME NEW p \in Openers, OpenFails(p) PROVE MigrationInv'
  BY <1>7, Moved DEF OpenFails, Statements, Winning, Knows
<1>8. CASE UNCHANGED migrationVars
  BY <1>8 DEF migrationVars, OneWinner, Attended
<1> QED
  BY <1>1, <1>2, <1>3, <1>4, <1>5, <1>6, <1>7, <1>8 DEF MigrationNext

\* What a step does to the schema: nothing, or one statement on it.
LEMMA SchemaMoves ==
  ASSUME MigrationInv, MigrationNext
  PROVE  \/ UNCHANGED schema
         \/ schema \in {Version(1), Doubled} /\ schema' = Doubled
         \/ schema = Version(0) /\ schema' = Version(3)
         \/ schema = Version(1) /\ schema' = Indexed
         \/ schema = Indexed /\ schema' = Version(2)
         \/ schema = Version(2) /\ schema' = Owned
         \/ schema = Owned /\ schema' = Leased
         \/ schema = Leased /\ schema' = Version(3)
<1>0. schema \in Schemas /\ \A p \in Openers : schema \in Knows(opener[p])
  BY DEF MigrationInv, MigrationTypeOK
<1>1. CASE DuplicateRun
  <2>1. schema \in {Version(1), Doubled}
    BY <1>0, <1>1, Columns DEF DuplicateRun, Schemas
  <2>2. schema' = [schema EXCEPT !.duplicates = TRUE]
    BY <1>1 DEF DuplicateRun
  <2>3. schema = Version(1) => schema' = Doubled
    BY <2>2, Version1, DuplicateAdded
  <2>4. schema = Doubled => schema' = Doubled
    BY <2>2, AnotherAdded
  <2> QED  BY <2>1, <2>3, <2>4
<1>2. ASSUME NEW p \in Openers, CreateTable(p), ~schema.table
      PROVE  schema = Version(0) /\ schema' = Version(3)
  <2>1. schema = Version(0)
    BY <1>0, <1>2, Columns DEF CreateTable, Knows
  <2>2. schema' = Made(SchemaVersion, FALSE)
    BY <1>2, Zenon DEF CreateTable
  <2> QED  BY <2>1, <2>2, SchemaAssumption, Zenon DEF Version
<1>3. ASSUME NEW p \in Openers, MigrationStep(p), ~Refused(opener[p])
      PROVE  \/ schema = Version(1) /\ schema' = Indexed
             \/ schema = Indexed /\ schema' = Version(2)
             \/ schema = Version(2) /\ schema' = Owned
             \/ schema = Owned /\ schema' = Leased
             \/ schema = Leased /\ schema' = Version(3)
  BY <1>3, StatementMoves DEF MigrationStep
<1>4. ASSUME NEW p \in Openers,
             ReadVersion(p) \/ CountDuplicates(p) \/ Retry(p) \/ OpenFails(p)
      PROVE  UNCHANGED schema
  BY <1>4 DEF ReadVersion, CountDuplicates, Retry, OpenFails
<1>5. ASSUME NEW p \in Openers,
             \/ CreateTable(p) /\ schema.table
             \/ MigrationStep(p) /\ Refused(opener[p])
      PROVE  UNCHANGED schema
  BY <1>5 DEF CreateTable, MigrationStep
<1> QED  BY <1>1, <1>2, <1>3, <1>4, <1>5 DEF MigrationNext

-----------------------------------------------------------------------------
\* What every process relies on holds at every moment of every migration.
THEOREM MigrationInvariant == MigrationSpec => []MigrationInv
<1>1. MigrationInit => MigrationInv
  BY MigrationStart
<1>2. MigrationInv /\ [MigrationNext]_migrationVars => MigrationInv'
  BY MigrationKept
<1> QED  BY <1>1, <1>2, PTL DEF MigrationSpec

\* Opening and using take turns on disjoint state: the store is a migration...
THEOREM StoreMigrates == StoreSpec => MigrationSpec
<1>1. StoreInit => MigrationInit
  BY DEF StoreInit
<1>2. [StoreNext]_storeVars => [MigrationNext]_migrationVars
  BY DEF StoreNext, Opening, Using, storeVars
<1> QED  BY <1>1, <1>2, PTL DEF StoreSpec, MigrationSpec

\* ...and a table of runs, so that every theorem of RunStoreProofs holds of it.
THEOREM StoreIsTable == StoreSpec => Spec
<1>1. StoreInit => Init
  BY DEF StoreInit
<1>2. [StoreNext]_storeVars => [Next]_vars
  BY DEF StoreNext, Opening, Using, storeVars
<1> QED  BY <1>1, <1>2, PTL DEF StoreSpec, Spec

\* With any number of processes that migrate at once, die or retry, whoever
\* has opened the store has the index and the lease columns (open, migrate).
THEOREM Usable == StoreSpec => []OpenedIsUsable
<1>1. MigrationInv => OpenedIsUsable
  <2>1. Version(3) = Made(SchemaVersion, FALSE)
    BY SchemaAssumption, Zenon DEF Version
  <2> SUFFICES ASSUME MigrationInv, NEW p \in Openers, opener[p] = "open"
               PROVE  schema = Made(SchemaVersion, FALSE)
    BY DEF OpenedIsUsable
  <2>2. schema = Version(3)
    BY DEF MigrationInv, Knows
  <2> QED  BY <2>1, <2>2, Zenon
<1> QED  BY <1>1, MigrationInvariant, StoreMigrates, PTL

\* The losers of a race never leave the file half migrated, however many they
\* are: only a process that dies, or a statement that is refused for being
\* late, does (migrate).
THEOREM OnlyFaultsWedge == StoreSpec => []WedgedOnlyByFault
<1>1. MigrationInv => WedgedOnlyByFault
  <2> SUFFICES ASSUME MigrationInv, ~faults
               PROVE  Consistent \/ \E p \in Openers : opener[p] \in Migrating \ {"unique"}
    BY DEF WedgedOnlyByFault
  <2>1. schema \in {Indexed, Owned, Leased} => \E p \in Openers : opener[p] \in Winning
    BY DEF MigrationInv, Attended, Winning
  <2>2. Winning \subseteq Migrating \ {"unique"}
    BY DEF Winning, Migrating
  <2>3. ASSUME NEW v \in {0, 1, 2, 3, 4}, schema = Version(v) PROVE Consistent
    <3>1. schema.version = v /\ schema.duplicates = FALSE
      BY <2>3 DEF Version, Made
    <3> QED  BY <2>3, <3>1, Zenon DEF Consistent, Version
  <2>4. ASSUME schema = Doubled PROVE Consistent
    <3>1. schema.version = 1 /\ schema.duplicates = TRUE
      BY <2>4 DEF Doubled
    <3> QED  BY <2>4, <3>1, Version1Doubled, Zenon DEF Consistent
  <2> QED
    BY <2>1, <2>2, <2>3, <2>4 DEF MigrationInv, MigrationTypeOK, Schemas
<1> QED  BY <1>1, MigrationInvariant, StoreMigrates, PTL

\* No process, however late, takes back what another one has made of the file.
THEOREM NeverBack == StoreSpec => SchemaNeverGoesBack
<1> DEFINE Kept == /\ schema'.version >= schema.version
                   /\ schema.table => schema'.table
                   /\ schema.unique => schema'.unique
                   /\ schema.owner => schema'.owner
                   /\ schema.expires => schema'.expires
<1>1. MigrationInv /\ [MigrationNext]_migrationVars => [Kept]_migrationVars
  <2> SUFFICES ASSUME MigrationInv, MigrationNext PROVE Kept
    OBVIOUS
  <2>1. schema.version \in 0 .. 4
    BY Columns DEF MigrationInv, MigrationTypeOK, Schemas
  <2> QED  BY <2>1, SchemaMoves, Columns
<1> QED
  BY <1>1, MigrationInvariant, StoreMigrates, PTL
     DEF MigrationSpec, SchemaNeverGoesBack

\* The store, opened and used by any number of processes, implements the
\* abstract run.
THEOREM StoreImplements == StoreSpec => ImplementsLifecycle
BY StoreIsTable, Refinement, PTL
=============================================================================
