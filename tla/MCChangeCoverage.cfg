\* Every document, artifact and answer of MCChangeCoverage, any interruptions.
\* The run ends with its final save: CHECK_DEADLOCK FALSE.
SPECIFICATION Spec
CONSTANTS
  any = any
  Any = any
  Plans <- MCPlans
  Declarations <- MCDeclarations
  Documents <- MCDocuments
  DriftFiles <- MCDriftFiles
  FleetAnswers <- MCFleetAnswers
CHECK_DEADLOCK FALSE
INVARIANTS
  TypeOK
  OwnObservation
  PassAccountsForAll
  DatabaseChangesVerified
  EachSourceOnce
  VerdictIsExact
