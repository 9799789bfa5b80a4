\* As MCChangeCoverage: every document, artifact and answer.
\* The run ends with its final save: CHECK_DEADLOCK FALSE.
SPECIFICATION Spec
CONSTANTS
  any = any
  Any = any
  Plans <- MCPlans
  Declarations <- MCDeclarations
  Documents <- MCDocuments
  DriftFiles <- MCDriftFiles
  FleetAnswers <- MCFleetAnswers
CHECK_DEADLOCK FALSE
INVARIANT AmbiguityBlocks
