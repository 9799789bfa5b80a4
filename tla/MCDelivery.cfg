\* Every candidate of MCDelivery, read at once or late, with one moving ref.
\* The gates end: CHECK_DEADLOCK FALSE.
SPECIFICATION Spec
CONSTANTS
  none = none
  None = none
  Documents <- MCDocuments
  Clock = {5, 7}
  Plans <- MCPlans
  Histories <- MCHistories
  AncestorsOf <- MCAncestorsOf
  TreeOf <- MCTreeOf
  Rank <- MCRank
  Printed <- MCPrinted
  Room = 2
  Fragments = {"ose", "sql"}
  Migrations = {"schema", "odd", "sql"}
  Configuration = {"compose", "deploy"}
  MatchedBy <- MCMatchedBy
  DirectoryOf <- MCDirectoryOf
  Gone = "gone"
  MaxAge = 3
  Skew = 1
  MaxMoves = 1
CHECK_DEADLOCK FALSE
INVARIANTS
  TypeOK
  NewestDecides
  OldFailuresForgiven
  ReleasedIsVerified
  SensitiveDeclared
