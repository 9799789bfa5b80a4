\* A confirm and two requests, two reports at the same path; the console
\* lists one run and allows one failure.
SPECIFICATION Spec
CONSTANTS
  first = first
  other = other
  w1 = w1
  w2 = w2
  NoReport = NoReport
  NoApproval = NoApproval
  Reports = {first, other}
  PairOf <- MCPairOf
  DecisionOf <- MCDecisionOf
  Asked = {"GO", "HOLD"}
  Confirms = {"confirm"}
  Requests = {w1, w2}
  MaxCalls = 3
  Limit = 1
  ListLimit = 1
SYMMETRY Symmetry
INVARIANTS
  TypeOK
  NeverRelaxed
  AnswerIsOwn
  AttemptsBounded
PROPERTIES
  AnswerStable
  ApprovedRunIsOver
  ImplementsRegister
