\* One invocation, one failed statement.
SPECIFICATION Spec
CONSTANTS
  p1 = p1
  p2 = p2
  Procs = {p1}
  Operator = Operator
  None = None
  NoReport = NoReport
  TTL = 2
  Checkpoints = 1
  Observes = TRUE
  MaxSamples = 2
  MaxFaults = 1
  Faults = {"store"}
  Timely = TRUE
PROPERTY PublishesFinalReport
