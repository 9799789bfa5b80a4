\* One invocation and no fault.
SPECIFICATION Spec
CONSTANTS
  p1 = p1
  p2 = p2
  Procs = {p1}
  Operator = Operator
  None = None
  NoReport = NoReport
  TTL = 2
  Checkpoints = 1
  Observes = TRUE
  MaxSamples = 2
  MaxFaults = 0
  Faults = {}
  Timely = TRUE
INVARIANT GoExitsZero
