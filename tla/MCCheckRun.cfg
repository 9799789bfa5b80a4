\* Two invocations and an operator, any one fault, heartbeats on time, fair
\* scheduling.
SPECIFICATION FairSpec
CONSTANTS
  p1 = p1
  p2 = p2
  Procs = {p1, p2}
  Operator = Operator
  None = None
  NoReport = NoReport
  TTL = 2
  Checkpoints = 2
  Observes = TRUE
  MaxSamples = 2
  MaxFaults = 1
  Faults = {"signal", "crash", "store", "disk", "abandon"}
  Timely = TRUE
INVARIANTS
  TypeOK
  CompletedIsPublished
  ExclusiveExecution
  LeaseFreedOnExit
  GoIsWatched
PROPERTIES
  GatesNotRepeated
  Termination
  RerunCompletes
