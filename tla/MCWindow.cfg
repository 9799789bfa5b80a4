\* No fault at all.
SPECIFICATION FairSpec
CONSTANTS
  Plans <- MCPlans
  MaxSamples = 2
  MaxFaults = 0
  Faults = {}
INVARIANT PassedWindowHasNoBadSample
