\* One signal.
SPECIFICATION FairSpec
CONSTANTS
  Plans <- MCPlans
  MaxSamples = 2
  MaxFaults = 1
  Faults = {"signal"}
INVARIANT NoGoIsTheReleases
