\* Every outcome of every gate, any two signals, crashes or failed saves.
SPECIFICATION FairSpec
CONSTANTS
  Plans <- MCPlans
  MaxSamples = 2
  MaxFaults = 2
  Faults = {"signal", "crash", "store"}
INVARIANTS
  TypeOK
  DecisionSound
  PublishedIsSaved
PROPERTIES
  ObservationOnlyGrows
  EventuallyDecided
