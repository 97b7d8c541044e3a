SPECIFICATION Spec
CONSTANTS
  Instances = {i1, i2}
  Submitters = {s1, s2}
  Cancellers = {}
  Deleters = {}
  Home <- Balanced
  MaxRuns = 2
  MaxFaults = 0
  MaxCrashes = 0
  AllowPanic = TRUE
  CancelWaitExpires = FALSE
INVARIANT TypeOK
INVARIANT SingleActiveRun
INVARIANT ActiveRowHasSettler
INVARIANT OutcomeRecorded
PROPERTY ImplementsRunTable
