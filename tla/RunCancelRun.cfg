SPECIFICATION Spec
CONSTANTS
  Instances = {i1}
  Submitters = {s1}
  Cancellers = {c1}
  Deleters = {}
  Home <- Balanced
  MaxRuns = 2
  MaxFaults = 0
  MaxCrashes = 0
  AllowPanic = FALSE
  CancelWaitExpires = FALSE
INVARIANT ActiveRowHasSettler
INVARIANT CancelFindsItsRun
