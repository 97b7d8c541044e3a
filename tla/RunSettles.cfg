SPECIFICATION FairSpec
CONSTANTS
  Instances = {i1}
  Submitters = {s1}
  Cancellers = {c1}
  Deleters = {d1}
  Home <- Balanced
  MaxRuns = 1
  MaxFaults = 1
  MaxCrashes = 1
  AllowPanic = TRUE
  CancelWaitExpires = TRUE
INVARIANT TableInv
PROPERTY EveryRunSettles
PROPERTY TerminalIsFinal
