SPECIFICATION FairSpec
CONSTANTS
  Requests = {q1}
  Gated = {a, b}
  Plain = {}
  MaxRuns = 2
  MaxExec = 1
  MaxFaults = 1
  MaxCrashes = 1
PROPERTY DecidedBatchFolds
