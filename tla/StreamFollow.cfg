SPECIFICATION FairSpec
CONSTANTS
  Publishers = {p1, p2}
  Clients = {c1}
  Capacity = 2
  Buffer = 1
  AllowCancelRun = TRUE
  MaxRuns = 2
  MaxFrames = 3
CHECK_DEADLOCK FALSE
INVARIANT ViewFaithful
PROPERTY AttachEnds
