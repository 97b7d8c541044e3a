SPECIFICATION Spec
CONSTANTS
  Runs = {1, 2}
  Calls = {"a", "b"}
  MaxRequests = 2
  MaxFaults = 1
  MaxCrashes = 1
  Images = {1, 2, 3}
  MaxFiles = 1
  MaxUploads = 2
  Sessions = {1, 2}
  Page = 1
  MaxPasses = 1
  MaxStirs = 1
  Scale = 5
  Buffer = 1
  Count = 2
  MaxLen = 3
  MaxEntries = 4
  MaxErrors = 1
  ToolCalls = {"c"}
  MaxFrameEvents = 4
INVARIANTS LedgerSound HistoryFaithful ImagesKept LiveStreamSound FramesSound
CHECK_DEADLOCK FALSE
