SPECIFICATION Spec
CONSTANTS
  Fires = {"f1", "f2"}
  Backoff = 1
  MaxTime = 2
  MaxEdits = 1
  MaxTrouble = 1
  JobNames = {"dream", "reap"}
  MaxInterval = 2
  Servers = {"i1", "i2"}
  Sess = {"a"}
  Cap = 2
  MaxMsgs = 2
  MaxMems = 3
  MaxPassFaults = 1
  Workers = {"hook", "s1"}
  Hook = "hook"
  Lease = 3
  Backoffs <- TwoBackoffs
  Retries = 1
  MaxSendFaults = 2
INVARIANTS TriggersOnce MemoryKept DeliverySound
PROPERTIES FiresRespectEdits BackgroundSettles
CHECK_DEADLOCK FALSE
