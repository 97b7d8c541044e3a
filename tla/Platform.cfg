SPECIFICATION Spec
CONSTANTS
  Reqs = {"a", "b"}
  Hosts = {"a", "b"}
  Addrs = {"public", "private", "internal"}
  Public = {"public"}
  MaxHops = 1
  Hooks = {"w1", "w2"}
  EventWindow = 1
  Grace = 1
  Ahead = 1
  MaxSends = 2
  MaxHookEdits = 1
  Emails = {"e"}
  IPs = {"a", "b"}
  Logins = {"a", "b"}
  MaxFailures = 2
  FailWindow = 2
  Lockout = 2
  MaxKeys = 1
  MaxNow = 4
  MaxWrong = 3
  Senders = {"a", "b"}
  MaxAttempts = 2
  DailyCodes = 1
  MaxCodes = 3
  MaxGuesses = 5
  Mail = "m"
  Phone = "p"
  Life = 2
  MaxTokens = 1
  MaxChanges = 1
  MaxBirths = 2
  Users = {"a", "b"}
  Edits = {"a", "b"}
  MaxWrites = 4
  Costs = {1}
  Budgets = {1, 2}
  Months = {1, 2}
  MaxRuns = 3
  MaxBudgetEdits = 1
  Keys = {"k"}
  Tunings <- ThreeTunings
  IdleTTL = 2
  MaxTicks = 5
  MaxTunings = 1
  Providers = {1, 2}
  Loads = {"l"}
  TTL = 1
  MaxClock = 4
  MaxEdits = 2
  Boot = TRUE
  ToolCallers = {"a", "b"}
  MaxClients = 2
  MaxSessions = 3
  MaxDrops = 1
  SkillIds = {1, 2}
  Saves = {"a", "b"}
  Bases = {0}
  MaxSaves = 2
  MaxSwitches = 1
INVARIANTS EdgesHold AccountsSound LimitsHold RegistriesSound
PROPERTY TagIsFirstToFire
CHECK_DEADLOCK FALSE
