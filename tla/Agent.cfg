SPECIFICATION Spec
INVARIANTS ContextSound TurnSound StreamSound StallSound
PROPERTIES AgentProgress
CHECK_DEADLOCK FALSE
CONSTANTS
  MaxIterations = 3
  Replies <- SomeReplies
  Spawns = {"s1", "s2", "s3"}
  Root = "root"
  Budgets <- SomeBudgets
  Protocols = {"openai", "anthropic"}
  CallIds = {"a", "b"}
  Slots = {0, 1}
  MaxAttempts = 2
  Resends = 1
  MaxChunks = 3
  Timeout = 2
