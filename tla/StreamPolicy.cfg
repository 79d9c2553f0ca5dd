SPECIFICATION FairSpec
CONSTANTS
  TextBytes = 4
  Lines = {"text", "done", "pii", "ws", "lf"}
  MaxBody = 4
  ChunkLines = 2
  BufferLines = 2
  MaxResponse = 4
  TokenBudgets = {2}
  Estimates = {1, 3}
  FailModes = {"open", "closed"}
INVARIANTS OnlyApprovedReachesClient BuffersAgree OutcomeTold BudgetKept
PROPERTIES ImplementsContract StreamEnds
CHECK_DEADLOCK FALSE
