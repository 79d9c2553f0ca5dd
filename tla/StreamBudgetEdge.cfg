SPECIFICATION Spec
CONSTANTS
  TextBytes = 4
  Lines = {"text", "done", "lf"}
  MaxBody = 4
  ChunkLines = 2
  BufferLines = 2
  MaxResponse = 4
  TokenBudgets = {2}
  Estimates = {1, 2}
  FailModes = {"closed"}
INVARIANT BudgetAlwaysKept
CHECK_DEADLOCK FALSE
