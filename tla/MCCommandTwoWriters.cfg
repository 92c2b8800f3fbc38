\* The loop and a chat goroutine write at once; nothing fails.
SPECIFICATION Spec
CONSTANTS
  Procs = {"loop", "chat"}
  Executor <- MCExecutor
  MaxCommands = 2
  MaxRetries = 1
  MaxKept = 1
  MaxCrashes = 0
  MaxReadErrors = 0
  MaxWriteErrors = 0
INVARIANTS SavedCommandsSurvive
CHECK_DEADLOCK FALSE
