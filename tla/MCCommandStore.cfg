\* One goroutine, a crash, a failing read and a failing write anywhere, commands with a retry.
SPECIFICATION FairSpec
CONSTANTS
  Procs = {"loop"}
  Executor <- MCExecutor
  MaxCommands = 3
  MaxRetries = 2
  MaxKept = 1
  MaxCrashes = 1
  MaxReadErrors = 1
  MaxWriteErrors = 1
INVARIANTS TypeOK EachCommandInOneList RunsAreAccountedFor
PROPERTIES  ImplementsQueue
CHECK_DEADLOCK FALSE
