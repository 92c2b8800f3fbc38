\* Both writers, two ends of the process or machine, two failing calls.
SPECIFICATION Spec
CONSTANTS
  Kinds = {"store", "recorder"}
  Users = {"u1", "u2"}
  Sessions <- MCSessions
  MaxClock = 2
  MaxCrashes = 2
  MaxErrors = 2
INVARIANTS TypeOK RecorderStaysReadable
PROPERTIES ImplementsLog
CHECK_DEADLOCK FALSE
