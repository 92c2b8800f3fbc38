\* Two callers, three calls, two orders, two faults.
SPECIFICATION Spec
CONSTANTS
  c1 = c1
  c2 = c2
  Callers = {c1, c2}
  Orders <- MCOrders
  MaxAttempts = 2
  MaxOrders = 2
  MaxCalls = 3
  MaxFaults = 2
  Funds = 3
SYMMETRY Symmetric
INVARIANTS TypeOK OneOrderPerSubmit AcksAreTrue ReportsAreCurrent NotWorkingIsFinal PassingFaultsAreRiddenOut
CHECK_DEADLOCK FALSE
