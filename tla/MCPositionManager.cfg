\* A quote amount of 5, of which the exchange takes 4 at most in one order, and a
\* minimum of 2: a position of 1 is dust.
SPECIFICATION FairSpec
CONSTANTS
  QuoteQuantity = 5
  Funds = 4
  MinQuantity = 2
  Ratios = {0, 100}
  Closes <- MCCloses
  Stops = {"price", "percent"}
  MaxWait = 2
  MaxOrders = 4
  MaxBars = 2
INVARIANTS TypeOK AnnouncedProfitIsItsOwn
PROPERTIES  ReopensAfterClose CommandsReturn
CHECK_DEADLOCK FALSE
