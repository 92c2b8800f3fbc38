\* One market; the fee eats every bought quantity, so buys abandon their bar.
SPECIFICATION ReplaySpec
CONSTANTS
  Symbols <- MCSymbols
  Base <- MCBase
  Quote <- MCQuote
  Currencies <- MCCurrencies
  Intervals = {"1m"}
  OrderIds = {1, 2}
  Orders <- MCOrders
  Bars <- MCBars
  Sources = {"replay", "paper"}
  Ranges <- MCRanges
  Queries <- MCQueries
  MaxTime = 3
  MaxTradeID = 3
  StartBalance <- MCStart
  Scale = 10
  FeeRate = 10
  TickSize = 1
  StepSize = 10
  MinQuantity = 10
  MinNotional = 5
INVARIANTS OneFillPerOrder
PROPERTIES ClosedOrdersAreFinal CommittedBarsLeaveNoCrossingOrder AdvancedBarsLeaveNoCrossingOrder
CHECK_DEADLOCK FALSE
