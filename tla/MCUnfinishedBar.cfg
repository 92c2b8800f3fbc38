\* HTX's own bars, the newest still forming.
SPECIFICATION ReplaySpec
CONSTANTS
  Symbols <- MCSymbols
  Base <- MCBase
  Quote <- MCQuote
  Currencies <- MCCurrencies
  Intervals = {"1m"}
  OrderIds = {1, 2}
  Orders <- MCOrders
  Bars <- MCBars
  Sources = {"paper"}
  Ranges <- MCRanges
  Queries <- MCQueries
  MaxTime = 3
  MaxTradeID = 3
  StartBalance <- MCStart
  Scale = 10
  FeeRate = 1
  TickSize = 1
  StepSize = 10
  MinQuantity = 10
  MinNotional = 5
PROPERTIES FillsOnClosedBarsOnly
CHECK_DEADLOCK FALSE
