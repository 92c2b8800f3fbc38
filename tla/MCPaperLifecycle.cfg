\* One market, two k-line intervals, a 30% fee so that rounding shows.
SPECIFICATION Spec
CONSTANTS
  Symbols <- MCSymbols
  Base <- MCBase
  Quote <- MCQuote
  Currencies <- MCCurrencies
  Intervals = {"1m", "5m"}
  OrderIds = {1, 2, 3, 4}
  Orders <- MCOrders
  Bars <- MCBars
  MaxTime = 2
  MaxTradeID = 6
  StartBalance <- MCNoBase
  Scale = 10
  FeeRate = 3
  TickSize = 1
  StepSize = 1
  MinQuantity = 1
  MinNotional = 1
INVARIANTS TypeOK LockedBacksWorkingOrders FillsAlwaysSettle LotsMatchHoldings
           RealizedPnLMatchesCash ClosesOldestLotFirst
           TradesExplainBalances OpenTradesAreOpenLots 
PROPERTIES FillsComeFromFreshBars ImplementsAccount
CHECK_DEADLOCK FALSE
