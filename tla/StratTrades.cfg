\* Either mode, a working database, a shutdown and a crash: one paper and one live trade.
SPECIFICATION Spec
CONSTANTS
  bn = bn  bb = bb  s1 = s1  s2 = s2  btc = btc
  p = p  q = q  g1 = g1  g2 = g2
  NoTrade = NoTrade
  Venue = {bn, bb, s1, s2}
  Adapter <- MCAdapter
  Faults <- AllFaults
  Size = 1
  Task = {g1, g2}
  Trade = {p, q}
  Symbol = {btc}
  Candidate <- MixedTrades
  Modes <- EitherMode
  Holdings <- OwnHoldings
  MaxPositionsPerSymbol = 1
  MaxNotional = 2
  StoreFails = FALSE
  ChanCap = 1
  MaxShutdowns = 1
  MaxCrashes = 1
  MaxCloseTaps = 2
INVARIANTS TypeOK TradedAtMostOnce ExpiredNeverTraded ApprovedBeforeTraded OpenRowIsMonitored ExposureTracked
PROPERTY ImplementsLifecycle
\* All trades may be used up.
CHECK_DEADLOCK FALSE
