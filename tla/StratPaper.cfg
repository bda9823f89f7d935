\* Simulators, no stop, two taps on Close, fair scheduling.
SPECIFICATION FairSpec
CONSTANTS
  bn = bn  bb = bb  s1 = s1  s2 = s2  btc = btc
  p = p  q = q  g1 = g1  g2 = g2
  NoTrade = NoTrade
  Venue = {bn, bb, s1, s2}
  Adapter <- MCAdapter
  Faults <- Rejecting
  Size = 1
  Task = {g1, g2}
  Trade = {p, q}
  Symbol = {btc}
  Candidate <- PaperTrades
  Modes <- PaperMode
  Holdings <- NoHoldings
  MaxPositionsPerSymbol = 1
  MaxNotional = 2
  StoreFails = FALSE
  ChanCap = 1
  MaxShutdowns = 0
  MaxCrashes = 0
  MaxCloseTaps = 2
INVARIANT LedgerReconciles
PROPERTIES ProposalsSettle CloseServed
\* All trades may be used up.
CHECK_DEADLOCK FALSE
