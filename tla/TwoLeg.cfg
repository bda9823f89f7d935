\* Every fault of an exchange, trades that net out, a cancelled context, both modes.
SPECIFICATION TwoLegSpec
CONSTANTS
  bn = bn  bb = bb  s1 = s1  s2 = s2  btc = btc
  t1 = t1  t2 = t2  t3 = t3  g1 = g1  g2 = g2
  NoTrade = NoTrade
  Venue = {bn, bb, s1, s2}
  Adapter <- MCAdapter
  Faults <- AllFaults
  Size = 2
  Task = {g1, g2}
  Trade = {t1, t2, t3}
  Symbol = {btc}
  Candidate <- MCCandidate
  Modes <- EitherMode
  Holdings <- NoHoldings
INVARIANTS TwoLegTypeOK OpenedIsCovered EveryLegAccounted
PROPERTY ImplementsAtomicTrade
\* The caller may have no trade left to open or to close.
CHECK_DEADLOCK FALSE
