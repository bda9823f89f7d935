\* Channels of capacity one, so that they are full much of the time.
SPECIFICATION EngineSpec
CONSTANTS
  bn = bn  bb = bb  btc = btc
  Venue = {bn, bb}
  Symbol = {btc}
  Rate = {0, 2}
  Cost = 1
  MinNetEdge = 0
  StaleAfter = 2
  PreSettlement = 1
  Debounce = 2
  Period = 3
  Arriving = {1, 3}
  TickCap = 1
  EngineCap = 1
  CandidateCap = 1
INVARIANT EngineTypeOK
PROPERTIES NeverGoesBack SilentVenueRests LastingOpportunityRecurs
