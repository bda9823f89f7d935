\* A proposal outlives the time that is left to the settlement.
SPECIFICATION EntrySpec
CONSTANTS
  bn = bn  bb = bb  btc = btc
  Venue = {bn, bb}
  Symbol = {btc}
  Rate = {0, 2}
  Cost = 1
  MinNetEdge = 0
  StaleAfter = 2
  PreSettlement = 1
  Debounce = 1
  Period = 1
  Arriving = {0, 1}
  TickCap = 1
  EngineCap = 2
  CandidateCap = 1
  ProposalTTL = 2
  MaxProposals = 1
INVARIANT EntriesAvoidSettlement
