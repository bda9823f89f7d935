\* One loop of each adapter, channels of capacity one.
SPECIFICATION FairFeedSpec
CONSTANTS
  bn = bn  bb = bb  s1 = s1
  btc = btc  tickers = tickers  synthetic = synthetic
  Venue = {bn, bb, s1}
  Adapter <- MCAdapter
  Link = {btc, tickers, synthetic}
  VenueOf <- MCVenueOf
  Cap = 1
  Ceiling = 4
  MaxErrors = 3
  MaxFailures = 2
INVARIANTS FeedTypeOK PanicOnlyAtShutdown OneReader HungOnlyByErrors ReconnectsBackOff
PROPERTIES FeedRecovers ImplementsFundingFeed
\* All goroutines have returned once the context is cancelled.
CHECK_DEADLOCK FALSE
