\* One tick, one verdict, one request and one update fill their channels; one crash.
SPECIFICATION WatchSpec
CONSTANTS
  Rate = {0, 2}
  NoTick = NoTick
  Cost = 1
  MinNetEdge = 0
  TickCap = 1
  ChanCap = 1
  UpdateCap = 1
  MaxUpdates = 2
  MaxCloseTaps = 2
  MaxCrashes = 1
INVARIANTS WatchTypeOK TapsAccounted
PROPERTIES LosingPositionAlerted AlertsCease CloseHeard
