SPECIFICATION ScanSpec
CONSTANTS
  Worlds <- AllWorlds
  Selections <- AllSelections
  Selectors = {"default", "google"}
  SprawlLimit = 1
  SprawlCap = 2
  CveCap = 3
  RandomNames = {3}
  MaxFaults = 5
CHECK_DEADLOCK FALSE
INVARIANTS ScanTypeOK DriftExplained BiasOfOutages ClaimsAreTrue
PROPERTY ScanEnds
