SPECIFICATION HistorySpec
CONSTANTS
  c1 = c1
  c2 = c2
  Client = {c1, c2}
  Does <- OpensRestarts
  Build <- NewAndNewer
  Cached <- NewerOnce
  Bundled <- NewAndNewer
  Protocol <- Protocols
  Old = "old"
  MaxProc = 3
  MaxFaults = 1
CHECK_DEADLOCK FALSE
INVARIANTS
  RecordsAreTrue
  UpgradeTakesEffect
PROPERTIES
  Recovers
