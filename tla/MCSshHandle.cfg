SPECIFICATION Spec
CONSTANTS
  Attempts = {a1, a2}
  Jobs = {j1}
  NoHost = NoHost
  Hosts <- MCHosts
  Via <- MCVia
  MaxDepth = 2
  Strict <- MCStrict
  Keys <- MCKeys
  Alg <- MCAlg
  Known <- MCKnown
  Presented <- MCPresented
  Agent <- MCAgent
  Files <- MCFiles
  Good <- MCGood
  MaxTries = 3
  Scripts <- MCScripts
  Calls <- MCCalls
  Shaky <- MCShaky
  MaxSilent = 1
  MaxRekeys = 1
  MaxMisses = 2
CHECK_DEADLOCK FALSE
INVARIANTS
  RightHost
  NotCutShort
PROPERTIES
  NothingHangs
