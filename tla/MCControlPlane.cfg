SPECIFICATION Spec
CONSTANTS
  Servers = {1, 2}
  Pids = {1, 2}
  Strangers = {1}
  Suffixes = {1}
  k1 = k1
  k2 = k2
  Calls = {k1, k2}
  Kinds <- MCKinds
  MaxGen = 2
CHECK_DEADLOCK FALSE
INVARIANTS
  ListingHolds
  ApprovalWasGiven
PROPERTIES
  CallEnds
