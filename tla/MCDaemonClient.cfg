CONSTANTS
  Terminals = {"exited"}
  Opener = o
  Caller = {a}
  QueueSize = 1
  MaxCalls = 3
  MaxUpto = 3
  MaxData = 1
SPECIFICATION Spec
CHECK_DEADLOCK FALSE
INVARIANTS
  GivenJoins
  CallsAnswered
PROPERTIES
  DetachedIsKept
  ReadEnds
