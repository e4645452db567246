CONSTANTS
  Caller = {t1, t2}
  Reaper = Reaper
  MaxMade = 2
SPECIFICATION Spec
CHECK_DEADLOCK FALSE
INVARIANTS
  StateIsTrue
  KeptUntilEnded
PROPERTIES
  ClosingIsFinal
  CloseCompletes
