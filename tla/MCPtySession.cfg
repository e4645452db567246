SPECIFICATION Spec
CONSTANTS
  s1 = s1
  s2 = s2
  Sender = {s1, s2}
  Length <- MCLength
  Chunk = 2
  Queue = 2
  Tty = 1
CHECK_DEADLOCK FALSE
INVARIANTS
  InOrder
  NoStall
PROPERTIES
  SenderAnswers
  ClosedIsReleased
