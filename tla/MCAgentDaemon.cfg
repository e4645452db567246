CONSTANTS
  Conn = {c1, c2}
  NoConn = NoConn
  Size = 1
  MaxRead = 1
  MaxWritten = 2
  Cursors = {0}
  Vanishing = {c1}
  AnyClient = FALSE
  Ending = {"exited"}
  Watched = {c1}
SPECIFICATION Spec
CHECK_DEADLOCK FALSE
INVARIANTS
  ClientsTold
PROPERTIES
  ImplementsStream
  PumpServes
  ReattachPossible
