CONSTANTS
  Byte <- MCByte
  Pattern <- MCPattern
  Prompt = 0
  Size = 2
  MaxWrite = 2
  MaxWritten = 3
  r1 = r1
  r2 = r2
  Reader = {r1, r2}
  Call <- MCAllModes
SPECIFICATION Spec
INVARIANTS
  NothingLost
  NoLostWakeup
PROPERTIES
  WaiterAnswered
