CONSTANTS
  Byte <- MCByte
  Zero = "t"
  Size = 2
  MaxWrite = 3
  MaxWritten = 5
  MaxPending = 3
  Streams <- MCStreams
  r1 = r1
  r2 = r2
  Reader = {r1, r2}
SPECIFICATION PagesSpec
SYMMETRY Symmetry
INVARIANTS
  PagesAreContiguous
  PagesStripAsOne
PROPERTIES
  ImplementsLog
CHECK_DEADLOCK FALSE
