SPECIFICATION TransferSpec
CONSTANTS
  j1 = j1
  j2 = j2
  Job = {j1, j2}
  Path = {"d", "a", "s", "b", "l", "p", "n"}
  Top = "d"
  Up <- MCUp
  Local <- MCLocal
  Remote <- MCRemote
  Unsafe = {"n"}
  Edited = {"a"}
  Stamp <- MCStamp
  Work <- MCWork
  MaxDepth = 1
  MaxFaults = 1
CHECK_DEADLOCK FALSE
INVARIANTS
  WholeFiles
  OneCopyRemains
  EndsClean
