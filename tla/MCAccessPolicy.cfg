SPECIFICATION Spec
CONSTANTS
  RemotePaths <- MCRemotePaths
  LocalPaths <- MCLocalPaths
  Inputs <- MCInputs
  Files <- MCFiles
  Links <- MCLinks
  Home <- MCHome
  LocalRoots <- MCLocal
  GlobalRoots <- MCGlobal
  HostScopes <- MCHosts
CHECK_DEADLOCK FALSE
INVARIANTS
  
  JudgedByPlace
  InputIsJudgedWhole
