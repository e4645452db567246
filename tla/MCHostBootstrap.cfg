SPECIFICATION Spec
CONSTANTS
  Requests = {"j1", "j2"}
  Environments <- MCEnvironments
  Dialogs <- MCDialogs
  Names = {"root", "alice"}
  NoName = "no name"
  MaxSignals = 1
  Hosts = {"h1", "h2"}
  Keys = {"mine", "other", "agents"}
  Mine = "mine"
  Agent = {"agents"}
  Identities = {"mine"}
  OwnLine = "comment"
  Calls <- MCCalls
  ConfigUser <- MCConfigUser
  OnFile <- MCOnFile
CHECK_DEADLOCK FALSE
INVARIANTS
  ProvenOnly
  HelperServes
PROPERTIES
  LoginsKept
