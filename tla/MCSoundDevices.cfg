SPECIFICATION Spec
CONSTANTS
  Notes <- MCNotes
  Builds <- MCBuilds
  Ports <- MCPorts
  Arguments = {None, "opl", "mme1", "other"}
  MaxHeld = 4
  None = None
INVARIANTS ReleasedKeysFallSilent NothingLeftBehind
PROPERTIES ToneWasHeld
CHECK_DEADLOCK FALSE
