SPECIFICATION Spec
CONSTANTS
  Scripts <- MCScripts
  Archives <- MCArchives
  Parts = {1, 2}
  NoPart = NoPart
  NoKey = NoKey
  NoScript = NoScript
  Builds = {"dos", "linux", "windows"}
  DriveLists <- MCDriveLists
  Stamps = {1, 2}
  Codes <- MCCodes
  Answers <- MCAnswers
  MaxPieces = 2
  MaxCallbacks = 2
CONSTRAINT Followed
INVARIANTS RemoteTypeOK RunsWhole KeptKeyIsNotAsked OwnAnswer NothingLeftOver
PROPERTIES KeepsPromise InetSettles
CHECK_DEADLOCK FALSE
