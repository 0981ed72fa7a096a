SPECIFICATION Spec
CONSTANTS
  root = root
  stored = stored
  sealed = sealed
  low = low
  high = high
  odd = odd
  tune = tune
  ico = ico
  Root = root
  Stored = {stored}
  Sealed = {sealed}
  Pictures = {low, high, odd}
  Songs = {tune}
  Icon = ico
  NoFile = NoFile
  Builds <- MCBuilds
  Patterns <- MCPatterns
  MaxOpen = 3
  MaxDepth = 3
  MaxBuffers = 2
  MaxChunks = 1
  Size <- MCSize
  ShortFiles = {low}
  OverreadFiles = {tune}
  SpillingFiles = {odd}
  XmsItems = 2
  XmsHandles = 2
  XmsMemory = 3
  MaxAge = 1
  MaxLocks = 4
  MaxCache = 2
  MaxViews = 2
INVARIANTS TypeOK ReadsOwnBytes UsesAreCounted SlotsMatchUsers
PROPERTY DecryptedStays
CHECK_DEADLOCK FALSE
CONSTRAINT Followed
