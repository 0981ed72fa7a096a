\* All short archives and some longer ones.
CONSTANTS
  MaxAreas = 2
  Rects <- MCRects
  Points <- MCPoints
  Tags = {7, 9}
  Files = {"main", "sub", "vault"}
  Root = "main"
  Sealed = {"vault"}
  Noise <- MCNoise
  Labels = {"a"}
  Programs <- Shows
  Keystrokes = {7, 13}
  MousePresent = TRUE
  Closable = TRUE
  MaxDepth = 3
  MainLength = 2
SPECIFICATION FairSpec
INVARIANTS
  TypeOK
  CallersWaitAtTheirCall
  OnlyPlainTextRuns
  WaitingShowsPointer
  EndsAtRoot
PROPERTIES
  QuitOnlyUnwinds
  CallerKeepsItsPlace
  QuitEnds
  ShowProgresses
