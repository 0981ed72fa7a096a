\* A removed area answers again.
CONSTANTS
  MaxAreas = 3
  Rects <- MCRects
  Points <- MCPoints
  Tags = {7, 9}
SPECIFICATION Spec
INVARIANT
  RemovalKeepsMap
\* A refused area ends the script.
CHECK_DEADLOCK FALSE
