\* Any sequence of A entries over four rectangles.
CONSTANTS
  MaxAreas = 3
  Rects <- MCRects
  Points <- MCPoints
  Tags = {7, 9}
SPECIFICATION Spec
INVARIANTS
  TypeOK
  UsedSlotsFirst
  HitWasGiven
  MapIsKept
  RefusedOnlyWhenFull
\* A refused area ends the script.
CHECK_DEADLOCK FALSE
