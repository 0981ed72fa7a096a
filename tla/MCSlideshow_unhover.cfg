\* A wait that ends by itself.
CONSTANTS
  MaxAreas = 2
  Rects <- MCRects
  Points <- MCPoints
  Tags = {7, 9}
  Files = {"main", "sub", "vault"}
  Root = "main"
  Sealed = {"vault"}
  Noise <- MCNoise
  Labels = {"a"}
  Programs <- Shows
  Keystrokes = {7, 13}
  MousePresent = TRUE
  Closable = FALSE
  MaxDepth = 2
  MainLength = 2
SPECIFICATION Spec
PROPERTY
  UnhoverFollowsHover
