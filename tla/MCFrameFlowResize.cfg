SPECIFICATION Spec
CONSTANTS
  Nothing = Nothing
  Roots = {r1, r2}
  MaxDraws = 0
  MaxMoves = 1
  MaxImages = 0
  MaxResizes = 1
  MaxSurfaces = 0
INVARIANT NoLostResize
