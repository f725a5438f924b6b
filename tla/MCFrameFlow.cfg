SPECIFICATION FairSpec
CONSTANTS
  Nothing = Nothing
  Roots = {r1, r2}
  MaxDraws = 1
  MaxMoves = 1
  MaxImages = 1
  MaxResizes = 1
  MaxSurfaces = 1
INVARIANTS TypeOK NoLostFrame NoLostCursor
PROPERTY Converges
