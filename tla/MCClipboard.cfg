SPECIFICATION Spec
CONSTANTS
  Clients = {c1, c2}
  Copiers = {c1, c2}
  Root = Root
  NULL = NULL
  Empty = Empty
  MaxTexts = 2
  MaxConn = 2
  MaxInFlight = 2
SYMMETRY ClientSymmetry
INVARIANTS TypeOK CacheFresh RequestCovered CopyCovered
PROPERTY Refines
