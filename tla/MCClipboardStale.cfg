SPECIFICATION Spec
CONSTANTS
  Clients = {c1, c2}
  Copiers = {}
  Root = Root
  NULL = NULL
  Empty = Empty
  MaxTexts = 2
  MaxConn = 2
  MaxInFlight = 2
INVARIANT CacheReusable
