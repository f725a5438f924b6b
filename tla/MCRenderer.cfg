SPECIFICATION Spec
CONSTANTS
  States = {s1, s2}
  Windows = {w1, w2}
  Ids = {i1}
  Copies = {1}
  MaxRefs = 3
  NULL = NULL
  Def = Def
  Default = Default
  NoSurface = NoSurface
  EglFails = TRUE
  Spurious = TRUE
  NewServers = TRUE
  FromStart = FALSE
SYMMETRY RendererSymmetry
INVARIANTS TypeOK DrawnBufferAlive ProxyOnMappedState MappingsExact NothingPendingWhenIdle SurfaceGone RefsBalanced
