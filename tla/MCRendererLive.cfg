SPECIFICATION FairSpec
CONSTANTS
  States = {s1}
  Windows = {w1}
  Ids = {i1}
  Copies = {1}
  MaxRefs = 3
  NULL = NULL
  Def = Def
  Default = Default
  NoSurface = NoSurface
  EglFails = TRUE
  Spurious = FALSE
  NewServers = FALSE
  FromStart = FALSE
PROPERTIES GuiReturns FrameDrawn
