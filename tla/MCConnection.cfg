SPECIFICATION Spec
CONSTANTS
  MaxConns = 3
  MaxBuffers = 3
  MaxSizes = 2
  MaxDeaths = 1
INVARIANTS TypeOK PeersAgree SizeCovered
PROPERTIES ScreenArrives
CHECK_DEADLOCK FALSE
