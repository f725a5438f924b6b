SPECIFICATION Spec
CONSTANTS
  Procs = {p1, p2}
  Keys = {k1}
  SockIds = {0, 2, 5}
  CounterMod = 2
  Base = 4
  Half = 3
  MaxProcs = 3
  MaxCalls = 4
  Keycodes = {1, 2, 3, 4, 5, 6, 7, 8, 9}
  FakeKeys = {5}
  RawKeys = {1, 4}
  Lower <- MCLower
  Upper <- MCUpper
  Alternatives <- MCAlternatives
  KeyTypes <- MCTypes
  Keymap <- MCKeymap
  OtherKey <- MCOtherKey
  Characters = {"a", "e", "E", "cent", "1", "X", "y", "z"}
  GroupSet = {1, 2}
  MaxInputs = 4
  Pixmaps = {x1, x2, x3}
  NoPixmap = NoPixmap
  Buttons = {1, 2}
  Fingers = {0, 1}
  MaxWork = 3
INVARIANTS TypeOK OneIdOneSegment OneSegmentPerKey TypedRight KeysAsHeld SparesKept MemoryExact AbortsForAndroid ButtonsAsHeld TouchesAsFingers
PROPERTIES OwnSegmentKept CallReturns
CHECK_DEADLOCK FALSE
