\* A client that waits for its answers, and none of the faults; no symmetry.
CONSTANTS
  Session = {h1}
  Barrier = {b1, b2}
  Slot = {1}
  None = None
  MaxId = 2
  MaxQueue = 2
  Faults = {}
SPECIFICATION FairSpec
INVARIANTS TypeOK ScreenAgrees CaptureAgrees SignalsInOrder
PROPERTIES ClosedFreesScreen
CHECK_DEADLOCK FALSE
