\* Two calls of a session at a time, and every fault: what is left.
CONSTANTS
  Session = {h1}
  Barrier = {b1}
  Slot = {1, 2}
  None = None
  MaxId = 1
  MaxQueue = 1
  Faults = {"end_meets_start", "enable_twice", "set_while_enabled", "surface_closed", "no_eis"}
SYMMETRY Symmetry
SPECIFICATION Spec
INVARIANTS EndedOnce
CHECK_DEADLOCK FALSE
