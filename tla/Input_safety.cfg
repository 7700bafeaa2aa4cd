SPECIFICATION Spec
CONSTANTS
  Sessions = {s1, s2}
  Layout <- MCLayout
  ModKeys <- MCModKeys
  Unlisted = {e1, e2, e3}
  Texts <- MCTexts
  PoolCodes <- MCPoolCodes
  MaxStaged = 2
  MaxHeld = 1
  MaxCreates = 3
  Faults = {}
  None = None
  Click = 120
  Deltas <- MCDeltas
  Widths = {1, 2, 3, 4}
  Caps = {1, 3, 4, 6}
  MaxEvents = 4
  MaxChars = 5
SYMMETRY MCSymmetry
INVARIANTS TypeOK InjectedAsAsked KeymapsCurrent WireExact
PROPERTIES KeyboardsPrivate
CHECK_DEADLOCK FALSE
