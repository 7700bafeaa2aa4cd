SPECIFICATION FairSpec
CONSTANTS
  Client = {c1}
  Places <- MCPlaces
  Initial = 1
  InitialLayouts <- MCInitial
  MaxGlobals = 2
  MaxMoves = 1
  Advertised <- MCAdvertised
  Preferences <- MCPreferences
  Faults = {}
INVARIANTS TypeOK ZonesSound GeometryHolds
PROPERTIES AcceptedOnCurrent StaleIsTold SourcesSettle
CHECK_DEADLOCK FALSE
