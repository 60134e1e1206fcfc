SPECIFICATION FairSpec
CONSTANTS
  r1 = r1
  r2 = r2
  Routes = {r1, r2}
  Segs = {0, 1}
  Handlers = {u1, u2}
  Limit = 1
  MaxSends = 2
  MaxUpsets = 3
  MaxRows = 3
  Workers = {w1, w2}
  Depth = 1
  Builders = {b1}
  BuildDepth = 1
  ThumbLimit = 2
  ThumbDepth = 1
  Gps <- MCGps
  Turny <- MCTurny
  BatchLimit = 1
  Scenarios <- MCScenarios
INVARIANTS FlagMeansStored NoOrphans PlaylistWhole TripCurrent EventsComplete TurnsCurrent
PROPERTIES PoolsSingleFlight Packaged MetadataArrives Thumbnailed
CHECK_DEADLOCK FALSE
