SPECIFICATION RetentionSpec
CONSTANTS
  p1 = p1
  p2 = p2
  w1 = w1
  e1 = e1
  api = api
  h1 = h1
  NoPlate = NoPlate
  Pruned = Pruned
  Plates = {p1, p2}
  Dets <- MCDets
  RouteOf <- MCRouteOf
  TimeOf <- MCTimeOf
  FirstRead <- MCFirstRead
  Stored = {1, 2, 4, 5, 6}
  Done = {"r2"}
  TurnsOf <- MCTurnsOf
  AreaOf <- MCAreaOf
  T <- MCThresholds
  Gap = 3
  AggSlots = {w1}
  EvalSlots = {e1}
  Api = api
  Handlers = {h1}
  CompletionCap = 2
  UpdateCap = 1
  AlertCap = 1
  MinSeverity = 3
  MaxUpsets = 1
  Cutoff = 3
  Ceiling = 1
  Plans <- MCPlans
INVARIANTS EncountersTrue NoneUnderAlerted AckedWasKnown NoDuplicateNotice
PROPERTIES GroupsByGap WhitelistHolds
CHECK_DEADLOCK FALSE
