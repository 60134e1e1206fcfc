SPECIFICATION Spec
CONSTANTS
  MaxJobs = 2
  NumRoutes = 2
  NameOf <- MCNames
  Footage <- MCShort
  Filters <- MCFilters
  RouteBatch = 2
  Handlers = {h1, h2}
  Ops <- MCOps
  MaxRequests = 3
  MaxToggles = 0
  MaxCrashes = 1
  DbMayFail = TRUE
INVARIANTS OneRunning CapRespected TokenMeansWalked DoneMeansWalked
PROPERTIES ImplementsProgress
CHECK_DEADLOCK FALSE
SYMMETRY MCSymmetry
