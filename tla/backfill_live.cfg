SPECIFICATION FairSpec
CONSTANTS
  MaxJobs = 2
  NumRoutes = 2
  NameOf <- MCNames
  Footage <- MCFootage
  Filters <- MCFilters
  RouteBatch = 1
  Handlers = {h1}
  Ops <- MCOps
  MaxRequests = 4
  MaxToggles = 1
  MaxCrashes = 1
  DbMayFail = FALSE
INVARIANTS PauseHonoured 
PROPERTIES Settles
CHECK_DEADLOCK FALSE
