SPECIFICATION Spec
CONSTANTS
  MaxJobs = 1
  NumRoutes = 2
  NameOf <- MCNames
  Footage <- MCFootage
  Filters <- MCNoCap
  RouteBatch = 2
  Handlers = {h1}
  Ops <- MCOps
  MaxRequests = 2
  MaxToggles = 0
  MaxCrashes = 0
  DbMayFail = FALSE
CHECK_DEADLOCK FALSE
INVARIANTS StampAfterAllSegments
