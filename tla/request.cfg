SPECIFICATION FairSpec
CONSTANTS
  Segs = {1, 2}
  Kinds = {"full_logs"}
  FilesForKind <- MCLogs
  Posters = {p1}
  Pollers = {q1}
  MaxAttempts = 2
  BatchLimit = 1
  MaxRows = 2
  MaxFaults = 1
INVARIANTS DispatchedMeansAsked CompleteMeansEnough InFlightBounded
PROPERTIES PendingLeaves RowLife
CHECK_DEADLOCK FALSE
