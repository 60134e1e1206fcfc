SPECIFICATION Spec
CONSTANTS
  Segs = {1}
  Kinds = {"all"}
  FilesForKind <- MCAll
  Posters = {p1}
  Pollers = {q1}
  MaxAttempts = 2
  BatchLimit = 1
  MaxRows = 2
  MaxFaults = 0
INVARIANT CompleteMeansUploaded
CHECK_DEADLOCK FALSE
