SPECIFICATION Spec
CONSTANTS
  NSegs = 2
  FramesPer = 2
  Buffer = 1
  ExtWorkers = {e1}
  DetSlots = {d1, d2}
  MaxUpsets = 0
INVARIANTS CompleteRouteAnnounced
