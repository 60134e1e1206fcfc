SPECIFICATION Spec
CONSTANTS
  NSegs = 2
  FramesPer = 1
  Buffer = 1
  ExtWorkers = {e1}
  DetSlots = {d1, d2}
  MaxUpsets = 1
INVARIANTS ExclusiveExtraction MarkHidesOnlyLost ClaimMovesOn
PROPERTIES CountsMeanSets
SYMMETRY SlotSymmetry
CHECK_DEADLOCK FALSE
