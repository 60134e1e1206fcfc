--------------------------- MODULE MCAlprPipeline ---------------------------
EXTENDS AlprPipeline, TLC

(* The detector's slots are interchangeable. *)
SlotSymmetry == Permutations(DetSlots)
=============================================================================
