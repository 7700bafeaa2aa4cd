------------------------------ MODULE MCCapture -----------------------------
(* CapturePipeline on small instances, each protocol and pacing chosen by  *)
(* Init. Regions are interchangeable.                                      *)
EXTENDS CapturePipeline, TLC

RegionSymmetry == Permutations(Region)
=============================================================================
