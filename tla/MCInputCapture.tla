--------------------------- MODULE MCInputCapture ---------------------------
(* InputCapture on small instances; each configuration names the faults    *)
(* its question is about.                                                  *)
EXTENDS InputCapture, TLC

Symmetry == Permutations(Session) \cup Permutations(Barrier)
=============================================================================
