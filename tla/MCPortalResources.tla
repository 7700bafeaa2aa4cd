-------------------------- MODULE MCPortalResources --------------------------
(* PortalResources on small instances. Each configuration names the faults *)
(* its question is about.                                                  *)
EXTENDS PortalResources, TLC

Symmetry == Permutations(Task) \cup Permutations(Handle) \cup
            Permutations(Sender) \cup Permutations(Stream)
=============================================================================
