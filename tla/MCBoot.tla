------------------------------- MODULE MCBoot -------------------------------
(* Constants for the run of Boot: a target on the memory stick and one in  *)
(* an ISO image, of different sizes, with one import in common.            *)
EXTENDS Boot

MCTargets == {"stick", "disc"}
MCImports == [t \in MCTargets |-> IF t = "stick" THEN {"f1", "f2"} ELSE {"f2", "f3"}]
MCSize == [t \in MCTargets |-> IF t = "stick" THEN 2 ELSE 3]
=============================================================================
