--------------------------- MODULE MCPollingSource ---------------------------
(* PollingSource on small instances: two pollers of one subscription, which *)
(* are interchangeable.                                                     *)
EXTENDS PollingSource, TLC

MCSymmetry == Permutations(Tasks)
=============================================================================
