---------------------------- MODULE MCTransports ----------------------------
(* Transports on a small instance: two WS sources, which share a cursor and *)
(* are interchangeable, and a poller of the same subscription.              *)
EXTENDS Transports, TLC

AllWS == [s \in PushTasks |-> "WS"]

Symmetry == Permutations(PushTasks)
=============================================================================
