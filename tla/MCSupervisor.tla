---------------------------- MODULE MCSupervisor ----------------------------
(* Supervisor on a small instance: two SSE sources, of which one may fail to *)
(* close, and one poller.                                                    *)
EXTENDS Supervisor

CONSTANTS sse1, sse2, poller

EveryKind == [s \in Sources |-> IF s = poller THEN "polling" ELSE "sse"]
=============================================================================
