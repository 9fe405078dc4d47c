---------------------------- MODULE MCPushSource ----------------------------
(* PushSource on small instances: two SSE sources, which share a cursor, and *)
(* one alone.  Sources of several transports are in MCTransports.            *)
EXTENDS PushSource, TLC

CONSTANTS s1, s2

SameTransport == s1 :> "SSE" @@ s2 :> "SSE"
OneSource == s1 :> "SSE"

-----------------------------------------------------------------------------
\* FairPushSpec over a store that does not suspend and without marks that
\* expire: StoreCursor and ForgetMark, which are never enabled then, are left
\* out.  Both are steps of MCTransports.
MCPushNext ==
    \/ Publish
    \/ \E s \in Tasks:
        \/ Dial(s) \/ Open(s) \/ Advance(s) \/ BadFrame(s) \/ HangUp(s) \/ Wake(s)
        \/ Rerun(s) \/ Drop(s) \/ Abort(s) \/ Close(s)
        \/ \E n \in Keys: Receive(s, n)
        \/ \E outcome \in Outcomes: HandlerReturns(s, outcome)
    \/ ProcessRestart

MCFairPushSpec ==
    /\ PushInit /\ [][MCPushNext]_pushVars
    /\ \A s \in Tasks: WF_pushVars(Progress(s))

ASSUME AtomicStore /\ Expiring = {}
=============================================================================
