---------------------------- MODULE WebhookProofs ----------------------------
(***************************************************************************)
(* What holds of the webhook receiver and the engine's retries for every   *)
(* set of events and of concurrent requests.                               *)
(***************************************************************************)
EXTENDS Webhook, DispatchProofs, TLAPS

LEMMA WebhookTypeInit == WebhookInit => WebhookTypeOK
BY DispatchAssumption, WebhookAssumption
DEF WebhookInit, DispatchInit, WebhookTypeOK, DispatchTypeOK, Verdicts, Phases

\* Whatever the status, answering a request ends it and keeps the types.
LEMMA AnswerTyping ==
    ASSUME WebhookTypeOK, NEW t \in Tasks, NEW code \in Nat, Answer(t, code),
           phase[t] # "idle"
    PROVE  /\ verdict' \in [Keys -> Verdicts]
           /\ phase' = [phase EXCEPT ![t] = "idle"]
           /\ request' = [request EXCEPT ![t] = None]
           /\ awaited' \subseteq Tasks
<1>1. request[t] \in Keys
  BY DispatchAssumption DEF WebhookTypeOK
<1>2. Judge(code) \in Verdicts
  BY DEF Judge, Verdicts
<1>3. QED
  BY <1>1, <1>2 DEF Answer, WebhookTypeOK

LEMMA WebhookTypeNext ==
    WebhookTypeOK /\ [WebhookNext]_webhookVars => WebhookTypeOK'
<1> USE DispatchAssumption, WebhookAssumption
<1> SUFFICES ASSUME WebhookTypeOK, [WebhookNext]_webhookVars
             PROVE WebhookTypeOK'
  OBVIOUS
<1> USE DEF WebhookTypeOK, DispatchTypeOK, Phases, Enter, Fault
<1>1. ASSUME NEW t \in Tasks, NEW e \in Keys, Post(t, e)
      PROVE WebhookTypeOK'
  BY <1>1 DEF Post, dispatchVars
<1>2. ASSUME NEW t \in Tasks, ReadBody(t)
      PROVE WebhookTypeOK'
  <2>1. CASE Answer(t, 413)
    BY <1>2, <2>1, AnswerTyping DEF ReadBody, dispatchVars
  <2>2. CASE Enter(t, "authenticating")
    BY <1>2, <2>2 DEF ReadBody, dispatchVars
  <2>3. QED
    BY <1>2, <2>1, <2>2 DEF ReadBody
<1>3. ASSUME NEW t \in Tasks, Authenticate(t)
      PROVE WebhookTypeOK'
  <2>1. CASE Answer(t, 400)
    BY <1>3, <2>1, AnswerTyping DEF Authenticate, dispatchVars
  <2>2. CASE Answer(t, 500)
    BY <1>3, <2>2, AnswerTyping DEF Authenticate, dispatchVars
  <2>3. CASE Enter(t, "resolving")
    BY <1>3, <2>3 DEF Authenticate, dispatchVars
  <2>4. QED
    BY <1>3, <2>1, <2>2, <2>3 DEF Authenticate, Escape
<1>4. ASSUME NEW t \in Tasks, Feed(t)
      PROVE WebhookTypeOK'
  <2>1. request[t] \in Keys
    BY <1>4 DEF Feed
  <2>2. CASE Answer(t, 400) /\ UNCHANGED <<fed, dispatchVars>>
    BY <1>4, <2>2, AnswerTyping DEF Feed, dispatchVars
  <2>3. CASE FeedDuplicate(t, request[t]) /\ Answer(t, 200) /\ fed' = fed \cup {request[t]}
    BY <1>4, <2>1, <2>3, AnswerTyping DEF Feed, FeedDuplicate, dispatchVars
  <2>4. CASE /\ FeedStart(t, request[t]) /\ Enter(t, "feeding")
             /\ fed' = fed \cup {request[t]}
    BY <1>4, <2>1, <2>4 DEF Feed, FeedStart
  <2>5. QED
    BY <1>4, <2>2, <2>3, <2>4 DEF Feed
<1>5. ASSUME NEW t \in Tasks, NEW outcome \in Outcomes, HandlerReturns(t, outcome)
      PROVE WebhookTypeOK'
  <2>1. PICK code \in {200, 503}: Answer(t, code)
    BY <1>5 DEF HandlerReturns
  <2>2. QED
    BY <1>5, <2>1, AnswerTyping DEF HandlerReturns, FeedReturn
<1>6. ASSUME NEW t \in Tasks, TimeOut(t)
      PROVE WebhookTypeOK'
  BY <1>6 DEF TimeOut, dispatchVars
<1>7. ASSUME NEW t \in Tasks, Unauthorized(t)
      PROVE WebhookTypeOK'
  BY <1>7, AnswerTyping DEF Unauthorized, dispatchVars
<1>8. ASSUME NEW t \in Tasks, ResolverRaises(t)
      PROVE WebhookTypeOK'
  BY <1>8, AnswerTyping DEF ResolverRaises, Escape, dispatchVars
<1>9. ASSUME NEW t \in Tasks, FeedRaises(t)
      PROVE WebhookTypeOK'
  BY <1>9, AnswerTyping DEF FeedRaises, FeedAbort
<1>10. ASSUME NEW t \in Tasks, Cancel(t)
       PROVE WebhookTypeOK'
  <2>1. CASE phase[t] = "feeding"
    BY <1>10, <2>1, AnswerTyping DEF Cancel, Escape, FeedAbort
  <2>2. CASE phase[t] # "feeding"
    BY <1>10, <2>2, AnswerTyping DEF Cancel, Escape, dispatchVars
  <2>3. QED
    BY <2>1, <2>2
<1>11. CASE ProcessRestart
  BY <1>11 DEF ProcessRestart, DispatchRestart
<1>12. ASSUME NEW e \in Keys, ForgetMark(e)
       PROVE WebhookTypeOK'
  BY <1>12 DEF ForgetMark, MarkExpires, requestVars
<1>13. ASSUME NEW t \in Tasks, ReadTruncated(t)
       PROVE WebhookTypeOK'
  BY <1>13, AnswerTyping DEF ReadTruncated, dispatchVars
<1>14. CASE UNCHANGED webhookVars
  BY <1>14 DEF webhookVars, requestVars, dispatchVars
<1>15. QED
  BY <1>1, <1>2, <1>3, <1>4, <1>5, <1>6, <1>7, <1>8, <1>9, <1>10, <1>11, <1>12,
     <1>13, <1>14
  DEF WebhookNext, Progress

\* The receiver is well typed, and a handler is in flight exactly while its
\* request is inside feed.
THEOREM WebhookTyping == WebhookSpec => []WebhookTypeOK
BY WebhookTypeInit, WebhookTypeNext, PTL DEF WebhookSpec

-----------------------------------------------------------------------------
(***************************************************************************)
(* The dispatcher's own properties hold of the receiver, because each of   *)
(* its steps is a step of the dispatcher or leaves it alone.  That a       *)
(* request in "resolving" carries an event is part of the type invariant,  *)
(* which the argument therefore needs.                                     *)
(***************************************************************************)
LEMMA WebhookStepDispatches ==
    WebhookTypeOK /\ [WebhookNext]_webhookVars => [DispatchNext]_dispatchVars
<1> SUFFICES ASSUME WebhookTypeOK, [WebhookNext]_webhookVars
             PROVE DispatchNext \/ UNCHANGED dispatchVars
  OBVIOUS
<1>1. ASSUME NEW t \in Tasks, NEW e \in Keys, Post(t, e)
      PROVE UNCHANGED dispatchVars
  BY <1>1 DEF Post
<1>2. ASSUME NEW t \in Tasks, ReadBody(t) \/ ReadTruncated(t) \/ Authenticate(t)
      PROVE UNCHANGED dispatchVars
  BY <1>2 DEF ReadBody, ReadTruncated, Authenticate
<1>3. ASSUME NEW t \in Tasks, Feed(t)
      PROVE DispatchNext \/ UNCHANGED dispatchVars
  <2>1. request[t] \in Keys
    BY <1>3, DispatchAssumption DEF Feed, WebhookTypeOK
  <2>2. QED
    BY <1>3, <2>1 DEF Feed, DispatchNext
<1>4. ASSUME NEW t \in Tasks, NEW outcome \in Outcomes, HandlerReturns(t, outcome)
      PROVE DispatchNext
  BY <1>4 DEF HandlerReturns, DispatchNext
<1>5. ASSUME NEW t \in Tasks, TimeOut(t) \/ Unauthorized(t) \/ ResolverRaises(t)
      PROVE UNCHANGED dispatchVars
  BY <1>5 DEF TimeOut, Unauthorized, ResolverRaises
<1>6. ASSUME NEW t \in Tasks, FeedRaises(t) \/ Cancel(t)
      PROVE DispatchNext \/ UNCHANGED dispatchVars
  BY <1>6 DEF FeedRaises, Cancel, DispatchNext
<1>7. CASE ProcessRestart
  BY <1>7 DEF ProcessRestart, DispatchNext
<1>8. ASSUME NEW e \in Keys, ForgetMark(e)
      PROVE DispatchNext
  BY <1>8 DEF ForgetMark, DispatchNext
<1>9. CASE UNCHANGED webhookVars
  BY <1>9 DEF webhookVars
<1>10. QED
  BY <1>1, <1>2, <1>3, <1>4, <1>5, <1>6, <1>7, <1>8, <1>9 DEF WebhookNext, Progress

\* The receiver uses the dispatcher only as its specification allows.
THEOREM WebhookUsesDispatcher == WebhookSpec => DispatchSpec
<1>1. WebhookInit => DispatchInit
  BY DEF WebhookInit
<1>2. QED
  BY <1>1, WebhookTyping, WebhookStepDispatches, PTL DEF WebhookSpec, DispatchSpec

\* A retry that overtakes a slow first delivery never runs its event a second
\* time at once, if the dedup middleware is there.
THEOREM WebhookSingleFlight == WebhookSpec => []SingleFlight
BY WebhookUsesDispatcher, DispatchSingleFlight, PTL

\* A redelivery of an event that was dispatched without an error never runs
\* again, if the marks are kept.
THEOREM WebhookNeverReprocesses == WebhookSpec => []NeverReprocessed
BY WebhookUsesDispatcher, DispatchNeverReprocesses, PTL

-----------------------------------------------------------------------------
\* Without the dedup middleware a 200 comes only from a handler's return, so
\* an event that the engine stops redelivering was processed.
THEOREM WebhookAckedOnlyProcessed ==
    ASSUME ~Dedup
    PROVE  WebhookSpec => []AckedOnlyProcessed
<1>1. WebhookInit => AckedOnlyProcessed
  BY DEF WebhookInit, AckedOnlyProcessed
<1>2. WebhookTypeOK /\ AckedOnlyProcessed /\ [WebhookNext]_webhookVars => AckedOnlyProcessed'
  <2> USE DispatchAssumption DEF WebhookTypeOK, AckedOnlyProcessed, Enter, Escape
  <2> SUFFICES ASSUME WebhookTypeOK, AckedOnlyProcessed, [WebhookNext]_webhookVars
               PROVE AckedOnlyProcessed'
    OBVIOUS
  \* A status other than 200 acknowledges nothing.
  <2>1. ASSUME NEW t \in Tasks, NEW code \in Nat \ {200}, Answer(t, code),
               settled' = settled
        PROVE AckedOnlyProcessed'
    <3>1. Judge(code) # "acked"
      BY <2>1 DEF Judge
    <3>2. QED
      BY <2>1, <3>1 DEF Answer
  <2>2. ASSUME NEW t \in Tasks, NEW e \in Keys, Post(t, e)
        PROVE AckedOnlyProcessed'
    BY <2>2 DEF Post, dispatchVars
  <2>3. ASSUME NEW t \in Tasks, ReadBody(t) \/ ReadTruncated(t)
        PROVE AckedOnlyProcessed'
    BY <2>1, <2>3 DEF ReadBody, ReadTruncated, dispatchVars
  <2>4. ASSUME NEW t \in Tasks, Authenticate(t)
        PROVE AckedOnlyProcessed'
    BY <2>1, <2>4 DEF Authenticate, dispatchVars
  <2>5. ASSUME NEW t \in Tasks, Feed(t)
        PROVE AckedOnlyProcessed'
    BY <2>1, <2>5 DEF Feed, FeedDuplicate, FeedStart, dispatchVars
  <2>6. ASSUME NEW t \in Tasks, NEW outcome \in Outcomes, HandlerReturns(t, outcome)
        PROVE AckedOnlyProcessed'
    <3>1. CASE outcome = "ERRORED"
      BY <2>1, <2>6, <3>1 DEF HandlerReturns, FeedReturn
    <3>2. CASE outcome # "ERRORED"
      <4>1. settled' = settled \cup {request[t]}
        BY <2>6, <3>2 DEF HandlerReturns, FeedReturn
      <4>2. QED
        BY <2>6, <3>2, <4>1 DEF HandlerReturns, Answer
    <3>3. QED
      BY <3>1, <3>2
  <2>7. ASSUME NEW t \in Tasks, TimeOut(t)
        PROVE AckedOnlyProcessed'
    BY <2>7 DEF TimeOut, dispatchVars
  <2>8. ASSUME NEW t \in Tasks, Unauthorized(t) \/ ResolverRaises(t)
        PROVE AckedOnlyProcessed'
    BY <2>1, <2>8 DEF Unauthorized, ResolverRaises, dispatchVars
  <2>9. ASSUME NEW t \in Tasks, FeedRaises(t) \/ Cancel(t)
        PROVE AckedOnlyProcessed'
    BY <2>1, <2>9 DEF FeedRaises, Cancel, FeedAbort, dispatchVars
  <2>10. CASE ProcessRestart
    BY <2>10 DEF ProcessRestart, DispatchRestart
  <2>11. ASSUME NEW e \in Keys, ForgetMark(e)
         PROVE AckedOnlyProcessed'
    BY <2>11 DEF ForgetMark, MarkExpires, requestVars
  <2>12. CASE UNCHANGED webhookVars
    BY <2>12 DEF webhookVars, requestVars, dispatchVars
  <2>13. QED
    BY <2>2, <2>3, <2>4, <2>5, <2>6, <2>7, <2>8, <2>9, <2>10, <2>11, <2>12
    DEF WebhookNext, Progress
<1>3. QED
  BY <1>1, <1>2, WebhookTyping, PTL DEF WebhookSpec

-----------------------------------------------------------------------------
\* With or without dedup, the engine gives up only what no attempt can deliver
\* or what a resolver did not know: never because of the consumer's handlers.
THEOREM WebhookDroppedWereRefused == WebhookSpec => []DroppedWereRefused
<1>1. WebhookInit => DroppedWereRefused
  BY DEF WebhookInit, DroppedWereRefused
<1>2. WebhookTypeOK /\ DroppedWereRefused /\ [WebhookNext]_webhookVars => DroppedWereRefused'
  <2> USE DispatchAssumption DEF WebhookTypeOK, DroppedWereRefused, Enter, Escape
  <2> SUFFICES ASSUME WebhookTypeOK, DroppedWereRefused, [WebhookNext]_webhookVars
               PROVE DroppedWereRefused'
    OBVIOUS
  \* A 200 or a retryable status drops nothing.
  <2>1. ASSUME NEW t \in Tasks, NEW code \in {200, 500, 503}, Answer(t, code),
               unresolved' = unresolved
        PROVE DroppedWereRefused'
    <3>1. Judge(code) # "dropped"
      BY <2>1 DEF Judge, Retryable
    <3>2. QED
      BY <2>1, <3>1 DEF Answer
  \* Any status may drop an event that is refused for good.
  <2>2. ASSUME NEW t \in Tasks, NEW code \in Nat, Answer(t, code),
               unresolved \subseteq unresolved',
               \/ Body[request[t]] \in {"oversize", "malformed", "misshapen"}
               \/ request[t] \in unresolved'
        PROVE DroppedWereRefused'
    BY <2>2 DEF Answer
  <2>3. ASSUME NEW t \in Tasks, NEW e \in Keys, Post(t, e)
        PROVE DroppedWereRefused'
    BY <2>3 DEF Post
  <2>4. ASSUME NEW t \in Tasks, ReadBody(t) \/ ReadTruncated(t)
        PROVE DroppedWereRefused'
    <3>1. CASE ReadBody(t)
      BY <2>2, <3>1 DEF ReadBody
    <3>2. CASE ReadTruncated(t)
      BY <3>2 DEF ReadTruncated, Answer
    <3>3. QED
      BY <2>4, <3>1, <3>2
  <2>5. ASSUME NEW t \in Tasks, Authenticate(t)
        PROVE DroppedWereRefused'
    BY <2>1, <2>2, <2>5 DEF Authenticate
  <2>6. ASSUME NEW t \in Tasks, Feed(t)
        PROVE DroppedWereRefused'
    BY <2>1, <2>2, <2>6 DEF Feed
  <2>7. ASSUME NEW t \in Tasks, NEW outcome \in Outcomes, HandlerReturns(t, outcome)
        PROVE DroppedWereRefused'
    BY <2>1, <2>7 DEF HandlerReturns
  <2>8. ASSUME NEW t \in Tasks, TimeOut(t)
        PROVE DroppedWereRefused'
    BY <2>8 DEF TimeOut
  <2>9. ASSUME NEW t \in Tasks, Unauthorized(t)
        PROVE DroppedWereRefused'
    BY <2>2, <2>9 DEF Unauthorized
  <2>10. ASSUME NEW t \in Tasks, ResolverRaises(t) \/ FeedRaises(t) \/ Cancel(t)
         PROVE DroppedWereRefused'
    BY <2>1, <2>10 DEF ResolverRaises, FeedRaises, Cancel
  <2>11. CASE ProcessRestart
    BY <2>11 DEF ProcessRestart
  <2>12. ASSUME NEW e \in Keys, ForgetMark(e)
         PROVE DroppedWereRefused'
    BY <2>12 DEF ForgetMark, requestVars
  <2>13. CASE UNCHANGED webhookVars
    BY <2>13 DEF webhookVars, requestVars
  <2>14. QED
    BY <2>3, <2>4, <2>5, <2>6, <2>7, <2>8, <2>9, <2>10, <2>11, <2>12, <2>13
    DEF WebhookNext, Progress
<1>3. QED
  BY <1>1, <1>2, WebhookTyping, PTL DEF WebhookSpec
=============================================================================
