------------------------------ MODULE Webhook ------------------------------
(***************************************************************************)
(* WebhookReceiver (server/receiver.py) over the shared Dispatcher, and    *)
(* the engine that posts to it and retries by the status it is answered.   *)
(*                                                                         *)
(* A task is one ASGI request.  It awaits the body, the secret resolver,   *)
(* the account resolver and the dispatcher, and the early returns between  *)
(* them give the status.  The engine waits for one answer per event at a   *)
(* time, but a request it has given up on goes on in the receiver, so that *)
(* several requests of one event can be under way.                         *)
(*                                                                         *)
(* An event's dedup key is its Idempotency-Key, the same in every attempt. *)
(***************************************************************************)
EXTENDS Dispatch, Integers

CONSTANTS
    Body,         \* [Keys -> Bodies], what the requests of an event carry
    MaxFaults     \* bound: timeouts, failing resolvers, crashes and restarts

\* event: a well-formed event.  oversize: more than max_body_bytes.
\* malformed: not JSON.  misshapen: JSON that is not an event.  undecodable:
\* bytes that are no text, for which json.loads raises a UnicodeDecodeError.
Bodies == {"event", "oversize", "malformed", "misshapen", "undecodable"}

ASSUME WebhookAssumption ==
    /\ Body \in [Keys -> Bodies]
    /\ MaxFaults \in Nat

VARIABLES
    verdict,      \* the engine's state of each event
    phase,        \* per task, the await its request is in
    request,      \* per task, the event its request carries
    awaited,      \* the tasks whose answer the engine still waits for
    fed,          \* history: the events given to feed
    unresolved,   \* history: the events a resolver had no secret or account for
    faults        \* the faults so far, bounded by MaxFaults

requestVars == <<verdict, phase, request, awaited>>
webhookVars == <<requestVars, fed, unresolved, faults, dispatchVars>>

Verdicts == {"pending", "acked", "dropped"}
Phases == {"idle", "reading", "authenticating", "resolving", "feeding"}

WebhookInit ==
    /\ verdict = [e \in Keys |-> "pending"]
    /\ phase = [t \in Tasks |-> "idle"]
    /\ request = [t \in Tasks |-> None]
    /\ awaited = {}
    /\ fed = {}
    /\ unresolved = {}
    /\ faults = 0
    /\ DispatchInit

Fault ==
    /\ faults < MaxFaults
    /\ faults' = faults + 1

Enter(t, p) ==
    /\ phase' = [phase EXCEPT ![t] = p]
    /\ UNCHANGED <<verdict, request, awaited>>

-----------------------------------------------------------------------------
(* The engine. *)

Retryable(code) == code >= 500 \/ code \in {408, 429}

\* What becomes of an event whose attempt is answered: a retryable status
\* leaves it pending.
Judge(code) == CASE code = 200      -> "acked"
                 [] Retryable(code) -> "pending"
                 [] OTHER           -> "dropped"

\* The engine posts an event, for the first time or again.
Post(t, e) ==
    /\ phase[t] = "idle"
    /\ verdict[e] = "pending"
    /\ \A u \in awaited: request[u] # e
    /\ phase' = [phase EXCEPT ![t] = "reading"]
    /\ request' = [request EXCEPT ![t] = e]
    /\ awaited' = awaited \cup {t}
    /\ UNCHANGED <<verdict, fed, unresolved, faults, dispatchVars>>

\* The engine waits no longer, or the answer will be lost.
TimeOut(t) ==
    /\ t \in awaited
    /\ Fault
    /\ awaited' = awaited \ {t}
    /\ UNCHANGED <<verdict, phase, request, fed, unresolved, dispatchVars>>

-----------------------------------------------------------------------------
(* The receiver's request. *)

\* The request is over; its status is judged if the engine waits for it.
Answer(t, code) ==
    /\ phase' = [phase EXCEPT ![t] = "idle"]
    /\ request' = [request EXCEPT ![t] = None]
    /\ awaited' = awaited \ {t}
    /\ verdict' = IF t \in awaited THEN [verdict EXCEPT ![request[t]] = Judge(code)]
                                   ELSE verdict

\* An exception leaves the application, and the ASGI server answers.
Escape(t) == Answer(t, 500)

\* _read_body: the whole body is there, or too much of it.
ReadBody(t) ==
    /\ phase[t] = "reading"
    /\ IF Body[request[t]] = "oversize" THEN Answer(t, 413)
                                        ELSE Enter(t, "authenticating")
    /\ UNCHANGED <<fed, unresolved, faults, dispatchVars>>

\* The engine hung up while the body was read: receive says so by a message
\* without a body, and what was read so far has no valid signature.
ReadTruncated(t) ==
    /\ phase[t] = "reading"
    /\ t \notin awaited
    /\ Answer(t, 401)
    /\ UNCHANGED <<fed, unresolved, faults, dispatchVars>>

\* The secret resolver gives the secret the engine signed with: the signature
\* holds, and the body is parsed.
Authenticate(t) ==
    /\ phase[t] = "authenticating"
    /\ CASE Body[request[t]] = "malformed"   -> Answer(t, 400)
         [] Body[request[t]] = "undecodable" -> Escape(t)
         [] OTHER                            -> Enter(t, "resolving")
    /\ UNCHANGED <<fed, unresolved, faults, dispatchVars>>

\* The secret resolver gives none, or not the one the engine signed with, or
\* the account resolver gives no account.
Unauthorized(t) ==
    /\ phase[t] \in {"authenticating", "resolving"}
    /\ Answer(t, 401)
    /\ unresolved' = unresolved \cup {request[t]}
    /\ Fault
    /\ UNCHANGED <<fed, dispatchVars>>

\* A resolver raises.
ResolverRaises(t) ==
    /\ phase[t] \in {"authenticating", "resolving"}
    /\ Escape(t)
    /\ Fault
    /\ UNCHANGED <<fed, unresolved, dispatchVars>>

\* Mutant of Feed: a DUPLICATE is answered like an ERRORED event.
FeedRefusingDuplicates(t) ==
    /\ phase[t] = "resolving"
    /\ IF Body[request[t]] = "misshapen"
       THEN Answer(t, 400) /\ UNCHANGED <<fed, dispatchVars>>
       ELSE /\ \/ FeedDuplicate(t, request[t]) /\ Answer(t, 503)
               \/ FeedStart(t, request[t]) /\ Enter(t, "feeding")
            /\ fed' = fed \cup {request[t]}
    /\ UNCHANGED <<unresolved, faults>>

\* The account is there: the event is built and fed.
Feed(t) ==
    /\ phase[t] = "resolving"
    /\ IF Body[request[t]] = "misshapen"
       THEN Answer(t, 400) /\ UNCHANGED <<fed, dispatchVars>>
       ELSE /\ \/ FeedDuplicate(t, request[t]) /\ Answer(t, 200)
               \/ FeedStart(t, request[t]) /\ Enter(t, "feeding")
            /\ fed' = fed \cup {request[t]}
    /\ UNCHANGED <<unresolved, faults>>

\* feed returns: an ERRORED event is to be sent again.
HandlerReturns(t, outcome) ==
    /\ phase[t] = "feeding"
    /\ FeedReturn(t, outcome)
    /\ Answer(t, IF outcome = "ERRORED" THEN 503 ELSE 200)
    /\ UNCHANGED <<fed, unresolved, faults>>

\* Mutant of FeedRaises: the exception is answered as a bad request.
FeedRaisesTerminally(t) ==
    /\ phase[t] = "feeding"
    /\ FeedAbort(t)
    /\ Answer(t, 400)
    /\ Fault
    /\ UNCHANGED <<fed, unresolved>>

\* A filter or an outer middleware raises out of feed.
FeedRaises(t) ==
    /\ phase[t] = "feeding"
    /\ FeedAbort(t)
    /\ Answer(t, 503)
    /\ Fault
    /\ UNCHANGED <<fed, unresolved>>

\* Mutant of Cancel: the handler goes on without its request.
CancelLeavingHandler(t) ==
    /\ phase[t] # "idle"
    /\ Escape(t)
    /\ Fault
    /\ UNCHANGED <<fed, unresolved, dispatchVars>>

\* The server cancels a request; CancelledError is no Exception.
Cancel(t) ==
    /\ phase[t] # "idle"
    /\ IF phase[t] = "feeding" THEN FeedAbort(t) ELSE UNCHANGED dispatchVars
    /\ Escape(t)
    /\ Fault
    /\ UNCHANGED <<fed, unresolved>>

\* The process dies with every request; the engine's calls fail.
ProcessRestart ==
    /\ Fault
    /\ DispatchRestart
    /\ phase' = [t \in Tasks |-> "idle"]
    /\ request' = [t \in Tasks |-> None]
    /\ awaited' = {}
    /\ UNCHANGED <<verdict, fed, unresolved>>

ForgetMark(e) ==
    MarkExpires(e) /\ UNCHANGED <<requestVars, fed, unresolved, faults>>

-----------------------------------------------------------------------------
\* What a request does by itself once its awaits return.
Progress(t) ==
    \/ ReadBody(t) \/ Authenticate(t) \/ Feed(t)
    \/ \E outcome \in Outcomes: HandlerReturns(t, outcome)

WebhookNext ==
    \/ \E t \in Tasks, e \in Keys: Post(t, e)
    \/ \E t \in Tasks: Progress(t)
    \/ \E t \in Tasks: TimeOut(t) \/ Unauthorized(t) \/ ResolverRaises(t)
    \/ \E t \in Tasks: ReadTruncated(t) \/ FeedRaises(t) \/ Cancel(t)
    \/ ProcessRestart
    \/ \E e \in Keys: ForgetMark(e)

WebhookSpec == WebhookInit /\ [][WebhookNext]_webhookVars

\* Every request runs, and the engine posts what is pending again and again:
\* it has a free connection for an event infinitely often.
FairWebhookSpec ==
    /\ WebhookSpec
    /\ \A t \in Tasks: WF_webhookVars(Progress(t))
    /\ \A e \in Keys: SF_webhookVars(\E t \in Tasks: Post(t, e))

-----------------------------------------------------------------------------
\* Every variable has the values the code can give it, a handler is awaited
\* exactly while its request is in feed, and it runs the request's event.
WebhookTypeOK ==
    /\ verdict \in [Keys -> Verdicts]
    /\ phase \in [Tasks -> Phases]
    /\ request \in [Tasks -> Keys \cup {None}]
    /\ awaited \subseteq Tasks
    /\ fed \subseteq Keys
    /\ unresolved \subseteq Keys
    /\ faults \in 0..MaxFaults
    /\ DispatchTypeOK
    /\ \A t \in Tasks: request[t] = None <=> phase[t] = "idle"
    /\ \A t \in Tasks: running[t] = IF phase[t] = "feeding" THEN request[t] ELSE None

\* The engine gives an event up only if no attempt can succeed or a resolver
\* did not know the subscription: a failure in the consumer never costs an
\* event ("handler raised -> 503", server/receiver.py:76).
DroppedWereRefused ==
    \A e \in Keys: verdict[e] = "dropped" =>
        Body[e] \in {"oversize", "malformed", "misshapen"} \/ e \in unresolved

\* docs/architecture.en.md:68-70: a handler exception is a 503, "server
\* redelivers; idempotency dedup guards double-processing".  So the engine
\* stops redelivering, by a 200, only once the event is processed.
AckedOnlyProcessed == \A e \in Keys: verdict[e] = "acked" => e \in settled

\* The engine comes to an end with every event: it is not retried for ever.
\* Excepted are a handler that keeps failing, unless a kept mark answers for
\* it, and a body that is no text.
Judgeable(e) ==
    /\ Body[e] # "undecodable"
    /\ e \in Failing => Dedup /\ e \notin Expiring

EventuallyJudged ==
    \A e \in Keys: Judgeable(e) => <>(verdict[e] # "pending")
=============================================================================
