-------------------------- MODULE ManagementClient --------------------------
(***************************************************************************)
(* ManagementClient (client.py) with the errors it raises (errors.py) and  *)
(* the records it returns (models.py), between its callers and the engine. *)
(*                                                                         *)
(* A call is a request, what the engine does with it, and an answer, and   *)
(* each may go its own way: a caller gives up while its request is still   *)
(* on the wire and the engine carries it out later, an answer is lost, or  *)
(* something between the two answers in the engine's place.                *)
(*                                                                         *)
(* The engine is external.  A subscription is its fields and whether the   *)
(* SDK knows its kinds of ctx and scope.  poll_pending and confirm_read    *)
(* are in module PollingSource.                                            *)
(***************************************************************************)
EXTENDS Integers, FiniteSets, Functions

CONSTANTS
    Callers,      \* the tasks that share one client
    Ids,          \* the subscription ids
    Newer,        \* the ids of subscriptions of a kind this SDK does not know
    Refusals,     \* the engine's errors: pairs of a status and a code
    MaxCalls,     \* bound: how many calls the callers make together
    None          \* no subscription, no answer, an argument not given

ASSUME ManagementAssumption ==
    /\ IsFiniteSet(Callers)
    /\ Newer \subseteq Ids
    /\ \A e \in Refusals: e[1] \in Nat /\ e[1] >= 400
    /\ MaxCalls \in Nat

VARIABLES
    subscriptions,   \* the engine's: per id None or its fields
    wire,            \* the requests that the engine has not carried out
    call,            \* per caller, its latest call
    answer,          \* per caller, what has arrived for its call
    result,          \* per caller, how its latest call ended
    closed,          \* aclose() was called
    named,           \* history: per id and field, the calls that asked for a
                     \* change of it, as pairs of a caller and a number
    made,            \* history: per caller, how often the engine added
                     \* something for it, a subscription or an event
    told             \* history: per caller, how often it was told so, or was
                     \* left to wonder by an error that is not the engine's

historyVars == <<named, made, told>>
clientVars == <<call, answer, result, closed>>
managementVars == <<subscriptions, wire, clientVars, historyVars>>

-----------------------------------------------------------------------------
(* The errors. *)

\* The base class of each error class that is not itself a status's.
Base == [SubscriptionNotFound |-> "NotFound",
         UnknownEventType |-> "BadRequest", InvalidLimit |-> "BadRequest",
         LimitTooLarge |-> "BadRequest", NotAPollingSubscription |-> "BadRequest",
         SubscriptionCtxMismatch |-> "BadRequest", SubscriptionScopeMismatch |-> "BadRequest"]

\* The class of a status that catches an error of this class.
Family(class) == IF class \in DOMAIN Base THEN Base[class] ELSE class

CodeMap == [unauthorized |-> "Unauthorized", forbidden |-> "Forbidden",
            not_found |-> "NotFound", conflict |-> "Conflict",
            service_unavailable |-> "ServiceUnavailable",
            subscription_not_found |-> "SubscriptionNotFound",
            unknown_event_type |-> "UnknownEventType", invalid_limit |-> "InvalidLimit",
            limit_too_large |-> "LimitTooLarge",
            not_a_polling_subscription |-> "NotAPollingSubscription",
            subscription_ctx_mismatch |-> "SubscriptionCtxMismatch",
            subscription_scope_mismatch |-> "SubscriptionScopeMismatch"]

StatusFallback(status) ==
    CASE status = 400 -> "BadRequest"  [] status = 401 -> "Unauthorized"
      [] status = 403 -> "Forbidden"   [] status = 404 -> "NotFound"
      [] status = 409 -> "Conflict"    [] status = 503 -> "ServiceUnavailable"
      [] OTHER -> "ManagementApiError"

\* Mutant of BuildError: a code that is not listed is no particular error.
BuildErrorByCode(status, code) ==
    IF code \in DOMAIN CodeMap THEN CodeMap[code] ELSE "ManagementApiError"

BuildError(status, code) ==
    IF code \in DOMAIN CodeMap THEN CodeMap[code] ELSE StatusFallback(status)

\* The engine answers a code that the SDK lists with the status it belongs to.
ASSUME RefusalsAssumption ==
    \A e \in Refusals:
        e[2] \in DOMAIN CodeMap => Family(CodeMap[e[2]]) = StatusFallback(e[1])

-----------------------------------------------------------------------------
(* Requests and answers. *)

Additions == {"create", "emit"}

\* What a caller gives for a field: empty is [] or False, full any other
\* value.  A scope is treated as the event types are, and left out.
Fields == {"event_types", "active"}
Values == {"empty", "full"}
ASSUME NoneIsNoValue == None \notin Values \cup [Fields -> Values]

Arguments == [Fields -> Values \cup {None}]
NotGiven == [f \in Fields |-> None]
Fresh == [f \in Fields |-> "full"]

\* Mutant of Payload: what is not given is sent with the value of a new one.
PayloadOfAll(given) ==
    [f \in Fields |-> IF given[f] # None THEN given[f] ELSE Fresh[f]]

\* Mutant of Payload: what is not given is sent as null.
PayloadWithNull(given) == given

\* The arguments that are not None, and only these, go into the body.
Payload(given) == Restrict(given, {f \in Fields: given[f] # None})

\* An answer: the body has the engine's data or its error, or is foreign.
Data(ids) == [status |-> 200, body |-> "data", code |-> "", ids |-> ids]
Envelope(e) == [status |-> e[1], body |-> "error", code |-> e[2], ids |-> {}]

\* What a proxy answers in the engine's place: a page, a JSON value that is no
\* object, an object that is not the engine's, or one whose error is itself an
\* object or a list.  It uses no code of the engine's.  A redirect is read as a
\* 200 is; of an object a 200 lacks the engine's keys, whatever its error, and
\* a 502 without an error is to the client as a page.
Foreign ==
    {a \in [status: {200, 502}, code: {""}, ids: {{}},
             body: {"no JSON", "no object", "object", "nested error"}]:
        (a.body = "object" => a.status = 200) /\ (a.body = "nested error" => a.status = 502)}

Returns(a) == [how |-> "returns", what |-> "value", answer |-> a]
Escapes(exception, a) == [how |-> "escapes", what |-> exception, answer |-> a]
RaisesTyped(class, a) == [how |-> "raises", what |-> class, answer |-> a]
ConnectionError == RaisesTyped("ManagementApiConnectionError", None)

\* An answer with a status of 400 and more.  A body that is no JSON counts as an
\* empty object; _CODE_MAP cannot look up an error that is an object or a list.
Error(a) ==
    IF a.body = "no object" THEN Escapes("AttributeError", a)
    ELSE IF a.body = "nested error" THEN Escapes("TypeError", a)
    ELSE LET code == IF a.body = "error" THEN a.code ELSE "unknown_error"
         IN  RaisesTyped(BuildError(a.status, code), a)

\* Any other answer: every call but two reads its body, where the engine's keys
\* may be missing, and a subscription of an unknown kind is a ValueError.
Parsed(op, a) ==
    IF a.body = "no JSON" THEN Escapes("ValueError", a)
    ELSE IF op \in {"health", "deactivate"} THEN Returns(a)
    ELSE IF a.body = "no object" THEN Escapes("TypeError", a)
    ELSE IF a.body # "data" THEN Escapes("KeyError", a)
    ELSE IF a.ids \cap Newer # {} THEN Escapes("ValueError", a)
    ELSE Returns(a)

\* _request and what the method makes of it.
Request(op, a) == IF a.status >= 400 THEN Error(a) ELSE Parsed(op, a)

\* health() turns a ManagementApiError into False, a connection error too.
Outcome(op, r) ==
    IF op = "health" /\ r.how = "raises" THEN [r EXCEPT !.how = "returns", !.what = "False"]
                                         ELSE r

-----------------------------------------------------------------------------
NoCall == [n |-> 0, waits |-> FALSE, op |-> "health", id |-> None, given |-> NotGiven]
NotYet == [how |-> "not yet", what |-> "value", answer |-> None]

ManagementInit ==
    /\ subscriptions = [i \in Ids |-> IF i \in Newer THEN Fresh ELSE None]
    /\ wire = {}
    /\ call = [c \in Callers |-> NoCall]
    /\ answer = [c \in Callers |-> None]
    /\ result = [c \in Callers |-> NotYet]
    /\ closed = FALSE
    /\ named = [i \in Ids |-> [f \in Fields |-> {}]]
    /\ made = [c \in Callers |-> 0]
    /\ told = [c \in Callers |-> 0]

RequestOf(c, l) ==
    [by |-> c, n |-> l.n, op |-> l.op, id |-> l.id, body |-> Payload(l.given)]

\* What a call asks to change of its subscription.
Changes(l) ==
    CASE l.op = "update" -> l.given
      [] l.op = "deactivate" -> [NotGiven EXCEPT !.active = "empty"]
      [] OTHER -> NotGiven

Naming(c, l) ==
    [i \in Ids |-> [f \in Fields |->
        IF l.id = i /\ Changes(l)[f] # None THEN named[i][f] \cup {<<c, l.n>>}
                                            ELSE named[i][f]]]

MayCall(c) ==
    /\ ~call[c].waits
    /\ FoldFunction(+, 0, [d \in Callers |-> call[d].n]) < MaxCalls

\* A call sends its request.
Send(c, op, id, given) ==
    /\ MayCall(c)
    /\ ~closed
    /\ call' = [call EXCEPT ![c] = [n |-> @.n + 1, waits |-> TRUE, op |-> op,
                                    id |-> id, given |-> given]]
    /\ wire' = wire \cup {RequestOf(c, call'[c])}
    /\ named' = Naming(c, call'[c])
    /\ answer' = [answer EXCEPT ![c] = None]
    /\ result' = [result EXCEPT ![c] = NotYet]
    /\ UNCHANGED <<subscriptions, closed, made, told>>

CreateSubscription(c, v) == Send(c, "create", None, [NotGiven EXCEPT !.event_types = v])
ListSubscriptions(c) == Send(c, "list", None, NotGiven)
GetSubscription(c, i) == Send(c, "get", i, NotGiven)
UpdateSubscription(c, i, given) == Send(c, "update", i, given)
DeactivateSubscription(c, i) == Send(c, "deactivate", i, NotGiven)
EmitEvent(c) == Send(c, "emit", None, NotGiven)
ListEventTypes(c) == Send(c, "types", None, NotGiven)
Health(c) == Send(c, "health", None, NotGiven)

\* A call ends.
End(c, r) ==
    /\ call' = [call EXCEPT ![c].waits = FALSE]
    /\ answer' = [answer EXCEPT ![c] = None]
    /\ result' = [result EXCEPT ![c] = r]
    /\ told' = IF call[c].op \in Additions /\ (r.answer = None \/ r.answer.body # "error")
               THEN [told EXCEPT ![c] = @ + 1] ELSE told
    /\ UNCHANGED <<subscriptions, closed, named, made>>

\* The answer has arrived.
Receive(c) ==
    /\ call[c].waits /\ answer[c] # None
    /\ End(c, Outcome(call[c].op, Request(call[c].op, answer[c])))
    /\ UNCHANGED wire

\* Mutant of GiveUp: a request without an answer is sent again.
GiveUpRetrying(c) ==
    /\ call[c].waits
    /\ wire' = wire \cup {RequestOf(c, call[c])}
    /\ answer' = [answer EXCEPT ![c] = None]
    /\ UNCHANGED <<subscriptions, call, result, closed, historyVars>>

\* No answer: the connection fails or the time is up.  The request may be lost
\* or still on its way, and it may have been carried out.
GiveUp(c) ==
    /\ call[c].waits
    /\ End(c, Outcome(call[c].op, ConnectionError))
    /\ UNCHANGED wire

\* aclose(), at any moment.
Close ==
    /\ ~closed
    /\ closed' = TRUE
    /\ UNCHANGED <<subscriptions, wire, call, answer, result, historyVars>>

\* A call that another task's aclose() cuts off with an exception that is not
\* one of httpx's own errors.  It may also be answered still, or fail as any
\* other connection does.
CutOff(c) ==
    /\ closed /\ call[c].waits
    /\ End(c, Escapes("RuntimeError", None))
    /\ UNCHANGED wire

\* A call of a closed client.
CallClosed(c) ==
    /\ closed /\ MayCall(c)
    /\ call' = [call EXCEPT ![c] = [NoCall EXCEPT !.n = call[c].n + 1]]
    /\ result' = [result EXCEPT ![c] = Escapes("RuntimeError", None)]
    /\ UNCHANGED <<subscriptions, wire, answer, closed, historyVars>>

-----------------------------------------------------------------------------
(* The engine, and the network.  A request that is lost is one that stays on *)
(* the wire.                                                                 *)

\* The caller of r still waits for an answer.
Expected(r) == call[r.by].waits /\ call[r.by].n = r.n /\ answer[r.by] = None

\* The answer to r goes to its caller, if that still waits for it.
Answered(r, a) ==
    /\ wire' = wire \ {r}
    /\ answer' = IF Expected(r)
                 THEN [answer EXCEPT ![r.by] = a] ELSE answer
    /\ UNCHANGED <<call, result, closed>>

Refuse(r, e) ==
    /\ Answered(r, Envelope(e))
    /\ UNCHANGED <<subscriptions, historyVars>>

\* The fields s, with those that the body of r names.
Written(r, s) == [f \in Fields |-> IF f \in DOMAIN r.body THEN r.body[f] ELSE s[f]]

Create(r, i) ==
    /\ r.op = "create" /\ subscriptions[i] = None
    /\ subscriptions' = [subscriptions EXCEPT ![i] = Written(r, Fresh)]
    /\ made' = [made EXCEPT ![r.by] = @ + 1]
    /\ Answered(r, Data({i}))
    /\ UNCHANGED <<named, told>>

Emit(r) ==
    /\ r.op = "emit"
    /\ made' = [made EXCEPT ![r.by] = @ + 1]
    /\ Answered(r, Data({}))
    /\ UNCHANGED <<subscriptions, named, told>>

Update(r) ==
    /\ r.op = "update" /\ subscriptions[r.id] # None
    /\ subscriptions' = [subscriptions EXCEPT ![r.id] = Written(r, @)]
    /\ Answered(r, Data({r.id}))
    /\ UNCHANGED historyVars

Deactivate(r) ==
    /\ r.op = "deactivate" /\ subscriptions[r.id] # None
    /\ subscriptions' = [subscriptions EXCEPT ![r.id].active = "empty"]
    /\ Answered(r, Data({}))
    /\ UNCHANGED historyVars

Look(r) ==
    /\ \/ r.op = "get" /\ subscriptions[r.id] # None /\ Answered(r, Data({r.id}))
       \/ r.op = "list" /\ Answered(r, Data({i \in Ids: subscriptions[i] # None}))
       \/ r.op \in {"types", "health"} /\ Answered(r, Data({}))
    /\ UNCHANGED <<subscriptions, historyVars>>

\* Something between the engine and the client answers.
Intervene(c, a) ==
    /\ call[c].waits /\ answer[c] = None
    /\ answer' = [answer EXCEPT ![c] = a]
    /\ UNCHANGED <<subscriptions, wire, call, result, closed, historyVars>>

-----------------------------------------------------------------------------
ManagementNext ==
    \/ \E c \in Callers:
       \/ \E v \in Values: CreateSubscription(c, v)
       \/ ListSubscriptions(c) \/ EmitEvent(c) \/ ListEventTypes(c) \/ Health(c)
       \/ \E i \in Ids:
          \/ GetSubscription(c, i) \/ DeactivateSubscription(c, i)
          \/ \E given \in Arguments: UpdateSubscription(c, i, given)
       \/ CallClosed(c) \/ Receive(c) \/ GiveUp(c) \/ CutOff(c)
       \/ \E a \in Foreign: Intervene(c, a)
    \/ Close
    \/ \E r \in wire:
       \/ Emit(r) \/ Update(r) \/ Deactivate(r) \/ Look(r)
       \/ \E e \in Refusals: Refuse(r, e)
       \/ \E i \in Ids: Create(r, i)

ManagementSpec == ManagementInit /\ [][ManagementNext]_managementVars

-----------------------------------------------------------------------------
\* Every variable has the values the code can give it, a caller that does not
\* wait has its outcome and no answer left over, and no null is on the wire.
ManagementTypeOK ==
    /\ subscriptions \in [Ids -> [Fields -> Values] \cup {None}]
    /\ \A c \in Callers:
        /\ call[c].n \in 0..MaxCalls /\ call[c].waits \in BOOLEAN
        /\ result[c].how \in {"not yet", "returns", "raises", "escapes"}
        /\ (result[c].how = "not yet") <=> (call[c].waits \/ call[c].n = 0)
        /\ answer[c] # None => call[c].waits
    /\ \A r \in wire: \A f \in DOMAIN r.body: r.body[f] \in Values
    /\ closed \in BOOLEAN

\* The engine has carried out the caller's latest call, and said so.
Carried(c) == \E a \in {answer[c], result[c].answer}: a # None /\ a.body = "data"

\* A change that the engine has answered holds, whichever other requests arrive
\* before or after it: of the fields that the call asked to change, each one that
\* no other call ever asked for has the value it asked for, [] and False as any
\* other (client.py:220-226).
ChangesHold ==
    \A c \in Callers: Carried(c) =>
        LET l == call[c]
        IN  \A f \in Fields:
                Changes(l)[f] # None /\ named[l.id][f] = {<<c, l.n>>} =>
                    subscriptions[l.id][f] = Changes(l)[f]

\* The engine adds a subscription or an event at most once per call, and the
\* caller learns of it, with the one-time secret of a subscription, or gets an
\* error that leaves it open; never an error that denies it.
NoneMadeUnnoticed ==
    \A c \in Callers:
        made[c] <= told[c] + (IF call[c].waits /\ call[c].op \in Additions THEN 1 ELSE 0)

\* "A caller branches on type" (errors.py:2): an error answered by the engine
\* is caught by the class of its status, and so is every class below that.
CaughtByFamily ==
    \A c \in Callers:
        result[c].how = "raises" /\ result[c].answer # None =>
            Family(result[c].what) = StatusFallback(result[c].answer.status)
=============================================================================
