----------------------- MODULE ManagementClientProofs -----------------------
(* What TLAPS proves of module ManagementClient, for any callers and calls.  *)
EXTENDS ManagementClient, FiniteSetTheorems, TLAPS

Ops == {"create", "list", "get", "update", "deactivate", "emit", "types", "health"}

Changing == {"update", "deactivate"}

Calls == [n: Nat, waits: BOOLEAN, op: Ops, id: Ids \cup {None}, given: Arguments]

(* Every step is the sending of a request, the end of a call, or a step of   *)
(* the engine or the network.                                                *)
LEMMA ManagementSteps ==
    ASSUME ManagementNext
    PROVE  \/ \E c \in Callers, op \in Ops, id \in Ids \cup {None}, given \in Arguments:
                 Send(c, op, id, given) /\ (op \in Changing => id \in Ids)
           \/ \E c \in Callers: CallClosed(c)
           \/ \E c \in Callers: Receive(c)
           \/ \E c \in Callers: GiveUp(c)
           \/ \E c \in Callers: CutOff(c)
           \/ \E c \in Callers, a \in Foreign: Intervene(c, a)
           \/ Close
           \/ \E r \in wire: Emit(r)
           \/ \E r \in wire: Update(r)
           \/ \E r \in wire: Deactivate(r)
           \/ \E r \in wire: Look(r)
           \/ \E r \in wire, e \in Refusals: Refuse(r, e)
           \/ \E r \in wire, i \in Ids: Create(r, i)
<1>1. NotGiven \in Arguments
  BY DEF NotGiven, Arguments
<1>2. ASSUME NEW v \in Values
      PROVE  [NotGiven EXCEPT !.event_types = v] \in Arguments
  BY DEF NotGiven, Arguments, Fields
<1>3. ASSUME NEW c \in Callers,
             \/ \E v \in Values: CreateSubscription(c, v)
             \/ ListSubscriptions(c) \/ EmitEvent(c) \/ ListEventTypes(c) \/ Health(c)
             \/ \E i \in Ids:
                \/ GetSubscription(c, i) \/ DeactivateSubscription(c, i)
                \/ \E given \in Arguments: UpdateSubscription(c, i, given)
      PROVE  \E op \in Ops, id \in Ids \cup {None}, given \in Arguments:
                 Send(c, op, id, given) /\ (op \in Changing => id \in Ids)
  <2>0. \A op \in {"create", "list", "emit", "types", "health"}: op \in Ops \ Changing
    BY DEF Ops, Changing
  <2>1. CASE \E v \in Values: CreateSubscription(c, v)
    BY <1>2, <2>0, <2>1, Zenon DEF CreateSubscription
  <2>2. CASE ListSubscriptions(c) \/ EmitEvent(c) \/ ListEventTypes(c) \/ Health(c)
    BY <1>1, <2>0, <2>2, Zenon DEF ListSubscriptions, EmitEvent, ListEventTypes, Health
  <2>3. CASE \E i \in Ids: GetSubscription(c, i) \/ DeactivateSubscription(c, i)
    BY <1>1, <2>3, Zenon DEF GetSubscription, DeactivateSubscription, Ops
  <2>4. CASE \E i \in Ids: \E given \in Arguments: UpdateSubscription(c, i, given)
    BY <2>4, Zenon DEF UpdateSubscription, Ops
  <2> QED
    BY <1>3, <2>1, <2>2, <2>3, <2>4, Zenon
<1> QED
  BY <1>3, Zenon DEF ManagementNext

-----------------------------------------------------------------------------
(* Requests. *)

(* The calls, and what is on the wire for them: no body has a null.          *)
CallsOK ==
    /\ call \in [Callers -> Calls]
    /\ \A c \in Callers: call[c].op \in Changing => call[c].id \in Ids

WireOK ==
    \A r \in wire: /\ r.by \in Callers
                   /\ DOMAIN r.body \subseteq Fields
                   /\ \A f \in DOMAIN r.body: r.body[f] \in Values

LEMMA RequestsInit == ManagementInit => CallsOK /\ WireOK
BY DEF ManagementInit, CallsOK, WireOK, Calls, NoCall, NotGiven, Arguments, Ops, Changing

(* The body of an update has the fields that were given, and no others.      *)
LEMMA PayloadIsGiven ==
    ASSUME NEW given \in Arguments
    PROVE  /\ DOMAIN Payload(given) = {f \in Fields: given[f] # None}
           /\ \A f \in DOMAIN Payload(given):
                  Payload(given)[f] = given[f] /\ given[f] \in Values
BY DEF Payload, Restrict, Arguments

LEMMA RequestsStep ==
    CallsOK /\ WireOK /\ [ManagementNext]_managementVars => CallsOK' /\ WireOK'
<1> SUFFICES ASSUME CallsOK, WireOK, [ManagementNext]_managementVars
             PROVE  CallsOK' /\ WireOK'
  OBVIOUS
<1>1. ASSUME NEW c \in Callers, NEW op \in Ops, NEW id \in Ids \cup {None},
             NEW given \in Arguments, Send(c, op, id, given),
             op \in Changing => id \in Ids
      PROVE  CallsOK' /\ WireOK'
  <2>1. call'[c] = [n |-> call[c].n + 1, waits |-> TRUE, op |-> op, id |-> id, given |-> given]
    BY <1>1 DEF Send, CallsOK
  <2>2. CallsOK'
    BY <1>1, <2>1 DEF Send, CallsOK, Calls
  <2>3. WireOK'
    <3> DEFINE r == RequestOf(c, call'[c])
    <3>1. r.by = c /\ r.body = Payload(given)
      BY <2>1 DEF RequestOf
    <3>2. wire' = wire \cup {r}
      BY <1>1 DEF Send
    <3> HIDE DEF r
    <3> QED
      BY <3>1, <3>2, PayloadIsGiven DEF WireOK
  <2> QED
    BY <2>2, <2>3
<1>2. ASSUME NEW c \in Callers, CallClosed(c)
      PROVE  CallsOK' /\ WireOK'
  <2>1. call' = [call EXCEPT ![c] = [NoCall EXCEPT !.n = call[c].n + 1]] /\ UNCHANGED wire
    BY <1>2 DEF CallClosed
  <2>2. [NoCall EXCEPT !.n = call[c].n + 1] \in Calls
    <3>1. NotGiven \in Arguments
      BY DEF NotGiven, Arguments
    <3>2. call[c].n + 1 \in Nat
      BY DEF CallsOK, Calls
    <3>3. NoCall \in Calls
      BY <3>1 DEF Calls, NoCall, Ops
    <3> QED
      BY <3>2, <3>3 DEF Calls
  <2>3. [NoCall EXCEPT !.n = call[c].n + 1].op \notin Changing
    BY DEF NoCall, Changing
  <2> QED
    BY <2>1, <2>2, <2>3 DEF CallsOK, WireOK
<1>3. ASSUME NEW c \in Callers, Receive(c) \/ GiveUp(c) \/ CutOff(c)
      PROVE  CallsOK' /\ WireOK'
  <2>1. call' = [call EXCEPT ![c].waits = FALSE] /\ UNCHANGED wire
    BY <1>3, Zenon DEF Receive, GiveUp, CutOff, End
  <2> QED
    BY <2>1 DEF CallsOK, WireOK, Calls
<1>4. ASSUME UNCHANGED call, wire' \subseteq wire
      PROVE  CallsOK' /\ WireOK'
  BY <1>4 DEF CallsOK, WireOK
<1>5. ASSUME NEW c \in Callers, NEW a \in Foreign, Intervene(c, a)
      PROVE  UNCHANGED call /\ wire' \subseteq wire
  BY <1>5 DEF Intervene
<1>6. CASE Close
  BY <1>4, <1>6 DEF Close
<1>7. ASSUME NEW r \in wire, NEW a, Answered(r, a)
      PROVE  UNCHANGED call /\ wire' \subseteq wire
  BY <1>7 DEF Answered
<1>8. ASSUME NEW r \in wire,
             \/ Emit(r) \/ Update(r) \/ Deactivate(r) \/ Look(r)
             \/ \E e \in Refusals: Refuse(r, e)
             \/ \E i \in Ids: Create(r, i)
      PROVE  UNCHANGED call /\ wire' \subseteq wire
  BY <1>7, <1>8, Zenon DEF Emit, Update, Deactivate, Look, Refuse, Create
<1>9. CASE UNCHANGED managementVars
  BY <1>4, <1>9 DEF managementVars, clientVars
<1> QED
  BY <1>1, <1>2, <1>3, <1>4, <1>5, <1>6, <1>8, <1>9, ManagementSteps, Zenon

-----------------------------------------------------------------------------
(* Old and new requests. *)

(* A request is its caller's latest one, or is older.                        *)
OrderOK ==
    \A r \in wire: /\ r.n \in Nat /\ r.n <= call[r.by].n
                   /\ r.n = call[r.by].n => r = RequestOf(r.by, call[r.by])

(* A call's request does not tell whether the call still waits.              *)
LEMMA SameRequest ==
    ASSUME NEW c, NEW l, NEW m,
           l.n = m.n, l.op = m.op, l.id = m.id, l.given = m.given
    PROVE  RequestOf(c, l) = RequestOf(c, m)
BY DEF RequestOf

LEMMA RequestFields ==
    ASSUME NEW c, NEW l
    PROVE  /\ RequestOf(c, l).by = c /\ RequestOf(c, l).n = l.n
           /\ RequestOf(c, l).op = l.op /\ RequestOf(c, l).id = l.id
           /\ RequestOf(c, l).body = Payload(l.given)
BY DEF RequestOf

LEMMA OrderStep ==
    CallsOK /\ WireOK /\ OrderOK /\ [ManagementNext]_managementVars => OrderOK'
<1> SUFFICES ASSUME CallsOK, WireOK, OrderOK, [ManagementNext]_managementVars
             PROVE  OrderOK'
  OBVIOUS
<1>1. ASSUME NEW c \in Callers, NEW op \in Ops, NEW id \in Ids \cup {None},
             NEW given \in Arguments, Send(c, op, id, given)
      PROVE  OrderOK'
  <2>1. /\ call' = [call EXCEPT ![c] = call'[c]]
        /\ call'[c] = [n |-> call[c].n + 1, waits |-> TRUE, op |-> op, id |-> id,
                       given |-> given]
        /\ wire' = wire \cup {RequestOf(c, call'[c])}
    BY <1>1 DEF Send, CallsOK
  <2>2. call'[c].n = call[c].n + 1 /\ call[c].n \in Nat /\ call'[c].op = op
    BY <2>1 DEF CallsOK, Calls
  <2>3. /\ RequestOf(c, call'[c]).by = c
        /\ RequestOf(c, call'[c]).n = call'[c].n
    BY RequestFields
  <2>4. ASSUME NEW r \in wire
        PROVE  /\ r.n \in Nat /\ r.n <= call'[r.by].n
               /\ r.n = call'[r.by].n => r = RequestOf(r.by, call'[r.by])
    <3>1. r.n \in Nat /\ r.n <= call[r.by].n /\ (r.n = call[r.by].n => r = RequestOf(r.by, call[r.by]))
      BY Zenon DEF OrderOK
    <3>2. r.by # c => call'[r.by] = call[r.by]
      BY <2>1, Zenon DEF CallsOK, WireOK
    <3>3. \A m, k \in Nat: m <= k => m <= k + 1 /\ m # k + 1
      OBVIOUS
    <3>4. CASE r.by = c
      <4>1. r.n \in Nat /\ r.n <= call[c].n
        BY <3>1, <3>4, Zenon
      <4>2. r.n <= call[c].n + 1 /\ r.n # call[c].n + 1
        BY <2>2, <3>3, <4>1, Zenon
      <4>3. r.n <= call'[c].n /\ r.n # call'[c].n
        BY <2>2, <4>2, Zenon
      <4> QED
        BY <3>1, <3>4, <4>3, Zenon
    <3> QED
      BY <3>1, <3>2, <3>4, Zenon
  <2>5. call'[c].n \in Nat /\ call'[c].n <= call'[c].n
    BY <2>2
  <2>6. LET r == RequestOf(c, call'[c])
        IN  r.n \in Nat /\ r.n <= call'[r.by].n /\ r = RequestOf(r.by, call'[r.by])
    <3> DEFINE r == RequestOf(c, call'[c])
    <3>1. r.by = c /\ r.n = call'[c].n /\ r = RequestOf(c, call'[c])
      BY <2>3
    <3> HIDE DEF r
    <3>2. r.n \in Nat /\ r.n <= call'[r.by].n /\ r = RequestOf(r.by, call'[r.by])
      BY <2>5, <3>1, Zenon
    <3> QED
      BY <3>2, Zenon DEF r
  <2> QED
    BY <2>1, <2>4, <2>6, Zenon DEF OrderOK
<1>2. ASSUME NEW c \in Callers, CallClosed(c)
      PROVE  OrderOK'
  <2>1. call' = [call EXCEPT ![c] = [NoCall EXCEPT !.n = call[c].n + 1]] /\ UNCHANGED wire
    BY <1>2 DEF CallClosed
  <2>2. call'[c].n = call[c].n + 1 /\ call[c].n \in Nat
    BY <2>1 DEF CallsOK, Calls, NoCall
  <2>3. ASSUME NEW r \in wire
        PROVE  /\ r.n \in Nat /\ r.n <= call'[r.by].n
               /\ r.n = call'[r.by].n => r = RequestOf(r.by, call'[r.by])
    <3>1. r.n \in Nat /\ r.n <= call[r.by].n /\ (r.n = call[r.by].n => r = RequestOf(r.by, call[r.by]))
      BY Zenon DEF OrderOK
    <3>2. r.by # c => call'[r.by] = call[r.by]
      BY <2>1, Zenon DEF CallsOK, WireOK
    <3>3. \A m, k \in Nat: m <= k => m <= k + 1 /\ m # k + 1
      OBVIOUS
    <3>4. CASE r.by = c
      <4>1. r.n \in Nat /\ r.n <= call[c].n
        BY <3>1, <3>4, Zenon
      <4>2. r.n <= call[c].n + 1 /\ r.n # call[c].n + 1
        BY <2>2, <3>3, <4>1, Zenon
      <4>3. r.n <= call'[c].n /\ r.n # call'[c].n
        BY <2>2, <4>2, Zenon
      <4> QED
        BY <3>1, <3>4, <4>3, Zenon
    <3> QED
      BY <3>1, <3>2, <3>4, Zenon
  <2> QED
    BY <2>1, <2>3, Zenon DEF OrderOK
<1>3. ASSUME NEW c \in Callers, Receive(c) \/ GiveUp(c) \/ CutOff(c)
      PROVE  OrderOK'
  <2>1. call' = [call EXCEPT ![c].waits = FALSE] /\ UNCHANGED wire
    BY <1>3, Zenon DEF Receive, GiveUp, CutOff, End
  <2>2. \A d \in Callers: /\ call'[d].n = call[d].n
                          /\ RequestOf(d, call'[d]) = RequestOf(d, call[d])
    <3>1. \A d \in Callers: /\ call'[d].n = call[d].n /\ call'[d].op = call[d].op
                            /\ call'[d].id = call[d].id /\ call'[d].given = call[d].given
      BY <2>1 DEF CallsOK, Calls
    <3> QED
      BY <3>1, SameRequest
  <2> QED
    BY <2>1, <2>2, Zenon DEF OrderOK, WireOK
<1>4. ASSUME UNCHANGED call, wire' \subseteq wire
      PROVE  OrderOK'
  BY <1>4, Zenon DEF OrderOK
<1>5. ASSUME NEW c \in Callers, NEW a \in Foreign, Intervene(c, a)
      PROVE  UNCHANGED call /\ wire' \subseteq wire
  BY <1>5 DEF Intervene
<1>6. CASE Close
  BY <1>4, <1>6 DEF Close
<1>7. ASSUME NEW r \in wire, NEW a, Answered(r, a)
      PROVE  UNCHANGED call /\ wire' \subseteq wire
  BY <1>7 DEF Answered
<1>8. ASSUME NEW r \in wire,
             \/ Emit(r) \/ Update(r) \/ Deactivate(r) \/ Look(r)
             \/ \E e \in Refusals: Refuse(r, e)
             \/ \E i \in Ids: Create(r, i)
      PROVE  UNCHANGED call /\ wire' \subseteq wire
  BY <1>7, <1>8, Zenon DEF Emit, Update, Deactivate, Look, Refuse, Create
<1>9. CASE UNCHANGED managementVars
  BY <1>4, <1>9 DEF managementVars, clientVars
<1> QED
  BY <1>1, <1>2, <1>3, <1>4, <1>5, <1>6, <1>8, <1>9, ManagementSteps, Zenon

-----------------------------------------------------------------------------
(* Changes. *)

(* What the engine changes for a request, and to what. *)
Touches(r, f) ==
    \/ r.op = "update" /\ f \in DOMAIN r.body
    \/ r.op = "deactivate" /\ f = "active"

NewValue(r, f) == IF r.op = "deactivate" THEN "empty" ELSE r.body[f]

SubscriptionsOK == subscriptions \in [Ids -> [Fields -> Values] \cup {None}]

(* Whatever is on the wire for a field was named by its call. *)
NamedOK ==
    /\ named = [i \in Ids |-> [f \in Fields |-> named[i][f]]]
    /\ \A r \in wire: \A i \in Ids, f \in Fields:
           r.id = i /\ Touches(r, f) => <<r.by, r.n>> \in named[i][f]

AnswersAre ==
    /\ answer = [c \in Callers |-> answer[c]]
    /\ result = [c \in Callers |-> result[c]]

(* What the call l of c asked for is in the subscriptions s, but for what is *)
(* named by others too.                                                      *)
Holds(c, l, s, by) ==
    \A i \in Ids, f \in Fields:
        l.id = i /\ Changes(l)[f] # None =>
            /\ s[i] # None
            /\ by[i][f] = {<<c, l.n>>} => s[i][f] = Changes(l)[f]

(* ChangesHold for one caller, whose subscription is there. *)
HeldBy(c) == Carried(c) => Holds(c, call[c], subscriptions, named)

Held == \A c \in Callers: HeldBy(c)

ChangeInv ==
    /\ CallsOK /\ WireOK /\ OrderOK
    /\ SubscriptionsOK /\ NamedOK /\ AnswersAre /\ Held

LEMMA HeldByNext ==
    ASSUME NEW c, Carried(c)' => Holds(c, call'[c], subscriptions', named')
    PROVE  HeldBy(c)'
BY DEF HeldBy, Holds, Changes

(* What a call asks to change, field by field. *)
LEMMA ChangesOf ==
    ASSUME NEW l \in Calls, NEW f \in Fields
    PROVE  /\ l.op = "update" => Changes(l)[f] = l.given[f]
           /\ l.op = "deactivate" => Changes(l)[f] = IF f = "active" THEN "empty" ELSE None
           /\ l.op \notin Changing => Changes(l)[f] = None
BY DEF Changes, NotGiven, Changing, Calls, Arguments, Fields

(* The request of a call changes what the call asks for. *)
LEMMA RequestChanges ==
    ASSUME NEW c, NEW l \in Calls, l.op \in Changing, NEW f \in Fields
    PROVE  /\ Touches(RequestOf(c, l), f) <=> Changes(l)[f] # None
           /\ Changes(l)[f] # None => NewValue(RequestOf(c, l), f) = Changes(l)[f]
<1> DEFINE r == RequestOf(c, l)
<1>1. r.op = l.op /\ r.body = Payload(l.given)
  BY RequestFields
<1> HIDE DEF r
<1>2. l.given \in Arguments
  BY DEF Calls
<1>3. CASE l.op = "update"
  <2>1. Changes(l)[f] = l.given[f]
    BY <1>3, ChangesOf
  <2>2. f \in DOMAIN r.body <=> l.given[f] # None
    BY <1>1, <1>2, PayloadIsGiven
  <2>3. l.given[f] # None => r.body[f] = l.given[f]
    BY <1>1, <1>2, <2>2, PayloadIsGiven
  <2> QED
    BY <1>1, <1>3, <2>1, <2>2, <2>3 DEF Touches, NewValue, r
<1>4. CASE l.op = "deactivate"
  <2>1. Changes(l)[f] = IF f = "active" THEN "empty" ELSE None
    BY <1>4, ChangesOf
  <2>2. "empty" # None
    BY NoneIsNoValue DEF Values
  <2> QED
    BY <1>1, <1>4, <2>1, <2>2 DEF Touches, NewValue, r
<1> QED
  BY <1>3, <1>4 DEF Changing

(* What a step of the engine for r, answered by a, does to the subscriptions. *)
Effect(r, a) ==
    /\ SubscriptionsOK'
    /\ \A i \in Ids: subscriptions[i] # None =>
          /\ subscriptions'[i] # None
          /\ \A f \in Fields:
                \/ subscriptions'[i][f] = subscriptions[i][f]
                \/ r.id = i /\ Touches(r, f) /\ subscriptions'[i][f] = NewValue(r, f)
    /\ a.body = "data" /\ r.op \in Changing =>
          \A i \in Ids: r.id = i =>
              /\ subscriptions[i] # None
              /\ \A f \in Fields: Touches(r, f) => subscriptions'[i][f] = NewValue(r, f)

(* A subscription is no None. *)
LEMMA SubscriptionIsSome ==
    ASSUME NEW s \in [Fields -> Values]
    PROVE  s # None
BY NoneIsNoValue

LEMMA EngineEffect ==
    ASSUME SubscriptionsOK, WireOK, NEW r \in wire,
           \/ Emit(r) \/ Update(r) \/ Deactivate(r) \/ Look(r)
           \/ \E e \in Refusals: Refuse(r, e)
           \/ \E i \in Ids: Create(r, i)
    PROVE  UNCHANGED named /\ \E a: Answered(r, a) /\ Effect(r, a)
<1>0. /\ DOMAIN r.body \subseteq Fields
      /\ \A f \in DOMAIN r.body: r.body[f] \in Values
  BY DEF WireOK
(* What is no change leaves all as it is. *)
<1>1. ASSUME NEW a, UNCHANGED subscriptions, a.body = "data" => r.op \notin Changing
      PROVE  Effect(r, a)
  BY <1>1 DEF Effect, SubscriptionsOK
<1>2. CASE Emit(r) \/ Look(r)
  <2>1. \A ids: Data(ids).body = "data"
    BY DEF Data
  <2>2. /\ UNCHANGED <<subscriptions, named>> /\ r.op \notin Changing
        /\ \E ids: Answered(r, Data(ids))
    BY <1>2, Zenon DEF Emit, Look, historyVars, Changing
  <2> QED
    BY <1>1, <2>2, Zenon
<1>3. ASSUME NEW e \in Refusals, Refuse(r, e)
      PROVE  UNCHANGED named /\ \E a: Answered(r, a) /\ Effect(r, a)
  <2>1. Envelope(e).body # "data"
    BY DEF Envelope
  <2>2. /\ UNCHANGED <<subscriptions, named>> /\ Answered(r, Envelope(e))
    BY <1>3, Zenon DEF Refuse, historyVars
  <2> QED
    BY <1>1, <2>1, <2>2, Zenon
<1>4. CASE Update(r)
  <2>1. /\ r.op = "update" /\ subscriptions[r.id] # None
        /\ subscriptions' = [subscriptions EXCEPT ![r.id] = Written(r, subscriptions[r.id])]
        /\ Answered(r, Data({r.id})) /\ UNCHANGED named
    BY <1>4 DEF Update, historyVars
  <2>2. ASSUME NEW s \in [Fields -> Values]
        PROVE  /\ Written(r, s) \in [Fields -> Values]
               /\ \A f \in Fields: Written(r, s)[f] = IF f \in DOMAIN r.body
                                                      THEN r.body[f] ELSE s[f]
    BY <1>0 DEF Written
  <2>3. ASSUME NEW i \in Ids, subscriptions[i] # None
        PROVE  subscriptions[i] \in [Fields -> Values]
    BY <2>3 DEF SubscriptionsOK
  <2>4. ASSUME NEW i \in Ids
        PROVE  subscriptions'[i] = IF r.id = i THEN Written(r, subscriptions[i])
                                               ELSE subscriptions[i]
    BY <2>1 DEF SubscriptionsOK
  <2>5. SubscriptionsOK'
    BY <2>1, <2>2, <2>3 DEF SubscriptionsOK
  <2>6. \A f \in Fields: Touches(r, f) <=> f \in DOMAIN r.body
    BY <2>1 DEF Touches
  <2>7. \A f: NewValue(r, f) = r.body[f]
    BY <2>1 DEF NewValue
  <2>8. Effect(r, Data({r.id}))
    BY <2>1, <2>2, <2>3, <2>4, <2>5, <2>6, <2>7, SubscriptionIsSome DEF Effect
  <2> QED
    BY <2>1, <2>8
<1>5. CASE Deactivate(r)
  <2>1. /\ r.op = "deactivate" /\ subscriptions[r.id] # None
        /\ subscriptions' = [subscriptions EXCEPT ![r.id].active = "empty"]
        /\ Answered(r, Data({})) /\ UNCHANGED named
    BY <1>5 DEF Deactivate, historyVars
  <2>2. ASSUME NEW s \in [Fields -> Values]
        PROVE  /\ [s EXCEPT !.active = "empty"] \in [Fields -> Values]
               /\ \A f \in Fields: [s EXCEPT !.active = "empty"][f] =
                                       IF f = "active" THEN "empty" ELSE s[f]
    BY DEF Fields, Values
  <2>3. ASSUME NEW i \in Ids, subscriptions[i] # None
        PROVE  subscriptions[i] \in [Fields -> Values]
    BY <2>3 DEF SubscriptionsOK
  <2>4. ASSUME NEW i \in Ids
        PROVE  subscriptions'[i] = IF r.id = i THEN [subscriptions[i] EXCEPT !.active = "empty"]
                                               ELSE subscriptions[i]
    BY <2>1 DEF SubscriptionsOK
  <2>5. SubscriptionsOK'
    BY <2>1, <2>2, <2>3 DEF SubscriptionsOK
  <2>6. \A f \in Fields: Touches(r, f) <=> f = "active"
    BY <2>1 DEF Touches
  <2>7. \A f: NewValue(r, f) = "empty"
    BY <2>1 DEF NewValue
  <2>8. ASSUME NEW i \in Ids, subscriptions[i] # None
        PROVE  /\ subscriptions'[i] # None
               /\ r.id = i => subscriptions'[i]["active"] = "empty"
               /\ \A f \in Fields: \/ subscriptions'[i][f] = subscriptions[i][f]
                                   \/ r.id = i /\ f = "active"
    <3> DEFINE s == subscriptions[i]
               t == [s EXCEPT !.active = "empty"]
    <3>1. s \in [Fields -> Values]
      BY <2>3, <2>8
    <3>2. /\ t \in [Fields -> Values]
          /\ \A f \in Fields: t[f] = IF f = "active" THEN "empty" ELSE s[f]
      BY <2>2, <3>1
    <3>3. subscriptions'[i] = IF r.id = i THEN t ELSE s
      BY <2>4
    <3>4. s # None /\ t # None /\ "active" \in Fields
      BY <3>1, <3>2, SubscriptionIsSome DEF Fields
    <3> HIDE DEF t
    <3> QED
      BY <3>2, <3>3, <3>4
  <2>9. Effect(r, Data({}))
    BY <2>1, <2>5, <2>6, <2>7, <2>8, Zenon DEF Effect
  <2> QED
    BY <2>1, <2>9
(* A new subscription is one that nobody has asked to change. *)
<1>6. ASSUME NEW i \in Ids, Create(r, i)
      PROVE  UNCHANGED named /\ \E a: Answered(r, a) /\ Effect(r, a)
  <2>1. /\ r.op = "create" /\ subscriptions[i] = None
        /\ subscriptions' = [subscriptions EXCEPT ![i] = Written(r, Fresh)]
        /\ Answered(r, Data({i})) /\ UNCHANGED named
    BY <1>6 DEF Create
  <2>2. Written(r, Fresh) \in [Fields -> Values]
    BY <1>0 DEF Written, Fresh, Values
  <2>3. SubscriptionsOK'
    BY <2>1, <2>2 DEF SubscriptionsOK
  <2>4. \A j \in Ids: subscriptions[j] # None => subscriptions'[j] = subscriptions[j]
    BY <2>1 DEF SubscriptionsOK
  <2>5. r.op \notin Changing
    BY <2>1 DEF Changing
  <2>6. Effect(r, Data({i}))
    BY <2>3, <2>4, <2>5, Zenon DEF Effect
  <2> QED
    BY <2>1, <2>6
<1> QED
  BY <1>2, <1>3, <1>4, <1>5, <1>6

(* A step of the engine undoes no change that nobody else asked to undo: what *)
(* it writes to a field that one call alone has named is that call's.         *)
LEMMA EngineKeepsChanges ==
    ASSUME ChangeInv, NEW r \in wire, NEW a, Answered(r, a), Effect(r, a), UNCHANGED named
    PROVE  SubscriptionsOK' /\ NamedOK' /\ AnswersAre' /\ Held'
<1> USE DEF ChangeInv
<1>1. /\ wire' = wire \ {r} /\ UNCHANGED <<call, result>>
      /\ answer' = IF Expected(r) THEN [answer EXCEPT ![r.by] = a] ELSE answer
  BY DEF Answered
<1>2. NamedOK'
  BY <1>1 DEF NamedOK, Touches
<1>3. AnswersAre'
  <2>1. answer' = [c \in Callers |-> answer'[c]]
    BY <1>1, Zenon DEF AnswersAre
  <2> QED
    BY <1>1, <2>1, Zenon DEF AnswersAre
<1>4. ASSUME NEW c \in Callers, Carried(c)', NEW i \in Ids, NEW f \in Fields,
             call[c].id = i, Changes(call[c])[f] # None
      PROVE  /\ subscriptions'[i] # None
             /\ named[i][f] = {<<c, call[c].n>>} =>
                    subscriptions'[i][f] = Changes(call[c])[f]
  <2>1. call[c] \in Calls /\ call[c].op \in Changing
    BY <1>4, ChangesOf DEF CallsOK
  (* The caller's own request writes what it asked for. *)
  <2>2. ASSUME r.by = c, r.n = call[c].n
        PROVE  /\ r.id = i /\ r.op \in Changing /\ Touches(r, f)
               /\ NewValue(r, f) = Changes(call[c])[f]
    <3>1. r = RequestOf(c, call[c])
      BY <2>2, Zenon DEF OrderOK
    <3>2. r.id = i /\ r.op = call[c].op
      BY <1>4, <3>1, RequestFields
    <3>3. Touches(r, f) /\ NewValue(r, f) = Changes(call[c])[f]
      BY <1>4, <2>1, <3>1, RequestChanges, Zenon
    <3> QED
      BY <2>1, <3>2, <3>3, Zenon
  <2>3. CASE Carried(c)
    <3>1. /\ subscriptions[i] # None
          /\ named[i][f] = {<<c, call[c].n>>} => subscriptions[i][f] = Changes(call[c])[f]
      BY <1>4, <2>3, Zenon DEF Held, HeldBy, Holds
    <3>2. /\ subscriptions'[i] # None
          /\ \/ subscriptions'[i][f] = subscriptions[i][f]
             \/ r.id = i /\ Touches(r, f) /\ subscriptions'[i][f] = NewValue(r, f)
      BY <3>1, Zenon DEF Effect
    <3>3. ASSUME named[i][f] = {<<c, call[c].n>>}, r.id = i, Touches(r, f)
          PROVE  NewValue(r, f) = Changes(call[c])[f]
      <4>1. <<r.by, r.n>> \in named[i][f]
        BY <3>3, Zenon DEF NamedOK
      <4>2. r.by = c /\ r.n = call[c].n
        BY <3>3, <4>1
      <4> QED
        BY <2>2, <4>2
    <3> QED
      BY <3>1, <3>2, <3>3, Zenon
  <2>4. CASE ~Carried(c)
    <3>1. answer'[c] # answer[c] /\ answer'[c] # None /\ answer'[c].body = "data"
      BY <1>1, <1>4, <2>4, Zenon DEF Carried
    <3>2. Expected(r) /\ r.by = c /\ answer'[c] = a
      BY <1>1, <3>1, Zenon DEF AnswersAre
    <3>3. r.n = call[c].n
      BY <3>2, Zenon DEF Expected
    <3>4. subscriptions[i] # None /\ subscriptions'[i][f] = NewValue(r, f)
      BY <2>2, <3>1, <3>2, <3>3, Zenon DEF Effect
    <3>5. subscriptions'[i] # None
      BY <3>4, Zenon DEF Effect
    <3> QED
      BY <2>2, <3>2, <3>3, <3>4, <3>5, Zenon
  <2> QED
    BY <2>3, <2>4
<1>5. Held'
  <2>1. ASSUME NEW c \in Callers, Carried(c)'
        PROVE  Holds(c, call'[c], subscriptions', named')
    BY <1>1, <1>4, <2>1, Zenon DEF Holds
  <2> QED
    BY <2>1, HeldByNext, Zenon DEF Held
<1> QED
  BY <1>2, <1>3, <1>5 DEF Effect

(* A step of one caller, after which it has an answer only if it had it       *)
(* before, or a call that asks for nothing.                                   *)
LEMMA CallerKeepsChanges ==
    ASSUME ChangeInv, NEW c \in Callers, NEW l, NEW a, NEW r, UNCHANGED subscriptions,
           call' = [call EXCEPT ![c] = l], answer' = [answer EXCEPT ![c] = a],
           result' = [result EXCEPT ![c] = r],
           \A i \in Ids, f \in Fields:
               /\ named[i][f] \subseteq named'[i][f]
               /\ named'[i][f] \subseteq named[i][f] \cup {<<c, l.n>>},
           \/ /\ a # None => a.body # "data"
              /\ r.answer # None => r.answer.body # "data"
           \/ \A f \in Fields: Changes(l)[f] = None
           \/ /\ Carried(c) /\ UNCHANGED named
              /\ l.n = call[c].n /\ l.id = call[c].id
              /\ \A f \in Fields: Changes(l)[f] = Changes(call[c])[f]
    PROVE  AnswersAre' /\ Held'
<1> USE DEF ChangeInv
<1>1. AnswersAre'
  BY Zenon DEF AnswersAre
<1>2. call'[c] = l /\ answer'[c] = a /\ result'[c] = r
  BY Zenon DEF AnswersAre, CallsOK
<1>3. HeldBy(c)'
  <2>1. CASE /\ a # None => a.body # "data"
             /\ r.answer # None => r.answer.body # "data"
    <3>1. ~Carried(c)'
      BY <1>2, <2>1, Zenon DEF Carried
    <3> QED
      BY <3>1, HeldByNext
  <2>2. CASE \A f \in Fields: Changes(l)[f] = None
    <3>1. Holds(c, call'[c], subscriptions', named')
      BY <1>2, <2>2, Zenon DEF Holds
    <3> QED
      BY <3>1, HeldByNext
  <2>3. CASE /\ Carried(c) /\ UNCHANGED named
             /\ l.n = call[c].n /\ l.id = call[c].id
             /\ \A f \in Fields: Changes(l)[f] = Changes(call[c])[f]
    <3>1. Holds(c, call[c], subscriptions, named)
      BY <2>3 DEF Held, HeldBy
    <3>2. Holds(c, call'[c], subscriptions', named')
      BY <1>2, <2>3, <3>1 DEF Holds
    <3> QED
      BY <3>2, HeldByNext
  <2> QED
    BY <2>1, <2>2, <2>3, Zenon
<1>4. ASSUME NEW d \in Callers, d # c
      PROVE  HeldBy(d)'
  <2>1. call'[d] = call[d] /\ answer'[d] = answer[d] /\ result'[d] = result[d]
    BY <1>4, Zenon DEF AnswersAre, CallsOK
  <2>2. HeldBy(d)
    BY DEF Held
  <2>3. ASSUME NEW i \in Ids, NEW f \in Fields, named'[i][f] = {<<d, call[d].n>>}
        PROVE  named[i][f] = {<<d, call[d].n>>}
    <3>1. <<c, l.n>> # <<d, call[d].n>>
      BY <1>4
    <3>2. <<c, l.n>> \notin named'[i][f]
      BY <2>3, <3>1
    <3> QED
      BY <2>3, <3>2
  <2>4. ASSUME Carried(d)'
        PROVE  Holds(d, call'[d], subscriptions', named')
    <3>1. Holds(d, call[d], subscriptions, named)
      BY <2>1, <2>2, <2>4, Zenon DEF HeldBy, Carried
    <3> QED
      BY <2>1, <2>3, <3>1 DEF Holds
  <2> QED
    BY <2>4, HeldByNext
<1> QED
  BY <1>1, <1>3, <1>4, Zenon DEF Held

LEMMA ChangeInit == ManagementInit => ChangeInv
<1> SUFFICES ASSUME ManagementInit
             PROVE  OrderOK /\ SubscriptionsOK /\ NamedOK /\ AnswersAre /\ Held
  BY RequestsInit DEF ChangeInv
<1>1. Fresh \in [Fields -> Values]
  BY DEF Fresh, Values
<1>2. OrderOK /\ SubscriptionsOK /\ NamedOK /\ AnswersAre
  BY <1>1 DEF ManagementInit, OrderOK, SubscriptionsOK, NamedOK, AnswersAre
<1>3. NotYet.answer = None
  BY DEF NotYet
<1>4. \A c \in Callers: ~Carried(c)
  BY <1>3 DEF ManagementInit, Carried
<1> QED
  BY <1>2, <1>4, Zenon DEF Held, HeldBy

(* An outcome is that of the answer it was made from. *)
LEMMA OutcomeOfAnswer ==
    ASSUME NEW op, NEW a
    PROVE  Outcome(op, Request(op, a)).answer = a
<1>1. ASSUME NEW how, NEW what
      PROVE  Outcome(op, [how |-> how, what |-> what, answer |-> a]).answer = a
  BY DEF Outcome
<1>2. \E how, what: Request(op, a) = [how |-> how, what |-> what, answer |-> a]
  BY Zenon DEF Request, Error, Parsed, Returns, Escapes, RaisesTyped
<1> QED
  BY <1>1, <1>2, Zenon

LEMMA ChangeStep == ChangeInv /\ [ManagementNext]_managementVars => ChangeInv'
<1> SUFFICES ASSUME ChangeInv, [ManagementNext]_managementVars
             PROVE  SubscriptionsOK' /\ NamedOK' /\ AnswersAre' /\ Held'
  BY RequestsStep, OrderStep DEF ChangeInv
<1> DEFINE Goal == SubscriptionsOK' /\ NamedOK' /\ AnswersAre' /\ Held'
<1>0. ChangeInv /\ CallsOK /\ WireOK /\ SubscriptionsOK /\ NamedOK /\ AnswersAre /\ Held
  BY DEF ChangeInv
<1>1. ASSUME NEW c \in Callers, NEW op \in Ops, NEW id \in Ids \cup {None},
             NEW given \in Arguments, Send(c, op, id, given)
      PROVE  Goal
  <2> DEFINE l == [n |-> call[c].n + 1, waits |-> TRUE, op |-> op, id |-> id, given |-> given]
             r == RequestOf(c, l)
  <2>1. /\ call' = [call EXCEPT ![c] = l] /\ call'[c] = l
        /\ answer' = [answer EXCEPT ![c] = None]
        /\ result' = [result EXCEPT ![c] = NotYet]
        /\ UNCHANGED subscriptions
    BY <1>0, <1>1 DEF Send, CallsOK
  <2>2. wire' = wire \cup {r} /\ named' = Naming(c, l)
    BY <1>1, <2>1, Zenon DEF Send
  <2>3. l \in Calls
    BY <1>0 DEF CallsOK, Calls
  <2>4. r.by = c /\ r.n = l.n /\ r.op = l.op /\ r.id = l.id
    BY RequestFields
  <2> HIDE DEF l
  <2>5. \A i \in Ids, f \in Fields:
            named'[i][f] = IF l.id = i /\ Changes(l)[f] # None
                           THEN named[i][f] \cup {<<c, l.n>>} ELSE named[i][f]
    BY <2>2 DEF Naming
  <2>6. named' = [i \in Ids |-> [f \in Fields |-> named'[i][f]]]
    BY <2>2 DEF Naming
  <2>7. ASSUME NEW i \in Ids, NEW f \in Fields, r.id = i, Touches(r, f)
        PROVE  <<r.by, r.n>> \in named'[i][f]
    <3>1. l.op \in Changing
      BY <2>4, <2>7 DEF Touches, Changing
    <3>2. Changes(l)[f] # None
      BY <2>3, <2>7, <3>1, RequestChanges
    <3> QED
      BY <2>4, <2>5, <2>7, <3>2
  <2> HIDE DEF r
  <2>8. NamedOK'
    <3>1. ASSUME NEW q \in wire', NEW i \in Ids, NEW f \in Fields, q.id = i, Touches(q, f)
          PROVE  <<q.by, q.n>> \in named'[i][f]
      <4>1. CASE q \in wire
        BY <1>0, <2>5, <3>1, <4>1 DEF NamedOK
      <4>2. CASE q = r
        BY <2>7, <3>1, <4>2
      <4> QED
        BY <2>2, <4>1, <4>2
    <3> QED
      BY <2>6, <3>1, Zenon DEF NamedOK, Touches
  <2>9. NotYet.answer = None
    BY DEF NotYet
  <2>10. \A i \in Ids, f \in Fields:
             /\ named[i][f] \subseteq named'[i][f]
             /\ named'[i][f] \subseteq named[i][f] \cup {<<c, l.n>>}
    BY <2>5
  <2>11. AnswersAre' /\ Held'
    BY <1>0, <2>1, <2>9, <2>10, CallerKeepsChanges
  <2>12. SubscriptionsOK'
    BY <1>0, <2>1 DEF SubscriptionsOK
  <2> QED
    BY <2>8, <2>11, <2>12
<1>2. ASSUME UNCHANGED <<subscriptions, named, wire>>
      PROVE  SubscriptionsOK' /\ NamedOK'
  BY <1>0, <1>2 DEF SubscriptionsOK, NamedOK, Touches
<1>3. ASSUME NEW c \in Callers, CallClosed(c)
      PROVE  Goal
  <2> DEFINE l == [NoCall EXCEPT !.n = call[c].n + 1]
             r == Escapes("RuntimeError", None)
  <2>1. /\ call' = [call EXCEPT ![c] = l] /\ result' = [result EXCEPT ![c] = r]
        /\ UNCHANGED <<subscriptions, wire, answer, named>>
    BY <1>3 DEF CallClosed, historyVars
  <2>2. answer' = [answer EXCEPT ![c] = answer[c]]
    BY <1>0, <2>1, Zenon DEF AnswersAre
  <2>3. \A f \in Fields: Changes(l)[f] = None
    BY DEF Changes, NoCall, NotGiven
  <2> HIDE DEF l, r
  <2>4. AnswersAre' /\ Held'
    BY <1>0, <2>1, <2>2, <2>3, CallerKeepsChanges
  <2> QED
    BY <1>2, <2>1, <2>4
<1>4. ASSUME NEW c \in Callers, NEW r, End(c, r), UNCHANGED wire,
             r.answer = None \/ r.answer = answer[c]
      PROVE  Goal
  <2> DEFINE l == [call[c] EXCEPT !.waits = FALSE]
  <2>1. /\ call' = [call EXCEPT ![c] = l] /\ result' = [result EXCEPT ![c] = r]
        /\ answer' = [answer EXCEPT ![c] = None]
        /\ UNCHANGED <<subscriptions, wire, named>>
    BY <1>4 DEF End
  <2>2. l.n = call[c].n /\ l.id = call[c].id /\ l.op = call[c].op /\ l.given = call[c].given
    BY <1>0 DEF CallsOK, Calls
  <2> HIDE DEF l
  <2>3. Changes(l) = Changes(call[c])
    BY <2>2 DEF Changes
  <2>4. (r.answer # None => r.answer.body # "data") \/ Carried(c)
    BY <1>4, Zenon DEF Carried
  <2>5. AnswersAre' /\ Held'
    BY <1>0, <2>1, <2>2, <2>3, <2>4, CallerKeepsChanges
  <2> QED
    BY <1>2, <2>1, <2>5
<1>5. ASSUME NEW c \in Callers, Receive(c)
      PROVE  Goal
  BY <1>4, <1>5, OutcomeOfAnswer, Zenon DEF Receive
<1>6. ASSUME NEW c \in Callers, GiveUp(c) \/ CutOff(c)
      PROVE  Goal
  <2>1. Outcome(call[c].op, ConnectionError).answer = None
    BY DEF Outcome, ConnectionError, RaisesTyped
  <2>2. Escapes("RuntimeError", None).answer = None
    BY DEF Escapes
  <2> QED
    BY <1>4, <1>6, <2>1, <2>2, Zenon DEF GiveUp, CutOff
<1>7. ASSUME NEW c \in Callers, NEW a \in Foreign, Intervene(c, a)
      PROVE  Goal
  <2>1. /\ answer[c] = None /\ answer' = [answer EXCEPT ![c] = a]
        /\ UNCHANGED <<call, result, subscriptions, wire, named>>
    BY <1>7 DEF Intervene, historyVars
  <2>2. a.body # "data"
    BY DEF Foreign
  <2>3. /\ call' = [call EXCEPT ![c] = call[c]] /\ result' = [result EXCEPT ![c] = result[c]]
    BY <1>0, <2>1, Zenon DEF AnswersAre, CallsOK
  <2>4. (result[c].answer # None => result[c].answer.body # "data") \/ Carried(c)
    BY Zenon DEF Carried
  <2>5. AnswersAre' /\ Held'
    BY <1>0, <2>1, <2>2, <2>3, <2>4, CallerKeepsChanges
  <2> QED
    BY <1>2, <2>1, <2>5
<1>8. ASSUME UNCHANGED <<subscriptions, wire, call, answer, result, named>>
      PROVE  Goal
  <2>1. AnswersAre'
    BY <1>0, <1>8, Zenon DEF AnswersAre
  <2>2. ASSUME NEW c \in Callers
        PROVE  HeldBy(c)'
    <3>1. Carried(c)' => Holds(c, call[c], subscriptions, named)
      BY <1>0, <1>8, Zenon DEF Held, HeldBy, Carried
    <3> QED
      BY <1>8, <3>1, HeldByNext, Zenon
  <2> QED
    BY <1>2, <1>8, <2>1, <2>2, Zenon DEF Held
<1>9. ASSUME Close \/ UNCHANGED managementVars
      PROVE  Goal
  BY <1>8, <1>9, Zenon DEF Close, managementVars, clientVars, historyVars
<1>10. ASSUME NEW r \in wire,
              \/ Emit(r) \/ Update(r) \/ Deactivate(r) \/ Look(r)
              \/ \E e \in Refusals: Refuse(r, e)
              \/ \E i \in Ids: Create(r, i)
       PROVE  Goal
  BY <1>0, <1>10, EngineEffect, EngineKeepsChanges
<1> HIDE DEF Goal
<1>11. Goal
  BY <1>1, <1>3, <1>5, <1>6, <1>7, <1>9, <1>10, ManagementSteps, Zenon
<1> QED
  BY <1>11, Zenon DEF Goal

(* Whatever requests of whichever callers come late, overtake each other, are *)
(* refused or are lost: a change that the engine has answered is undone by no *)
(* call that did not ask for its field (client.py:220-226).                   *)
THEOREM ManagementChangesHold == ManagementSpec => []ChangesHold
<1>1. ChangeInv => ChangesHold
  <2> SUFFICES ASSUME ChangeInv, NEW c \in Callers, Carried(c), NEW f \in Fields,
                      Changes(call[c])[f] # None, named[call[c].id][f] = {<<c, call[c].n>>}
               PROVE  subscriptions[call[c].id][f] = Changes(call[c])[f]
    BY Zenon DEF ChangesHold
  <2>1. /\ call[c] \in Calls
        /\ call[c].op \in Changing => call[c].id \in Ids
    BY DEF ChangeInv, CallsOK
  <2>2. call[c].op \in Changing
    BY <2>1, ChangesOf
  <2>3. Holds(c, call[c], subscriptions, named)
    BY DEF ChangeInv, Held, HeldBy
  <2> QED
    BY <2>1, <2>2, <2>3, Zenon DEF Holds
<1> QED
  BY <1>1, ChangeInit, ChangeStep, PTL DEF ManagementSpec

-----------------------------------------------------------------------------
(* Answers and errors. *)

(* The engine's errors give the class of their status, or one below.         *)
IsReply(a) ==
    /\ a.status \in Nat
    /\ a.status >= 400 /\ a.body = "error" =>
           Family(BuildError(a.status, a.code)) = StatusFallback(a.status)

(* No class that stands for a status is below another one. *)
LEMMA StatusOfItself ==
    ASSUME NEW status \in Nat
    PROVE  Family(StatusFallback(status)) = StatusFallback(status)
BY DEF Family, Base, StatusFallback

LEMMA RepliesAreSo ==
    /\ \A ids: IsReply(Data(ids))
    /\ \A e \in Refusals: IsReply(Envelope(e))
    /\ \A a \in Foreign: IsReply(a)
<1>1. ASSUME NEW ids
      PROVE  IsReply(Data(ids))
  <2>1. Data(ids).status = 200
    BY DEF Data
  <2> QED
    BY <2>1 DEF IsReply
<1>2. ASSUME NEW e \in Refusals
      PROVE  IsReply(Envelope(e))
  <2>1. Envelope(e).status = e[1] /\ Envelope(e).code = e[2]
    BY DEF Envelope
  <2>2. e[1] \in Nat
    BY ManagementAssumption
  <2>3. Family(BuildError(e[1], e[2])) = StatusFallback(e[1])
    BY <2>2, StatusOfItself, RefusalsAssumption, Zenon DEF BuildError
  <2> QED
    BY <2>1, <2>2, <2>3, Zenon DEF IsReply
<1>3. ASSUME NEW a \in Foreign
      PROVE  IsReply(a)
  <2>1. a.status \in {200, 502} /\ a.body # "error"
    BY DEF Foreign
  <2>2. {200, 502} \subseteq Nat
    OBVIOUS
  <2> QED
    BY <2>1, <2>2, Zenon DEF IsReply
<1> QED
  BY <1>1, <1>2, <1>3

(* The parts of the outcomes. *)
LEMMA Outcomes ==
    ASSUME NEW what, NEW a
    PROVE  /\ Returns(a).how = "returns" /\ Returns(a).answer = a
           /\ Escapes(what, a).how = "escapes" /\ Escapes(what, a).answer = a
           /\ RaisesTyped(what, a).how = "raises" /\ RaisesTyped(what, a).answer = a
           /\ RaisesTyped(what, a).what = what
BY DEF Returns, Escapes, RaisesTyped

(* An answer of 400 and more is raised as its status's, or leaves the call as *)
(* an exception that is not the SDK's.                                        *)
LEMMA ErrorShape ==
    ASSUME NEW a, IsReply(a), a.status >= 400
    PROVE  \/ \E what: Error(a) = Escapes(what, a)
           \/ \E class: /\ Error(a) = RaisesTyped(class, a)
                        /\ Family(class) = StatusFallback(a.status)
<1>1. CASE a.body \in {"no object", "nested error"}
  BY <1>1, Zenon DEF Error
<1>2. CASE a.body \notin {"no object", "nested error", "error"}
  <2>1. "unknown_error" \notin DOMAIN CodeMap
    BY DEF CodeMap
  <2>2. BuildError(a.status, "unknown_error") = StatusFallback(a.status)
    BY <2>1, Zenon DEF BuildError
  <2>3. Error(a) = RaisesTyped(StatusFallback(a.status), a)
    BY <1>2, <2>2 DEF Error
  <2>4. Family(StatusFallback(a.status)) = StatusFallback(a.status)
    BY StatusOfItself DEF IsReply
  <2> QED
    BY <2>3, <2>4, Zenon
<1>3. CASE a.body = "error"
  <2>1. Error(a) = RaisesTyped(BuildError(a.status, a.code), a)
    BY <1>3 DEF Error
  <2>2. Family(BuildError(a.status, a.code)) = StatusFallback(a.status)
    BY <1>3 DEF IsReply
  <2> QED
    BY <2>1, <2>2, Zenon
<1> QED
  BY <1>1, <1>2, <1>3

(* How a call ended: an error that was raised is its answer's.               *)
Faithful(r) ==
    /\ r.how = "raises" => \E class, a: r = RaisesTyped(class, a)
    /\ r.how = "raises" /\ r.answer # None =>
           Family(r.what) = StatusFallback(r.answer.status)

LEMMA RequestIsFaithful ==
    ASSUME NEW op, NEW a, IsReply(a)
    PROVE  Faithful(Request(op, a))
<1>1. ASSUME NEW what
      PROVE  Faithful(Escapes(what, a)) /\ Faithful(Returns(a))
  BY Outcomes DEF Faithful
<1>2. CASE ~(a.status >= 400)
  <2>1. \/ Request(op, a) = Returns(a)
        \/ \E what: Request(op, a) = Escapes(what, a)
    BY <1>2, Zenon DEF Request, Parsed
  <2> QED
    BY <1>1, <2>1
<1>3. CASE a.status >= 400
  <2>1. Request(op, a) = Error(a)
    BY <1>3, Zenon DEF Request
  <2>2. ASSUME NEW class, Error(a) = RaisesTyped(class, a),
               Family(class) = StatusFallback(a.status)
        PROVE  Faithful(Request(op, a))
    BY <2>1, <2>2, Outcomes DEF Faithful
  <2> QED
    BY <1>1, <1>3, <2>1, <2>2, ErrorShape, Zenon
<1> QED
  BY <1>2, <1>3

LEMMA OutcomeIsFaithful ==
    ASSUME NEW op, NEW r, Faithful(r)
    PROVE  Faithful(Outcome(op, r))
<1>1. CASE op = "health" /\ r.how = "raises"
  <2>1. PICK class, a: r = RaisesTyped(class, a)
    BY <1>1, Zenon DEF Faithful
  <2>2. [r EXCEPT !.how = "returns", !.what = "False"].how = "returns"
    BY <2>1 DEF RaisesTyped
  <2>3. Outcome(op, r).how = "returns"
    BY <1>1, <2>2, Zenon DEF Outcome
  <2> QED
    BY <2>3 DEF Faithful
<1>2. CASE ~(op = "health" /\ r.how = "raises")
  BY <1>2, Zenon DEF Outcome
<1> QED
  BY <1>1, <1>2, Zenon

AnswersInv ==
    /\ answer = [c \in Callers |-> answer[c]]
    /\ result = [c \in Callers |-> result[c]]
    /\ \A c \in Callers: answer[c] # None => IsReply(answer[c])
    /\ \A c \in Callers: Faithful(result[c])

LEMMA AnswersNext ==
    ASSUME answer' = [c \in Callers |-> answer'[c]],
           \A c \in Callers: answer'[c] # None => IsReply(answer'[c]),
           result' = [c \in Callers |-> result'[c]],
           \A c \in Callers: Faithful(result'[c])
    PROVE  AnswersInv'
BY DEF AnswersInv, IsReply, Faithful

LEMMA AnswersInit == ManagementInit => AnswersInv
<1>1. NotYet.how = "not yet"
  BY DEF NotYet
<1>2. Faithful(NotYet)
  BY <1>1 DEF Faithful
<1> QED
  BY <1>2 DEF ManagementInit, AnswersInv

LEMMA AnswersStep ==
    WireOK /\ AnswersInv /\ [ManagementNext]_managementVars => AnswersInv'
<1> SUFFICES ASSUME WireOK, AnswersInv, [ManagementNext]_managementVars
             PROVE  AnswersInv'
  OBVIOUS
(* A step that ends no call. *)
<1>1. ASSUME UNCHANGED result,
             \/ UNCHANGED answer
             \/ \E c \in Callers: \E a:
                    answer' = [answer EXCEPT ![c] = a] /\ (a # None => IsReply(a))
      PROVE  AnswersInv'
  <2>1. /\ answer' = [c \in Callers |-> answer'[c]]
        /\ \A c \in Callers: answer'[c] # None => IsReply(answer'[c])
    <3>1. CASE UNCHANGED answer
      BY <3>1 DEF AnswersInv
    <3>2. ASSUME NEW c \in Callers, NEW a, answer' = [answer EXCEPT ![c] = a],
                 a # None => IsReply(a)
          PROVE  <2>1
      BY <3>2, Zenon DEF AnswersInv
    <3> QED
      BY <1>1, <3>1, <3>2, Zenon
  <2>2. /\ result' = [c \in Callers |-> result'[c]]
        /\ \A c \in Callers: Faithful(result'[c])
    BY <1>1, Zenon DEF AnswersInv
  <2> QED
    BY <2>1, <2>2, AnswersNext
(* A step that sets a caller's result, and leaves it no answer. *)
<1>2. ASSUME NEW c \in Callers, NEW r, Faithful(r),
             answer' = [answer EXCEPT ![c] = None] \/ UNCHANGED answer,
             result' = [result EXCEPT ![c] = r]
      PROVE  AnswersInv'
  <2>1. /\ answer' = [d \in Callers |-> answer'[d]]
        /\ \A d \in Callers: answer'[d] # None => IsReply(answer'[d])
    BY <1>2, Zenon DEF AnswersInv
  <2>2. /\ result' = [d \in Callers |-> result'[d]]
        /\ \A d \in Callers: Faithful(result'[d])
    BY <1>2, Zenon DEF AnswersInv
  <2> QED
    BY <2>1, <2>2, AnswersNext
<1>3. ASSUME NEW c \in Callers, NEW op, NEW id, NEW given, Send(c, op, id, given)
      PROVE  AnswersInv'
  <2>1. NotYet.how = "not yet"
    BY DEF NotYet
  <2>2. Faithful(NotYet)
    BY <2>1 DEF Faithful
  <2> QED
    BY <1>2, <1>3, <2>2, Zenon DEF Send
<1>4. ASSUME NEW c \in Callers, CallClosed(c) \/ CutOff(c)
      PROVE  AnswersInv'
  <2>1. Faithful(Escapes("RuntimeError", None))
    BY Outcomes DEF Faithful
  <2> QED
    BY <1>2, <1>4, <2>1, Zenon DEF CallClosed, CutOff, End
<1>5. ASSUME NEW c \in Callers, Receive(c)
      PROVE  AnswersInv'
  <2>1. answer[c] # None /\ IsReply(answer[c])
    BY <1>5, Zenon DEF Receive, AnswersInv
  <2>2. Faithful(Outcome(call[c].op, Request(call[c].op, answer[c])))
    BY <2>1, RequestIsFaithful, OutcomeIsFaithful, Zenon
  <2> QED
    BY <1>2, <1>5, <2>2, Zenon DEF Receive, End
<1>6. ASSUME NEW c \in Callers, GiveUp(c)
      PROVE  AnswersInv'
  <2>1. Faithful(ConnectionError)
    BY Outcomes DEF Faithful, ConnectionError
  <2>2. Faithful(Outcome(call[c].op, ConnectionError))
    BY <2>1, OutcomeIsFaithful, Zenon
  <2> QED
    BY <1>2, <1>6, <2>2, Zenon DEF GiveUp, End
<1>7. ASSUME NEW c \in Callers, NEW a \in Foreign, Intervene(c, a)
      PROVE  AnswersInv'
  BY <1>1, <1>7, RepliesAreSo, Zenon DEF Intervene
<1>8. ASSUME Close \/ UNCHANGED managementVars
      PROVE  AnswersInv'
  BY <1>1, <1>8, Zenon DEF Close, managementVars, clientVars
<1>9. ASSUME NEW r \in wire, NEW a, Answered(r, a), IsReply(a)
      PROVE  AnswersInv'
  <2>1. r.by \in Callers
    BY DEF WireOK
  <2> QED
    BY <1>1, <1>9, <2>1, Zenon DEF Answered
<1>10. ASSUME NEW r \in wire,
              \/ Emit(r) \/ Update(r) \/ Deactivate(r) \/ Look(r)
              \/ \E e \in Refusals: Refuse(r, e)
              \/ \E i \in Ids: Create(r, i)
       PROVE  \E a: Answered(r, a) /\ IsReply(a)
  BY <1>10, RepliesAreSo, Zenon DEF Emit, Update, Deactivate, Look, Refuse, Create
<1> QED
  BY <1>3, <1>4, <1>5, <1>6, <1>7, <1>8, <1>9, <1>10, ManagementSteps, Zenon

LEMMA AnswersAlways == ManagementSpec => []AnswersInv
<1>1. ManagementInit => CallsOK /\ WireOK /\ AnswersInv
  BY RequestsInit, AnswersInit
<1>2. CallsOK /\ WireOK /\ AnswersInv /\ [ManagementNext]_managementVars
          => CallsOK' /\ WireOK' /\ AnswersInv'
  BY RequestsStep, AnswersStep
<1> QED
  BY <1>1, <1>2, PTL DEF ManagementSpec

(* CaughtByFamily for any refusals of an engine that answers each code of the *)
(* SDK's with the status it belongs to (RefusalsAssumption).  That assumption *)
(* is all there is to say of those codes; what is left is that any other code *)
(* falls back on its status, and that no answer is another call's.            *)
LEMMA ManagementCaughtByFamily == ManagementSpec => []CaughtByFamily
<1>1. AnswersInv => CaughtByFamily
  BY Zenon DEF AnswersInv, Faithful, CaughtByFamily
<1> QED
  BY <1>1, AnswersAlways, PTL

-----------------------------------------------------------------------------
(* Additions.  What the engine may still add for a caller, and an error that *)
(* will tell it that nothing was added, are paid for by what it was told and *)
(* by its open call.                                                         *)
Pending(c) == {r \in wire: r.by = c /\ r.op \in Additions}
Open(c) == IF call[c].waits /\ call[c].op \in Additions THEN 1 ELSE 0
Denied(c) ==
    IF call[c].waits /\ call[c].op \in Additions /\ answer[c] # None /\ answer[c].body = "error"
    THEN 1 ELSE 0

CountsOK ==
    /\ IsFiniteSet(wire)
    /\ made \in [Callers -> Nat] /\ told \in [Callers -> Nat]
    /\ answer = [c \in Callers |-> answer[c]]

Budget == \A c \in Callers: made[c] + Cardinality(Pending(c)) + Denied(c) <= told[c] + Open(c)

MadeInv == CallsOK /\ WireOK /\ OrderOK /\ CountsOK /\ Budget

LEMMA PendingFinite ==
    ASSUME CountsOK
    PROVE  \A c: IsFiniteSet(Pending(c)) /\ Cardinality(Pending(c)) \in Nat
BY FS_Subset, FS_CardinalityType DEF CountsOK, Pending

(* A request leaves the wire. *)
LEMMA PendingLess ==
    ASSUME CountsOK, NEW r \in wire, wire' = wire \ {r}, NEW c
    PROVE  /\ IsFiniteSet(wire')
           /\ Cardinality(Pending(c)') \in Nat
           /\ Cardinality(Pending(c)') <= Cardinality(Pending(c))
           /\ r \in Pending(c) => Cardinality(Pending(c)') = Cardinality(Pending(c)) - 1
<1>1. IsFiniteSet(wire')
  BY FS_Subset DEF CountsOK
<1>2. Pending(c)' = Pending(c) \ {r}
  BY DEF Pending
<1>3. IsFiniteSet(Pending(c)) /\ Cardinality(Pending(c)) \in Nat
  BY PendingFinite
<1>4. Cardinality(Pending(c) \ {r}) = IF r \in Pending(c) THEN Cardinality(Pending(c)) - 1
                                                        ELSE Cardinality(Pending(c))
  BY <1>3, FS_RemoveElement, Zenon
<1>5. Cardinality(Pending(c)') \in Nat
  BY <1>2, <1>3, FS_Subset, FS_CardinalityType
<1> QED
  BY <1>1, <1>2, <1>3, <1>4, <1>5

(* A request is put on the wire. *)
LEMMA PendingMore ==
    ASSUME CountsOK, NEW r, wire' = wire \cup {r}, NEW c
    PROVE  /\ IsFiniteSet(wire')
           /\ Cardinality(Pending(c)') \in Nat
           /\ r.by = c /\ r.op \in Additions =>
                  Cardinality(Pending(c)') <= Cardinality(Pending(c)) + 1
           /\ ~(r.by = c /\ r.op \in Additions) => Pending(c)' = Pending(c)
<1>1. IsFiniteSet(wire')
  BY FS_AddElement DEF CountsOK
<1>2. IsFiniteSet(Pending(c)) /\ Cardinality(Pending(c)) \in Nat
  BY PendingFinite
<1>3. CASE r.by = c /\ r.op \in Additions
  <2>1. Pending(c)' = Pending(c) \cup {r}
    BY <1>3 DEF Pending
  <2>2. Cardinality(Pending(c) \cup {r}) = IF r \in Pending(c) THEN Cardinality(Pending(c))
                                                        ELSE Cardinality(Pending(c)) + 1
    BY <1>2, FS_AddElement, Zenon
  <2>3. Cardinality(Pending(c)') \in Nat
    BY <1>2, <2>1, <2>2
  <2> QED
    BY <1>1, <1>2, <1>3, <2>1, <2>2, <2>3
<1>4. CASE ~(r.by = c /\ r.op \in Additions)
  <2>1. Pending(c)' = Pending(c)
    BY <1>4 DEF Pending
  <2> QED
    BY <1>1, <1>2, <1>4, <2>1
<1> QED
  BY <1>3, <1>4

LEMMA MadeInit == ManagementInit => MadeInv
<1> SUFFICES ASSUME ManagementInit
             PROVE  OrderOK /\ CountsOK /\ Budget
  BY RequestsInit DEF MadeInv
<1>1. wire = {}
  BY DEF ManagementInit
<1>2. \A c: Cardinality(Pending(c)) = 0
  BY <1>1, FS_EmptySet DEF Pending
<1>3. CountsOK
  BY <1>1, FS_EmptySet DEF ManagementInit, CountsOK
<1>4. ASSUME NEW c \in Callers
      PROVE  made[c] = 0 /\ told[c] = 0 /\ Denied(c) = 0 /\ Open(c) = 0
  BY DEF ManagementInit, Denied, Open, NoCall
<1>5. Budget
  BY <1>2, <1>4 DEF Budget
<1> QED
  BY <1>1, <1>3, <1>5 DEF OrderOK

LEMMA NumbersOK ==
    ASSUME CountsOK, NEW c \in Callers
    PROVE  /\ made[c] \in Nat /\ told[c] \in Nat /\ Cardinality(Pending(c)) \in Nat
           /\ Denied(c) \in 0..1 /\ Open(c) \in 0..1
BY PendingFinite DEF CountsOK, Denied, Open

(* A step of the engine: a request leaves the wire, and what is added for it *)
(* is answered with what was added.                                          *)
LEMMA EngineKeepsBudget ==
    ASSUME CallsOK, WireOK, OrderOK, CountsOK, Budget,
           NEW r \in wire, NEW a, Answered(r, a), UNCHANGED told,
           \/ UNCHANGED made
           \/ /\ r.op \in Additions /\ a.body # "error"
              /\ made' = [made EXCEPT ![r.by] = @ + 1]
    PROVE  CountsOK' /\ Budget'
<1>1. r.by \in Callers
  BY DEF WireOK
<1>2. /\ wire' = wire \ {r} /\ UNCHANGED call
      /\ answer' = IF Expected(r) THEN [answer EXCEPT ![r.by] = a] ELSE answer
  BY DEF Answered
<1>3. CountsOK'
  <2>1. IsFiniteSet(wire')
    BY <1>2, PendingLess
  <2>2. made' \in [Callers -> Nat]
    BY DEF CountsOK
  <2>3. answer' = [c \in Callers |-> answer'[c]]
    <3>1. answer = [c \in Callers |-> answer[c]]
      BY DEF CountsOK
    <3> QED
      BY <1>2, <3>1, Zenon
  <2> QED
    BY <2>1, <2>2, <2>3 DEF CountsOK
<1>4. ASSUME NEW d \in Callers
      PROVE  made'[d] + Cardinality(Pending(d)') + Denied(d)' <= told'[d] + Open(d)'
  <2> DEFINE less == Cardinality(Pending(d)')
  <2> HIDE DEF less
  <2>1. /\ made[d] \in Nat /\ told[d] \in Nat /\ Cardinality(Pending(d)) \in Nat
        /\ Denied(d) \in 0..1 /\ Open(d) \in 0..1
    BY NumbersOK
  <2>2. /\ less \in Nat /\ less <= Cardinality(Pending(d))
        /\ r \in Pending(d) => less = Cardinality(Pending(d)) - 1
    BY <1>2, PendingLess, Zenon DEF less
  <2>3. Open(d)' = Open(d) /\ told'[d] = told[d]
    BY <1>2, Zenon DEF Open
  <2>4. made[d] + Cardinality(Pending(d)) + Denied(d) <= told[d] + Open(d)
    BY DEF Budget
  <2>5. r.by = d /\ r.op \in Additions => r \in Pending(d)
    BY DEF Pending
  <2>6. \/ made'[d] = made[d]
        \/ made'[d] = made[d] + 1 /\ r \in Pending(d) /\ a.body # "error"
    BY <1>1, <2>5 DEF CountsOK
  <2>7. \/ Denied(d)' = Denied(d)
        \/ Denied(d) = 0 /\ r \in Pending(d) /\ Denied(d)' = 1 /\ a.body = "error"
        \/ Denied(d)' = 0
    <3>1. CASE answer'[d] = answer[d]
      BY <1>2, <3>1, Zenon DEF Denied
    <3>2. CASE answer'[d] # answer[d]
      <4>1. Expected(r) /\ r.by = d /\ answer'[d] = a
        BY <1>2, <3>2, Zenon DEF CountsOK
      <4>2. answer[d] = None /\ call[d].n = r.n
        BY <4>1, Zenon DEF Expected
      <4>3. Denied(d) = 0
        BY <4>2, Zenon DEF Denied
      <4>4. r.op = call[d].op
        BY <4>1, <4>2, RequestFields DEF OrderOK
      <4>5. call[d].op \in Additions => r \in Pending(d)
        BY <2>5, <4>1, <4>4, Zenon
      <4> QED
        BY <1>2, <4>1, <4>3, <4>5, Zenon DEF Denied
    <3> QED
      BY <3>1, <3>2
  <2>8. made'[d] + less + Denied(d)' <= told'[d] + Open(d)'
    <3> DEFINE before == Cardinality(Pending(d))
               deniedThen == Denied(d)'
               openThen == Open(d)'
    <3> HIDE DEF before, deniedThen, openThen
    <3>1. /\ before \in Nat /\ less \in Nat /\ less <= before
          /\ r \in Pending(d) => less = before - 1
          /\ made[d] + before + Denied(d) <= told[d] + Open(d)
          /\ openThen = Open(d)
      BY <2>1, <2>2, <2>3, <2>4 DEF before, openThen
    <3>2. \/ deniedThen = Denied(d)
          \/ Denied(d) = 0 /\ r \in Pending(d) /\ deniedThen = 1 /\ a.body = "error"
          \/ deniedThen = 0
      BY <2>7 DEF deniedThen
    <3>3. made'[d] + less + deniedThen <= told'[d] + openThen
      BY <2>1, <2>3, <2>6, <3>1, <3>2
    <3> QED
      BY <3>3 DEF deniedThen, openThen
  <2> QED
    BY <2>8 DEF less
<1> QED
  BY <1>3, <1>4 DEF Budget

(* The end of a call: what denies an addition is the engine's own error.     *)
LEMMA EndKeepsBudget ==
    ASSUME CallsOK, CountsOK, Budget, NEW c \in Callers, NEW r,
           call[c].waits, End(c, r), UNCHANGED wire,
           r.answer = None \/ r.answer = answer[c]
    PROVE  CountsOK' /\ Budget'
<1>1. /\ call' = [call EXCEPT ![c].waits = FALSE]
      /\ answer' = [answer EXCEPT ![c] = None]
      /\ told' = IF call[c].op \in Additions /\ (r.answer = None \/ r.answer.body # "error")
                 THEN [told EXCEPT ![c] = @ + 1] ELSE told
      /\ UNCHANGED made
  BY DEF End
<1>2. CountsOK'
  <2>1. told' \in [Callers -> Nat]
    BY <1>1 DEF CountsOK
  <2>2. answer' = [d \in Callers |-> answer'[d]]
    BY <1>1, Zenon DEF CountsOK
  <2> QED
    BY <1>1, <2>1, <2>2 DEF CountsOK
<1>3. \A d: Pending(d)' = Pending(d)
  BY DEF Pending
<1>4. ASSUME NEW d \in Callers
      PROVE  made'[d] + Cardinality(Pending(d)') + Denied(d)' <= told'[d] + Open(d)'
  <2>1. /\ made[d] \in Nat /\ told[d] \in Nat /\ Cardinality(Pending(d)) \in Nat
        /\ Denied(d) \in 0..1 /\ Open(d) \in 0..1
    BY NumbersOK
  <2>2. made[d] + Cardinality(Pending(d)) + Denied(d) <= told[d] + Open(d)
    BY DEF Budget
  <2>3. CASE d # c
    <3>1. call'[d] = call[d] /\ answer'[d] = answer[d] /\ told'[d] = told[d]
      BY <1>1, <2>3, Zenon DEF CallsOK, CountsOK
    <3>2. Denied(d)' = Denied(d) /\ Open(d)' = Open(d)
      BY <3>1, Zenon DEF Denied, Open
    <3> QED
      BY <1>1, <1>3, <2>2, <3>1, <3>2, Zenon
  <2>4. CASE d = c
    <3>1. call'[d].waits = FALSE
      BY <1>1, <2>4 DEF CallsOK, Calls
    <3>2. Denied(d)' = 0 /\ Open(d)' = 0
      BY <3>1, Zenon DEF Denied, Open
    <3>3. told'[d] \in Nat /\ told'[d] >= told[d]
      BY <1>1, <2>4 DEF CountsOK
    <3>4. Open(d) = 0 \/ Denied(d) = 1 \/ told'[d] = told[d] + 1
      <4>1. CASE call[c].op \notin Additions
        BY <2>4, <4>1, Zenon DEF Open
      <4>2. CASE call[c].op \in Additions /\ ~(r.answer = None \/ r.answer.body # "error")
        BY <2>4, <4>2, Zenon DEF Denied
      <4>3. CASE call[c].op \in Additions /\ (r.answer = None \/ r.answer.body # "error")
        <5>1. told' = [told EXCEPT ![c] = @ + 1]
          BY <1>1, <4>3, Zenon
        <5> QED
          BY <2>4, <5>1 DEF CountsOK
      <4> QED
        BY <4>1, <4>2, <4>3, Zenon
    <3>5. made[d] + Cardinality(Pending(d)) <= told'[d]
      BY <2>1, <2>2, <3>3, <3>4
    <3>6. made'[d] + Cardinality(Pending(d)') = made[d] + Cardinality(Pending(d))
      BY <1>1, <1>3, Zenon
    <3> QED
      BY <2>1, <3>2, <3>3, <3>5, <3>6
  <2> QED
    BY <2>3, <2>4
<1> QED
  BY <1>2, <1>4 DEF Budget

(* A request is sent. *)
LEMMA SendKeepsBudget ==
    ASSUME CallsOK, CountsOK, Budget, NEW c \in Callers, NEW op, NEW id, NEW given,
           Send(c, op, id, given)
    PROVE  CountsOK' /\ Budget'
<1>1. /\ call' = [call EXCEPT ![c] = call'[c]]
      /\ call'[c].waits = TRUE /\ call'[c].op = op
      /\ answer' = [answer EXCEPT ![c] = None]
      /\ UNCHANGED <<made, told>>
      /\ ~call[c].waits
  BY DEF Send, MayCall, CallsOK, historyVars
<1> DEFINE r == RequestOf(c, call'[c])
<1>2. r.by = c /\ r.op = op
  BY <1>1 DEF RequestOf
<1>3. wire' = wire \cup {r}
  BY DEF Send
<1> HIDE DEF r
<1>4. CountsOK'
  <2>1. IsFiniteSet(wire')
    BY <1>3, PendingMore
  <2>2. answer' = [d \in Callers |-> answer'[d]]
    BY <1>1, Zenon DEF CountsOK
  <2> QED
    BY <1>1, <2>1, <2>2 DEF CountsOK
<1>5. ASSUME NEW d \in Callers
      PROVE  made'[d] + Cardinality(Pending(d)') + Denied(d)' <= told'[d] + Open(d)'
  <2>1. /\ made[d] \in Nat /\ told[d] \in Nat /\ Cardinality(Pending(d)) \in Nat
        /\ Denied(d) \in 0..1 /\ Open(d) \in 0..1
    BY NumbersOK
  <2>2. made[d] + Cardinality(Pending(d)) + Denied(d) <= told[d] + Open(d)
    BY DEF Budget
  <2>3. made'[d] = made[d] /\ told'[d] = told[d]
    BY <1>1
  <2>4. CASE d # c
    <3>1. call'[d] = call[d] /\ answer'[d] = answer[d]
      BY <1>1, <2>4, Zenon DEF CallsOK, CountsOK
    <3>2. Denied(d)' = Denied(d) /\ Open(d)' = Open(d)
      BY <3>1, Zenon DEF Denied, Open
    <3>3. Pending(d)' = Pending(d)
      BY <1>2, <1>3, <2>4, PendingMore
    <3> QED
      BY <2>2, <2>3, <3>2, <3>3, Zenon
  <2>5. CASE d = c
    <3>1. answer'[d] = None
      BY <1>1, <2>5, Zenon DEF CountsOK
    <3>2. Denied(d)' = 0 /\ Denied(d) = 0 /\ Open(d) = 0
      BY <1>1, <2>5, <3>1, Zenon DEF Denied, Open
    <3>3. /\ op \in Additions => Open(d)' = 1
          /\ op \notin Additions => Open(d)' = 0
      BY <1>1, <2>5, Zenon DEF Open
    <3>4. /\ Cardinality(Pending(d)') \in Nat
          /\ op \in Additions => Cardinality(Pending(d)') <= Cardinality(Pending(d)) + 1
          /\ op \notin Additions => Pending(d)' = Pending(d)
      BY <1>2, <1>3, <2>5, PendingMore
    <3> QED
      BY <2>1, <2>2, <2>3, <3>2, <3>3, <3>4
  <2> QED
    BY <2>4, <2>5
<1> QED
  BY <1>4, <1>5 DEF Budget

LEMMA MadeStep == MadeInv /\ [ManagementNext]_managementVars => MadeInv'
<1> SUFFICES ASSUME MadeInv, [ManagementNext]_managementVars
             PROVE  CountsOK' /\ Budget'
  BY RequestsStep, OrderStep DEF MadeInv
<1> USE DEF MadeInv
<1>1. ASSUME NEW c \in Callers, NEW op, NEW id, NEW given, Send(c, op, id, given)
      PROVE  CountsOK' /\ Budget'
  BY <1>1, SendKeepsBudget
(* A step that touches neither the wire nor what was counted. *)
<1>2. ASSUME UNCHANGED <<wire, made, told>>,
             answer' = [c \in Callers |-> answer'[c]],
             \A c \in Callers: Denied(c)' = Denied(c) /\ Open(c)' = Open(c)
      PROVE  CountsOK' /\ Budget'
  <2>1. \A c: Pending(c)' = Pending(c)
    BY <1>2 DEF Pending
  <2>2. CountsOK'
    BY <1>2, Zenon DEF CountsOK
  <2>3. Budget'
    BY <1>2, <2>1, Zenon DEF Budget
  <2> QED
    BY <2>2, <2>3
<1>3. ASSUME NEW c \in Callers, CallClosed(c)
      PROVE  CountsOK' /\ Budget'
  <2>1. /\ call' = [call EXCEPT ![c] = [NoCall EXCEPT !.n = call[c].n + 1]]
        /\ UNCHANGED <<wire, answer, made, told>> /\ ~call[c].waits
    BY <1>3 DEF CallClosed, MayCall, historyVars
  <2>2. call'[c].waits = FALSE
    BY <2>1 DEF CallsOK, NoCall
  <2>3. \A d \in Callers: d # c => call'[d] = call[d]
    BY <2>1, Zenon DEF CallsOK
  <2>4. \A d \in Callers: Denied(d)' = Denied(d) /\ Open(d)' = Open(d)
    BY <2>1, <2>2, <2>3, Zenon DEF Denied, Open
  <2>5. answer' = [d \in Callers |-> answer'[d]]
    BY <2>1, Zenon DEF CountsOK
  <2> QED
    BY <1>2, <2>1, <2>4, <2>5
<1>4. ASSUME NEW c \in Callers, Receive(c)
      PROVE  CountsOK' /\ Budget'
  BY <1>4, EndKeepsBudget, OutcomeOfAnswer, Zenon DEF Receive
<1>5. ASSUME NEW c \in Callers, GiveUp(c) \/ CutOff(c)
      PROVE  CountsOK' /\ Budget'
  <2>1. Outcome(call[c].op, ConnectionError).answer = None
    BY DEF Outcome, ConnectionError, RaisesTyped
  <2>2. Escapes("RuntimeError", None).answer = None
    BY DEF Escapes
  <2> QED
    BY <1>5, <2>1, <2>2, EndKeepsBudget, Zenon DEF GiveUp, CutOff
<1>6. ASSUME NEW c \in Callers, NEW a \in Foreign, Intervene(c, a)
      PROVE  CountsOK' /\ Budget'
  <2>1. /\ UNCHANGED <<wire, call, made, told>>
        /\ answer[c] = None /\ answer' = [answer EXCEPT ![c] = a]
    BY <1>6 DEF Intervene, historyVars
  <2>2. a.body # "error"
    BY DEF Foreign
  <2>3. answer' = [d \in Callers |-> answer'[d]] /\ answer'[c] = a
    BY <2>1, Zenon DEF CountsOK
  <2>4. \A d \in Callers: d # c => answer'[d] = answer[d]
    BY <2>1, Zenon DEF CountsOK
  <2>5. \A d \in Callers: Denied(d)' = Denied(d) /\ Open(d)' = Open(d)
    BY <2>1, <2>2, <2>3, <2>4, Zenon DEF Denied, Open
  <2> QED
    BY <1>2, <2>1, <2>3, <2>5
<1>7. ASSUME UNCHANGED <<wire, call, answer, made, told>>
      PROVE  CountsOK' /\ Budget'
  <2>1. \A d \in Callers: Denied(d)' = Denied(d) /\ Open(d)' = Open(d)
    BY <1>7, Zenon DEF Denied, Open
  <2>2. answer' = [d \in Callers |-> answer'[d]]
    BY <1>7, Zenon DEF CountsOK
  <2> QED
    BY <1>2, <1>7, <2>1, <2>2
<1>8. ASSUME Close \/ UNCHANGED managementVars
      PROVE  CountsOK' /\ Budget'
  BY <1>7, <1>8, Zenon DEF Close, managementVars, clientVars, historyVars
<1>9. ASSUME NEW r \in wire,
             \/ Update(r) \/ Deactivate(r) \/ Look(r)
             \/ \E e \in Refusals: Refuse(r, e)
      PROVE  CountsOK' /\ Budget'
  <2>1. (\E a: Answered(r, a)) /\ UNCHANGED <<made, told>>
    BY <1>9, Zenon DEF Update, Deactivate, Look, Refuse, historyVars
  <2> QED
    BY <2>1, EngineKeepsBudget, Zenon
<1>10. ASSUME NEW r \in wire, Emit(r) \/ \E i \in Ids: Create(r, i)
       PROVE  CountsOK' /\ Budget'
  <2>1. \A ids: Data(ids).body # "error"
    BY DEF Data
  <2>2. /\ \E ids: Answered(r, Data(ids))
        /\ r.op \in Additions
        /\ made' = [made EXCEPT ![r.by] = @ + 1] /\ UNCHANGED told
    BY <1>10, Zenon DEF Emit, Create, Additions
  <2> QED
    BY <2>1, <2>2, EngineKeepsBudget, Zenon
<1> QED
  BY <1>1, <1>3, <1>4, <1>5, <1>6, <1>8, <1>9, <1>10, ManagementSteps, Zenon

(* Nothing that the engine adds goes unnoticed: _request sends each call     *)
(* once (client.py:141-165), and an error that denies an addition is the     *)
(* engine's own refusal of that one request, however late any request is.    *)
THEOREM ManagementNoneMadeUnnoticed == ManagementSpec => []NoneMadeUnnoticed
<1>1. MadeInv => NoneMadeUnnoticed
  <2> SUFFICES ASSUME MadeInv, NEW c \in Callers
               PROVE  made[c] <= told[c] + Open(c)
    BY DEF NoneMadeUnnoticed, Open
  <2>1. /\ made[c] \in Nat /\ told[c] \in Nat /\ Cardinality(Pending(c)) \in Nat
        /\ Denied(c) \in 0..1 /\ Open(c) \in 0..1
    BY NumbersOK DEF MadeInv
  <2>2. made[c] + Cardinality(Pending(c)) + Denied(c) <= told[c] + Open(c)
    BY DEF MadeInv, Budget
  <2> QED
    BY <2>1, <2>2
<1> QED
  BY <1>1, MadeInit, MadeStep, PTL DEF ManagementSpec

-----------------------------------------------------------------------------
(* Sums: the calls of all the callers bound those of each.                   *)

(* Of any numbers one is the least. *)
LEMMA LeastNat ==
    ASSUME NEW S \in SUBSET Nat, S # {}
    PROVE  \E m \in S: \A n \in S: m <= n
<1> DEFINE T == {1..n : n \in S}
<1>1. T \subseteq FiniteSubsetsOf(Nat) /\ T # {}
  <2>1. \A n \in S: IsFiniteSet(1..n) /\ 1..n \in SUBSET Nat
    BY FS_Interval
  <2> QED BY <2>1 DEF FiniteSubsetsOf
<1>2. \E x \in T: \A y \in T: ~(<<y, x>> \in StrictSubsetOrdering(Nat))
  <2> HIDE DEF T
  <2> QED BY <1>1, FS_StrictSubsetOrderingWellFounded, WFMin
<1>3. PICK m \in S: \A n \in S: <<1..n, 1..m>> \notin StrictSubsetOrdering(Nat)
  BY <1>2
<1>4. ASSUME NEW n \in S, n < m PROVE FALSE
  <2>1. 1..n \in SUBSET Nat /\ 1..m \in SUBSET Nat /\ 1..n \subseteq 1..m /\ m \in 1..m /\ m \notin 1..n
    BY <1>4
  <2> QED BY <2>1, <1>3 DEF StrictSubsetOrdering
<1> QED BY <1>4, <1>3

(* Induction over a set of numbers: the least number outside it would follow *)
(* one inside.                                                               *)
LEMMA Inductive ==
    ASSUME NEW S, 0 \in S, \A n \in Nat: n \in S => n + 1 \in S
    PROVE  Nat \subseteq S
<1> SUFFICES ASSUME Nat \ S # {} PROVE FALSE
  OBVIOUS
<1>1. PICK m \in Nat \ S: \A n \in Nat \ S: m <= n
  BY LeastNat
<1>2. m # 0 /\ m - 1 \in Nat /\ m - 1 \in S /\ (m - 1) + 1 = m
  BY <1>1
<1> QED BY <1>1, <1>2

(* The subsets of D with fewer than n elements. *)
Small(D, n) == {s \in SUBSET D: Cardinality(s) < n}

Pick(s) == CHOOSE x \in s: TRUE

(* What the fold adds for s: what f has for one element, and the others. *)
Sums(g, f, S) == \A s \in S: g[s] = IF s = {} THEN 0 ELSE f[Pick(s)] + g[s \ {Pick(s)}]

(* A set without the element that is picked from it is smaller. *)
LEMMA SmallOnes ==
    ASSUME NEW D, IsFiniteSet(D), NEW n \in Nat, NEW s \in Small(D, n + 1), s # {}
    PROVE  Pick(s) \in s /\ Pick(s) \in D /\ s \ {Pick(s)} \in Small(D, n)
<1>1. Pick(s) \in s /\ s \in SUBSET D /\ Cardinality(s) < n + 1
  BY DEF Pick, Small
<1>2. IsFiniteSet(s) /\ Cardinality(s) \in Nat
  BY <1>1, FS_Subset, FS_CardinalityType
<1>3. Cardinality(s \ {Pick(s)}) = Cardinality(s) - 1
  BY <1>1, <1>2, FS_RemoveElement
<1> QED BY <1>1, <1>2, <1>3 DEF Small

(* The recursion has a solution on sets up to each size. *)
LEMMA SumsUpTo ==
    ASSUME NEW D, IsFiniteSet(D), NEW f \in [D -> Nat]
    PROVE  \A n \in Nat: \E g \in [Small(D, n) -> Nat]: Sums(g, f, Small(D, n))
<1> DEFINE I == {n \in Nat: \E g \in [Small(D, n) -> Nat]: Sums(g, f, Small(D, n))}
<1>1. 0 \in I
  <2>1. Small(D, 0) = {}
    <3>1. \A s \in SUBSET D: Cardinality(s) \in Nat
      BY FS_Subset, FS_CardinalityType
    <3> QED BY <3>1 DEF Small
  <2>2. [s \in {} |-> 0] \in [{} -> Nat]
    OBVIOUS
  <2> QED BY <2>1, <2>2 DEF Sums
<1>2. ASSUME NEW n \in Nat, n \in I PROVE n + 1 \in I
  <2>1. PICK g \in [Small(D, n) -> Nat]: Sums(g, f, Small(D, n))
    BY <1>2
  <2> DEFINE h == [s \in Small(D, n+1) |-> IF s = {} THEN 0 ELSE f[Pick(s)] + g[s \ {Pick(s)}]]
  <2>2. h \in [Small(D, n+1) -> Nat]
    BY SmallOnes
  <2>3. \A s \in Small(D, n): s \in Small(D, n+1) /\ h[s] = g[s]
    <3>1. \A s \in Small(D, n): s \in Small(D, n+1)
      <4>1. \A s \in SUBSET D: Cardinality(s) \in Nat
        BY FS_Subset, FS_CardinalityType
      <4> QED BY <4>1 DEF Small
    <3> QED BY <3>1, <2>1 DEF Sums
  <2>4. Sums(h, f, Small(D, n+1))
    <3> SUFFICES ASSUME NEW s \in Small(D, n+1)
                 PROVE  h[s] = IF s = {} THEN 0 ELSE f[Pick(s)] + h[s \ {Pick(s)}]
      BY DEF Sums
    <3>1. s # {} => h[s \ {Pick(s)}] = g[s \ {Pick(s)}]
      BY <2>3, SmallOnes
    <3>2. h[s] = IF s = {} THEN 0 ELSE f[Pick(s)] + g[s \ {Pick(s)}]
      OBVIOUS
    <3> HIDE DEF h
    <3> QED BY <3>1, <3>2
  <2> HIDE DEF h
  <2> QED BY <2>2, <2>4
<1>3. Nat \subseteq I
  <2> HIDE DEF I
  <2> QED BY <1>1, <1>2, Inductive
<1> QED BY <1>3

(* A sum of numbers is at least each of them: the fold's recursion has a     *)
(* solution, and every solution has this on sets of every size.              *)
LEMMA SumAtLeast ==
    ASSUME NEW D, IsFiniteSet(D), NEW f \in [D -> Nat]
    PROVE  FoldFunction(+, 0, f) \in Nat /\ \A c \in D: f[c] <= FoldFunction(+, 0, f)
<1> DEFINE Def(g) == g = [s \in SUBSET D |-> IF s = {} THEN 0
                          ELSE f[CHOOSE x \in s: TRUE] + g[s \ {CHOOSE x \in s: TRUE}]]
<1>0. DOMAIN f = D
  OBVIOUS
<1>1. PICK it: FoldFunction(+, 0, f) = it[D] /\ it = CHOOSE g: Def(g)
  BY <1>0, Zenon DEF FoldFunction, FoldFunctionOnSet, MapThenFoldSet
<1>2. \E g: Def(g)
  <2> DEFINE n == Cardinality(D) + 1
  <2>1. n \in Nat /\ Small(D, n) = SUBSET D
    <3>1. Cardinality(D) \in Nat
      BY FS_CardinalityType
    <3>2. \A s \in SUBSET D: Cardinality(s) \in Nat /\ Cardinality(s) <= Cardinality(D)
      BY FS_Subset, FS_CardinalityType
    <3> QED BY <3>1, <3>2 DEF Small
  <2> HIDE DEF n
  <2>5. \E g \in [Small(D, n) -> Nat]: Sums(g, f, Small(D, n))
    BY <2>1, SumsUpTo
  <2>2. PICK g \in [SUBSET D -> Nat]: Sums(g, f, SUBSET D)
    BY <2>1, <2>5
  <2>3. \A s \in SUBSET D: g[s] = IF s = {} THEN 0
                          ELSE f[CHOOSE x \in s: TRUE] + g[s \ {CHOOSE x \in s: TRUE}]
    BY <2>2, Zenon DEF Sums, Pick
  <2>4. Def(g)
    BY <2>2, <2>3, Zenon
  <2> HIDE DEF Def
  <2> QED BY <2>4
<1>3. Def(it)
  <2> HIDE DEF Def
  <2> QED BY <1>1, <1>2
<1>4. \A s \in SUBSET D: it[s] = IF s = {} THEN 0 ELSE f[Pick(s)] + it[s \ {Pick(s)}]
  BY <1>3, Zenon DEF Pick
<1> HIDE DEF Def
<1> DEFINE I == {n \in Nat: \A s \in Small(D, n): it[s] \in Nat /\ \A c \in s: f[c] <= it[s]}
<1>5. 0 \in I
  <2>1. \A s \in SUBSET D: Cardinality(s) \in Nat
    BY FS_Subset, FS_CardinalityType
  <2> QED BY <2>1 DEF Small
<1>6. ASSUME NEW n \in Nat, n \in I PROVE n + 1 \in I
  <2> SUFFICES ASSUME NEW s \in Small(D, n+1) PROVE it[s] \in Nat /\ \A c \in s: f[c] <= it[s]
    OBVIOUS
  <2>1. s \in SUBSET D
    BY DEF Small
  <2>2. CASE s = {}
    <3>1. it[s] = 0
      BY <2>1, <2>2, <1>4, Zenon
    <3> QED BY <3>1, <2>2
  <2>3. CASE s # {}
    <3> DEFINE r == s \ {Pick(s)}
    <3>1. Pick(s) \in s /\ Pick(s) \in D /\ r \in Small(D, n)
      BY <2>3, SmallOnes
    <3>2. it[s] = f[Pick(s)] + it[r]
      BY <2>1, <2>3, <1>4
    <3>3. it[r] \in Nat /\ \A c \in r: f[c] <= it[r]
      BY <3>1, <1>6
    <3>4. f[Pick(s)] \in Nat /\ \A c \in s: f[c] \in Nat /\ (c = Pick(s) \/ c \in r)
      BY <3>1, <2>1
    <3> HIDE DEF r
    <3> QED BY <3>2, <3>3, <3>4
  <2> QED BY <2>2, <2>3
<1>7. Nat \subseteq I
  <2> HIDE DEF I
  <2> QED BY <1>5, <1>6, Inductive
<1>8. D \in Small(D, Cardinality(D) + 1) /\ Cardinality(D) + 1 \in Nat
  BY FS_CardinalityType DEF Small
<1>9. it[D] \in Nat /\ \A c \in D: f[c] <= it[D]
  BY <1>7, <1>8
<1> QED BY <1>1, <1>9, Zenon

-----------------------------------------------------------------------------
(* Types.  A caller has an outcome once its call has ended, and until then   *)
(* may have an answer.                                                       *)
(* A call l, an answer a and a result r that go together. *)
Fit(l, a, r) ==
    /\ l.n <= MaxCalls
    /\ l.waits => l.n # 0
    /\ r.how \in {"not yet", "returns", "raises", "escapes"}
    /\ (r.how = "not yet") <=> (l.waits \/ l.n = 0)
    /\ a # None => l.waits

CallerOK(c) == Fit(call[c], answer[c], result[c])

TypeInv ==
    /\ ChangeInv
    /\ answer = [c \in Callers |-> answer[c]]
    /\ result = [c \in Callers |-> result[c]]
    /\ \A c \in Callers: CallerOK(c)
    /\ closed \in BOOLEAN

(* A call ends in one of three ways. *)
LEMMA Ends ==
    ASSUME NEW op, NEW a
    PROVE  Outcome(op, Request(op, a)).how \in {"returns", "raises", "escapes"}
<1>1. ASSUME NEW how \in {"returns", "raises", "escapes"}, NEW what
      PROVE  Outcome(op, [how |-> how, what |-> what, answer |-> a]).how
                 \in {"returns", "raises", "escapes"}
  BY DEF Outcome
<1>2. \E how \in {"returns", "raises", "escapes"}: \E what:
          Request(op, a) = [how |-> how, what |-> what, answer |-> a]
  <2>1. \/ Error(a) = RaisesTyped(BuildError(a.status, a.code), a)
        \/ Error(a) = RaisesTyped(BuildError(a.status, "unknown_error"), a)
        \/ \E what: Error(a) = Escapes(what, a)
    BY Zenon DEF Error
  <2>2. \/ Parsed(op, a) = Returns(a)
        \/ \E what: Parsed(op, a) = Escapes(what, a)
    BY Zenon DEF Parsed
  <2> QED
    BY <2>1, <2>2, Zenon DEF Request, Returns, Escapes, RaisesTyped
<1> QED
  BY <1>1, <1>2, Zenon

(* Who may call has a call left. *)
LEMMA CallsLeft ==
    ASSUME CallsOK, NEW c \in Callers, MayCall(c)
    PROVE  call[c].n \in Nat /\ call[c].n + 1 <= MaxCalls /\ call[c].n + 1 # 0
<1> DEFINE f == [d \in Callers |-> call[d].n]
           sum == FoldFunction(+, 0, f)
<1>1. f \in [Callers -> Nat]
  BY DEF CallsOK, Calls
<1>2. sum < MaxCalls
  BY Zenon DEF MayCall
<1>3. f[c] = call[c].n
  OBVIOUS
<1> HIDE DEF f
<1>4. sum \in Nat /\ f[c] \in Nat /\ f[c] <= sum
  BY <1>1, SumAtLeast, ManagementAssumption
<1> HIDE DEF sum
<1> QED
  BY <1>2, <1>3, <1>4, ManagementAssumption

LEMMA TypeInit == ManagementInit => TypeInv
<1> SUFFICES ASSUME ManagementInit
             PROVE  \A c \in Callers: CallerOK(c)
  BY ChangeInit, Zenon DEF TypeInv, ManagementInit
<1>1. /\ NoCall.n = 0 /\ NoCall.waits = FALSE /\ NotYet.how = "not yet"
      /\ 0 <= MaxCalls
  BY ManagementAssumption DEF NoCall, NotYet
<1>2. ASSUME NEW c \in Callers
      PROVE  call[c] = NoCall /\ answer[c] = None /\ result[c] = NotYet
  BY Zenon DEF ManagementInit
<1> QED
  BY <1>1, <1>2 DEF CallerOK, Fit

LEMMA TypeStep == TypeInv /\ [ManagementNext]_managementVars => TypeInv'
<1> SUFFICES ASSUME TypeInv, [ManagementNext]_managementVars
             PROVE  /\ answer' = [c \in Callers |-> answer'[c]]
                    /\ result' = [c \in Callers |-> result'[c]]
                    /\ \A c \in Callers: CallerOK(c)'
                    /\ closed' \in BOOLEAN
  BY ChangeStep, Zenon DEF TypeInv
<1> DEFINE Goal == /\ answer' = [c \in Callers |-> answer'[c]]
                   /\ result' = [c \in Callers |-> result'[c]]
                   /\ \A c \in Callers: CallerOK(c)'
                   /\ closed' \in BOOLEAN
<1>0. /\ CallsOK /\ WireOK /\ closed \in BOOLEAN
      /\ answer = [c \in Callers |-> answer[c]]
      /\ result = [c \in Callers |-> result[c]]
      /\ \A c \in Callers: CallerOK(c)
  BY Zenon DEF TypeInv, ChangeInv
(* A step that touches one caller's call. *)
<1> DEFINE Sets(c, l, a, r) == /\ call' = [call EXCEPT ![c] = l]
                               /\ answer' = [answer EXCEPT ![c] = a]
                               /\ result' = [result EXCEPT ![c] = r]
                               /\ closed' \in BOOLEAN
<1>1. ASSUME NEW c \in Callers, NEW l, NEW a, NEW r, Sets(c, l, a, r), Fit(l, a, r)
      PROVE  Goal
  <2>1. /\ answer' = [d \in Callers |-> answer'[d]]
        /\ result' = [d \in Callers |-> result'[d]]
    BY <1>0, <1>1, Zenon
  <2>2. call'[c] = l /\ answer'[c] = a /\ result'[c] = r
    BY <1>0, <1>1, Zenon DEF CallsOK
  <2>3. \A d \in Callers:
            d # c => call'[d] = call[d] /\ answer'[d] = answer[d] /\ result'[d] = result[d]
    BY <1>0, <1>1, Zenon DEF CallsOK
  <2>4. CallerOK(c)'
    BY <1>1, <2>2, Zenon DEF CallerOK
  <2>5. \A d \in Callers: d # c => CallerOK(d)'
    BY <1>0, <2>3, Zenon DEF CallerOK
  <2> QED
    BY <1>1, <2>1, <2>4, <2>5, Zenon
<1> HIDE DEF Sets
(* A step of which no caller but one that waits for it sees anything. *)
<1>2. ASSUME UNCHANGED <<call, result>>, closed' \in BOOLEAN,
             \/ UNCHANGED answer
             \/ \E c \in Callers: \E a: call[c].waits /\ answer' = [answer EXCEPT ![c] = a]
      PROVE  Goal
  <2>1. CASE UNCHANGED answer
    BY <1>0, <1>2, <2>1, Zenon DEF CallerOK
  <2>2. ASSUME NEW c \in Callers, NEW a, call[c].waits, answer' = [answer EXCEPT ![c] = a]
        PROVE  Goal
    <3>1. \A d \in Callers: answer'[d] = answer[d] \/ call[d].waits
      BY <1>0, <2>2, Zenon
    <3>2. \A d \in Callers: CallerOK(d)'
      BY <1>0, <1>2, <3>1, Zenon DEF CallerOK, Fit
    <3>3. answer' = [d \in Callers |-> answer'[d]]
      BY <1>0, <2>2, Zenon
    <3> QED
      BY <1>0, <1>2, <3>2, <3>3, Zenon
  <2> QED
    BY <1>2, <2>1, <2>2, Zenon
<1>3. ASSUME NEW c \in Callers, NEW op, NEW id, NEW given, Send(c, op, id, given)
      PROVE  Goal
  <2> DEFINE l == [n |-> call[c].n + 1, waits |-> TRUE, op |-> op, id |-> id, given |-> given]
  <2>1. Sets(c, l, None, NotYet)
    BY <1>0, <1>3, Zenon DEF Send, Sets
  <2>2. l.n = call[c].n + 1 /\ l.waits = TRUE /\ NotYet.how = "not yet"
    BY DEF NotYet
  <2> HIDE DEF l, Goal
  <2>3. l.n <= MaxCalls /\ l.n # 0
    BY <1>0, <1>3, <2>2, CallsLeft DEF Send
  <2>4. Fit(l, None, NotYet)
    BY <2>2, <2>3 DEF Fit
  <2> QED
    BY <1>1, <2>1, <2>4, Zenon
<1>4. ASSUME NEW c \in Callers, CallClosed(c)
      PROVE  Goal
  <2> DEFINE l == [NoCall EXCEPT !.n = call[c].n + 1]
             r == Escapes("RuntimeError", None)
  <2>1. answer[c] = None
    BY <1>0, <1>4, Zenon DEF CallClosed, CallerOK, Fit, MayCall
  <2>2. answer' = [answer EXCEPT ![c] = None]
    BY <1>0, <1>4, <2>1, Zenon DEF CallClosed
  <2>3. Sets(c, l, None, r)
    BY <1>0, <1>4, <2>2, Zenon DEF CallClosed, Sets
  <2>4. l.n = call[c].n + 1 /\ l.waits = FALSE /\ r.how = "escapes"
    BY DEF NoCall, Escapes
  <2> HIDE DEF l, r, Goal
  <2>5. l.n <= MaxCalls /\ l.n # 0
    BY <1>0, <1>4, <2>4, CallsLeft DEF CallClosed
  <2>6. Fit(l, None, r)
    BY <2>4, <2>5 DEF Fit
  <2> QED
    BY <1>1, <2>3, <2>6, Zenon
(* A call that waited ends. *)
<1>5. ASSUME NEW c \in Callers, NEW r, End(c, r), call[c].waits,
             r.how \in {"returns", "raises", "escapes"}
      PROVE  Goal
  <2> DEFINE l == [call[c] EXCEPT !.waits = FALSE]
  <2>1. Sets(c, l, None, r)
    BY <1>0, <1>5, Zenon DEF End, Sets
  <2>2. l.n = call[c].n /\ l.waits = FALSE
    BY <1>0 DEF CallsOK, Calls
  <2>3. call[c].n <= MaxCalls /\ call[c].n # 0
    BY <1>0, <1>5, Zenon DEF CallerOK, Fit
  <2> HIDE DEF l, Goal
  <2>4. Fit(l, None, r)
    BY <1>5, <2>2, <2>3 DEF Fit
  <2> QED
    BY <1>1, <2>1, <2>4, Zenon
<1>6. ASSUME NEW c \in Callers, Receive(c)
      PROVE  Goal
  BY <1>5, <1>6, Ends, Zenon DEF Receive
<1>7. ASSUME NEW c \in Callers, GiveUp(c)
      PROVE  Goal
  <2>1. Outcome(call[c].op, ConnectionError).how \in {"returns", "raises", "escapes"}
    BY DEF Outcome, ConnectionError, RaisesTyped
  <2> QED
    BY <1>5, <1>7, <2>1, Zenon DEF GiveUp
<1>14. ASSUME NEW c \in Callers, CutOff(c)
      PROVE  Goal
  <2>1. Escapes("RuntimeError", None).how = "escapes"
    BY DEF Escapes
  <2> QED
    BY <1>5, <1>14, <2>1, Zenon DEF CutOff
<1>8. ASSUME NEW c \in Callers, NEW a, Intervene(c, a)
      PROVE  Goal
  BY <1>0, <1>2, <1>8, Zenon DEF Intervene
<1>9. ASSUME Close
      PROVE  Goal
  <2>1. closed' = TRUE /\ UNCHANGED <<call, answer, result>>
    BY <1>9, Zenon DEF Close
  <2> HIDE DEF Goal
  <2> QED
    BY <1>2, <2>1
<1>10. ASSUME NEW r \in wire, NEW a, Answered(r, a)
       PROVE  Goal
  <2>1. r.by \in Callers
    BY <1>0 DEF WireOK
  <2> QED
    BY <1>0, <1>2, <1>10, <2>1, Zenon DEF Answered, Expected
<1>11. ASSUME NEW r \in wire,
              \/ Emit(r) \/ Update(r) \/ Deactivate(r) \/ Look(r)
              \/ \E e \in Refusals: Refuse(r, e)
              \/ \E i \in Ids: Create(r, i)
       PROVE  \E a: Answered(r, a)
  BY <1>11, Zenon DEF Emit, Update, Deactivate, Look, Refuse, Create
<1>12. ASSUME UNCHANGED managementVars
       PROVE  Goal
  BY <1>0, <1>2, <1>12, Zenon DEF managementVars, clientVars
<1> HIDE DEF Goal
<1>13. Goal
  BY <1>3, <1>4, <1>6, <1>7, <1>8, <1>9, <1>10, <1>11, <1>12, <1>14,
     ManagementSteps, Zenon
<1> QED
  BY <1>13, Zenon DEF Goal

(* No null reaches the engine, which would read it as a value, and an answer *)
(* that is late for its call is nobody's: the body names only what its       *)
(* caller gave, and _request returns or raises once (client.py:141-165).     *)
THEOREM ManagementTyping == ManagementSpec => []ManagementTypeOK
<1>1. TypeInv => ManagementTypeOK
  <2> SUFFICES ASSUME TypeInv
               PROVE  ManagementTypeOK
    OBVIOUS
  <2>1. /\ CallsOK /\ WireOK /\ SubscriptionsOK /\ closed \in BOOLEAN
        /\ \A c \in Callers: CallerOK(c)
    BY Zenon DEF TypeInv, ChangeInv
  <2>2. ASSUME NEW c \in Callers
        PROVE  call[c].n \in 0..MaxCalls /\ call[c].waits \in BOOLEAN
    <3>1. call[c].n \in Nat /\ call[c].waits \in BOOLEAN
      BY <2>1 DEF CallsOK, Calls
    <3>2. call[c].n <= MaxCalls
      BY <2>1, Zenon DEF CallerOK, Fit
    <3> QED
      BY <3>1, <3>2, ManagementAssumption
  <2>3. ASSUME NEW r \in wire, NEW f \in DOMAIN r.body
        PROVE  r.body[f] \in Values
    BY <2>1 DEF WireOK
  <2> QED
    BY <2>1, <2>2, <2>3, Zenon DEF ManagementTypeOK, SubscriptionsOK, CallerOK, Fit
<1> QED
  BY <1>1, TypeInit, TypeStep, PTL DEF ManagementSpec

=============================================================================
