# A verification model of lzt-eventus-sdk

`lzt-eventus-sdk` is the Python client of an event engine. It receives the
events of a subscription over four transports (webhook, SSE, WebSocket,
polling), routes each one through a single dispatcher to the consumer's
handlers, and acknowledges it by the rules of its transport. This directory
holds TLA+ modules of that code, the TLC configurations that check them, and
proofs that TLAPS checks. Paths below are relative to `src/lzt_eventus_sdk/`.

Check a run with `tlc -config <run>.cfg <module>` (the module of each run is in
the table below and in `PROJECT.json`), a proof with `tlapm <module>.tla`.

## 1. The system

Everything runs in one asyncio event loop: a task gives up control only at an
`await`. What makes the code hard is therefore not data races but what other
tasks do while one is suspended, and what is lost when a connection, a call or
the process ends between two steps.

| Component | State it keeps | Operations | Talks to |
|---|---|---|---|
| Dispatcher (`dispatch/dispatcher.py`) | the router tree; the locals of every `feed` under way | `feed` | middleware, filters, handlers |
| Router (`dispatch/router.py`) | handler list, child list | `on`, `include_router`, `walk` | dispatcher |
| Magic filters (`dispatch/filters.py`) | none: an expression tree | building an expression, calling it | dispatcher |
| Idempotency (`middleware/idempotency.py`, `storage/idempotency.py`) | the marks, in a storage backend | `mark_if_new`, `seen`, `mark` | storage |
| Error boundary, logging (`middleware/`) | none | the call | dispatcher |
| Cursor store (`storage/cursor.py`) | one `last_seq` per subscription and transport | `get`, `advance` | storage |
| Memory storage (`storage/memory.py`) | a dictionary with expiry times, a write counter | `get`, `set`, `set_if_not_exists`, `delete`, the sweep | clock |
| SSE and WS sources (`sources/sse.py`, `sources/ws.py`) | `_closed`, the connection, the backoff | `run`, `stream`, `aclose` | engine, dispatcher, cursor store |
| Polling source (`sources/polling.py`) | the batch, `all_ok`, the sleep | `run`, `stream` | engine (REST), dispatcher |
| Supervisor (`sources/base.py`) | its sources, `_stopping`, a backoff per source | `add`, `run`, `stop` | sources |
| Webhook receiver (`server/receiver.py`, `signing.py`) | the locals of each request | the ASGI call | engine, dispatcher |
| Management client (`client.py`, `errors.py`) | an HTTP client | REST calls | engine |
| Event model, registry (`events/`) | models by event type | `register`, `parse` | dispatcher |

What is hard in each, and what makes it correct:

- **Dispatcher and idempotency.** Several tasks are inside `feed` at once and
  may feed the same event (two transports of a subscription, overlapping
  batches, a webhook retry). Correct: no event runs twice at once or again
  after success; a mark does not turn a failure into an acknowledgement.
- **Router.** The walk iterates over live handler lists while other tasks
  register handlers. Correct: depth-first order, the first match wins, every
  handler at most once, no data leaks from one handler to the next,
  `SkipHandler` falls through.
- **Push sources and cursor store.** Drops, undecodable frames, exceptions,
  cancellation, `aclose` and restarts at every point; two sources on one cursor.
  Correct: the cursor passes nothing that was not dispatched, does not move
  back, and every event is delivered in the end.
- **Polling.** A batch partly fails, two pollers overlap, the answer to
  `confirm_read` is lost. Correct: the engine's position passes only what was
  processed, and a failing event is dispatched again.
- **Memory storage.** Lazy expiry, the sweep and `set_if_not_exists` must agree
  on whether an entry is there.
- **Supervisor.** A crashing source must not take the others down; `stop` must
  end every source, whenever it comes.
- **Webhook receiver.** Its status must make the engine retry exactly what was
  not processed, also when a retry overtakes a slow first delivery.
- **Magic filters.** An expression is evaluated for events of a catalog that
  grows. Correct: a field that is not there fails the filter and never crashes
  the routing, and the filters that accept an event accept it with a field more.
- **Management client.** The answer to a call may be lost, late or not the
  engine's, and tasks share one client. Correct: the client adds nothing twice,
  an update writes the fields it was given and no others, so that tasks which
  update different fields do not undo each other's changes, and an error of the
  engine's is caught by the class of its status.
- **Several transports at once.** Sources that know nothing of each other share
  a dispatcher, the dedup store and the fate of the process. Correct: an event
  is handled once whichever of them brings it, and none skips an event because
  of what another did.

`PROJECT.json` lists the hazards one by one, each with its line and with the
properties that cover it.

## 2. The modules

| Module | Models |
|---|---|
| `Dispatch` | `feed` as its callers see it, with the idempotency middleware |
| `Routing` | the inside of `feed`: walk, filters, inner middleware, `SkipHandler` |
| `MagicFilter` | the expression language of `dispatch/filters.py`, used by `Routing` |
| `Delivery` | abstract: at-least-once delivery, what every source promises |
| `PushSource` | `SSESource` and `WSSource` over `Dispatch` and the cursor store |
| `PollingSource` | `PollingSource` over `Dispatch` and two REST calls |
| `Webhook` | `WebhookReceiver` over `Dispatch`, and the engine's retries |
| `Transports` | push sources and pollers of one process, side by side over one dispatcher |
| `ManagementClient` | `ManagementClient`, its errors and records, and the engine behind it |
| `Supervisor` | `SourceSupervisor`: `run`, its tasks, `stop` |
| `TtlMap` | abstract: a map with entries that vanish when they expire, what `BaseStorage` promises |
| `MemoryStorage` | `MemoryStorage`: lazy expiry, the sweep, the clock |
| `MCRouting`, `MCPushSource`, `MCPollingSource`, `MCTransports`, `MCManagementClient`, `MCWebhook`, `MCSupervisor` | the small instances |
| `DispatchProofs`, `PushSourceProofs`, `PollingSourceProofs`, `TransportsProofs`, `RoutingProofs`, `WebhookProofs`, `ManagementClientProofs`, `ProcessProofs` | the theorems; `ProcessProofs` holds those of `Supervisor` and of `MemoryStorage` |

`PushSource`, `PollingSource` and `Webhook` EXTEND `Dispatch` and use its actions
inside their own: the step in which a source feeds an event is also the step in
which the dispatcher starts on it. `Routing`, the three compositions and `Transports`
are proved to implement `DispatchSpec`; both sources implement
`DeliverySpec` (`PromiseSpec`), alone and side by side. `Transports` takes an INSTANCE
of `PushSource` and one of `PollingSource` that share the log, the marks and the history.

### Dispatch

`seen` is the set of marked keys, `running[t]` the event whose handler task t
awaits, `settled` (history) the events some dispatch ended for without an error.
`FeedDuplicate` is the early DUPLICATE of the middleware, `FeedStart` the mark
and the start of the handler, `FeedReturn` the result, `FeedAbort` the exception
or cancellation that leaves `feed`. `mark_if_new` and the handler's start are
one step, since the compare-and-set is atomic by the contract of
`storage/base.py:19-23` and no other task can tell the two apart. The mark is
never taken back: that is what the code does, and finding 3 is its price.
`Expiring` is the set of events that may come again after the TTL of their mark;
`DispatchRestart` is the death of the process, which loses the marks unless the
backend is `Durable`.

### Routing

`children` and `handlers` are the attributes of each `Router`; `feed[t]` holds
the locals of `_walk_and_handle` in task t: the list that `walk()` returned, the
position in it, the filter being awaited, `extra`. A step runs from one await to
the next: it ends in the outer middleware (`entering`), in a filter, in a
handler, or outside. There, and only there, `On` and `IncludeRouter` may happen.
The list of routers is taken once, the handler lists are live, as in the code.
`IncludeRouter` appends whatever it is given, as `include_router()` does; that the
consumer includes routers as a tree (`KeepsTree`) is a condition of `RoutingNext`.
`GoOn` is the pair of `for` loops: the next position at or after a given one.
What a filter of the SDK answers is what `MagicFilter` computes, and as it does
not suspend, nothing else runs while a task is at one. What a filter of the
consumer answers (pass, pass with data, fail, raise) and how a handler ends
(return, `SkipHandler`, another exception, cancellation) are free choices, so
the run covers a filter that changes its mind.

### MagicFilter

A `MagicFilter` object is the function its `_resolver` computes, from events to
values or to the name of the exception that Python raises. `F` is the identity;
each operator of the class builds such a function from others, with Python's
short circuits, and `Magic` is `__call__`: the three exceptions that it catches
fail the filter as a whole, any other leaves it. Attribute access, subscription
and comparison are Python's and parameters of the module. `Extensions` says which
events have the fields of another and maybe more; `KeepsMatching` of `Routing` is
about them: the negation of a comparison on a field that is not there fails, too,
so that the event with the field is not refused where the one without it passed.
It is about a handler's own filters. It does not say that the event with the field
reaches that handler: as the first match wins, a handler before it, with a filter on
the new field, may take the event. An expression is `Steady` if the events that extend
one give it the same value unless the field it reads was not there. `Fields` are the
expressions `F.name` and `F.data[key]`, and the `ASSUME` of `MCRouting` checks that
those of the run are steady, that is, that its events keep their fields.

### PushSource

`SSESource` and `WSSource` run the same loop; the differences are the resume hint
of a fresh start (SSE sends no `Last-Event-ID` for 0) and `aclose`, which in SSE
also closes the HTTP client. The phases of a source:

| Phase | Where the task is | Left by |
|---|---|---|
| idle | head of the loop in `stream()` | `Dial` |
| dialing | the request is sent | `Open`, `Drop`, `HangUp`, `Abort` |
| streaming | waits for a frame | `Receive`, `BadFrame`, `Drop`, `HangUp`, `Abort` |
| feeding | inside `dispatcher.feed` | `HandlerReturns`, `Abort` |
| advancing | `cursors.advance` is next | `Advance`, `Abort` |
| storing | `advance` has compared and will write | `StoreCursor`, `Abort` |
| sleeping | the backoff | `Wake`, `Abort` |
| aborted | `run()` was left by an exception | `Rerun` (supervisor or consumer) |
| stopped | `run()` returned | a restart only |

`AtomicStore` says whether storage calls suspend: with `MemoryStorage` the read
and the write of `advance` are one step, with a remote backend two. `Close` is
`aclose`, which only sets a flag; a source that is inside an open connection goes
on dispatching, as the code does. Of the engine the model assumes that a stream
delivers the events after its hint in order and skips none, and starts at the
first event when there is no hint. All sources are of one subscription.

### PollingSource

`lastRead` is the engine's own position, `items`, `todo`, `drained` and `allOk`
the batch and the flag of `run()`. `Fetch`, `DispatchItem`, `HandlerReturns`,
`EndBatch` and `Confirm` follow the loop body in order. `ConfirmLost` is a
`confirm_read` that the engine applied but whose answer did not arrive; a call
that failed without effect is in `Abort`. Of the engine the model assumes that
`poll_pending` returns the oldest `Limit` events after its position, that
`drained` says whether that was all, and that `read_events` includes its bound
and never moves back. Whether `next_seq` is the last event of the batch or one
more is the constant `PastEnd`, because the repository's documents and its
captured responses disagree (finding 2).

### Transports

The variables of the two kinds of sources, `pushOwn` and `pollOwn`, and those they
share: the engine's log, the marks, the history, and the bound on faults. A step is
a step of one source or of the engine, except the death of the process, which ends
all sources in one step. `Shared` is the dispatcher with the tasks of both kinds.
The two positions of a subscription, the cursor and the engine's, are not related
by anything: both kinds feed every event, and the dedup middleware tells the
second one that the event is a DUPLICATE. The receiver is left out, since its
dedup keys are of another kind and never meet those of the sources.

### ManagementClient

A call is in three places: `call[c]`, the caller's side; `wire`, the requests that
the engine has not carried out; `answer[c]`, what has arrived. Between `Send` and
`Receive` the engine may carry out the request, refuse it, or leave it; `GiveUp` is
the timeout or the broken connection, after which the request may still be on the
wire and be carried out with nobody waiting; `Intervene` is a proxy that answers in
the engine's place. The methods are one action each and differ in their request,
and in `Parsed` and `Outcome`, which say what becomes of the answer. An answer is
its status and its body: the engine's data, an error envelope, or one of the four
foreign bodies of `Foreign`: no JSON, JSON that is no object, an object without the
engine's keys, an error that is itself an object or a list. `Error`, `BuildError`,
`CodeMap`, `StatusFallback` and `Base` are the error
handling and the class tree; a result either `returns`, `raises` a
`ManagementApiError`, or `escapes` as another exception. `Close` is `aclose()` at any
moment; a call of another task that is in flight then may be answered still, fail as
any connection does, or be cut off (`CutOff`). A subscription is two
fields, since the body of an update treats all its fields alike, and `Newer` are the
subscriptions whose kind of ctx or scope the SDK does not know. `named`, `made` and
`told` are history: which calls asked for a change of each field, recorded when they
are made, what the engine added for each caller, and how often that caller was told or
left in doubt. `ChangesHold` compares `named` with what the engine has: of two updates
that name the same field the later request wins, whoever called first, and the
property says nothing of them; a field that one call alone asked for must have its
value once that call is answered, whatever else is under way.

### Webhook

A task is one ASGI request, and `phase[t]` the await it is in:

| Phase | Await | Left by |
|---|---|---|
| reading | `_read_body` | `ReadBody` (413, or on), `ReadTruncated` |
| authenticating | the secret resolver | `Authenticate` (400, 500, or on), `Unauthorized`, `ResolverRaises` |
| resolving | the account resolver | `Feed` (400, 200 for a DUPLICATE, or on), `Unauthorized`, `ResolverRaises` |
| feeding | `dispatcher.feed` | `HandlerReturns` (200 or 503), `FeedRaises` (503) |

`Cancel` and `ProcessRestart` end a request anywhere. The engine (`Post`,
`TimeOut`, `Judge`) is external and modelled from `docs/architecture.en.md:67-72`
and `server/receiver.py:74-77`: it sends an event, waits for one answer at a time,
stops on a 200, gives up on a terminal status, and sends again on 5xx, 408 and
429. A request that the engine has given up on goes on in the receiver, which is
how two requests of one event meet. The HMAC is abstracted to a signature that
holds or not. `Body` gives every event a body of one of five kinds; among them
is the body that is no text, for which `json.loads` raises a
`UnicodeDecodeError` that no `except` clause of the receiver names.

### Supervisor

`task[s]` is the coroutine `_supervise(s)`: created, inside the source's `run()`,
in its backoff, or over. A source is seen from there only: its `run()` is under
way, returns or raises. What counts is which sources return once they are
closed: SSE, whose stream is cut; WS, once its connection ends; polling never.
`closing` is the position of `stop()` in the list of sources. A source that is
closed and run while the supervisor is not stopping returns at once, is run
again at once, and so on, without a suspension between: its task is `spinning`,
and since everything shares one event loop no action of any task is possible any
more but its own round (`Spin`). There are two ways to get there: a consumer that
calls a source's `aclose()` itself (`CloseSource`), and a `run()` that begins after
`stop()`, since it clears the flag. Both are in the model, and `undone` (history)
says that one of them happened. `StopNeverSpins` says that there is no third: `stop()`
alone, at whatever moment of whichever task, makes nothing spin.

### Delivery

The abstract specification has a log (`published`), the set of processed events,
and a committed position per consumer. `Commit(c, p)` requires that everything
up to p is processed or excused, and that p is new. For the push sources the
committed positions are the cursors and the events with a failing handler are
excused (finding 1 shows that they must be); for polling it is the engine's
position and nothing is excused. If `next_seq` is one past the batch (`PastEnd`), the
engine's position may `Overshoot`: it passes the event right after a processed one,
also if that is published later, and no second one with it. That is all that finding 2
costs, and it is stated here rather than excluded.

### TtlMap and MemoryStorage

`data` is the dictionary, `writes` the write counter modulo the sweep interval
(which is all the code uses of it), `now` the monotonic clock. Every operation is
one step, as nothing in it suspends, and reads the clock once; the comment of the
module says why a second reading changes nothing. `Tick` lets time pass without
anybody looking, so that expired entries stay in the dictionary. `TtlMap` is the
promise of `storage/base.py` with the lifetimes of `ttl`: there an entry is gone
as soon as its last instant is over. The mapping shows a caller's view of the
dictionary: an entry if it is `Live`, nothing otherwise. The comparison is
written three times in the code, twice as `<` and once as `>=`; that they agree
is what `IsTtlMap` is about. `Dispatch` and `PushSource` rest on it: `FeedStart`
is a `PutIfAbsent` on a key that is not there, `MarkExpires` is what `Pass` does
to a mark, and `Advance` reads and writes a key without lifetime.

## 3. The runs

| Run | Question | Result |
|---|---|---|
| `push_cursor` | Two SSE sources, one cursor, no dedup, a failing handler, a gap, an undecodable frame, volatile storage: is the cursor monotone, does it skip nothing unseen and rest on settled events; is delivery at-least-once; is every event before that frame delivered in the end? | holds, 68 000 states |
| `transports_dedup` | Two WS sources and a poller of one subscription, shared marks, a suspending store, an expiring mark, two faults: is an event with a kept mark run once whatever brings it, does no position pass an event its own transport never fed, but for the one after the batch that `next_seq` includes? | holds, 800 000 states |
| `push_error_passed` | Does a failed event hold the cursor back, as the architecture document says? | violated (finding 1) |
| `polling_confirm` | Two pollers, no dedup, a failing handler, a lost confirmation or a restart, a gap: is only what was processed confirmed; is delivery at-least-once with no excuse; is an event retried until it succeeds, and are the events before it confirmed? | holds, 54 000 states |
| `polling_next_seq` | Is confirming `next_seq` safe when it is one past the batch? | violated (finding 2) |
| `routing_walk` | Every tree of three routers and placement of three handlers, changed during a dispatch: depth first, first match, each handler once, own data only, filters that accept an event accept it with a field more, `feed` as in `Dispatch`? | holds, 254 000 states |
| `routing_boundary` | Does `SkipHandler` fall through the error boundary? | violated (finding 4) |
| `webhook_retry` | A body of every kind, durable marks, one of which may expire, one fault: does a retry that overtakes its first delivery never run the event twice, is no event given up because of a handler, does the engine come to an end with every event? | holds, 76 000 states |
| `webhook_acked` | Does a 200 mean processed, with the dedup middleware? | violated (finding 3) |
| `storage_expiry` | Two keys, lifetimes of 0, 1 and for ever, a sweep at every third write: is the dictionary, as callers see it, a map whose entries vanish by themselves; is nothing left that had expired by the last sweep? | holds, 9 500 states |
| `supervisor_stop` | Two SSE sources, one of which may fail to close, and a poller: does a crash cost no task, is nothing run anew after `stop()`, does `stop()` alone make nothing spin, does it end the SSE sources? | holds, 80 000 states |
| `management_calls` | Two tasks share a client and make any two calls, with late, lost and foreign answers and an `aclose()` at any moment: is nothing added twice or denied, does a change that was answered stay, is an error of the class of its status? | holds, 1 327 000 states |

### Bounds

- **Two or three sources.** The interactions are pairwise: two tasks meet on a
  key, two on a cursor. `transports_dedup` has three, so that both kinds of meeting
  happen in one behaviour: two WS sources with one cursor, and a poller.
- **Two to four events.** One event that fails, one before or after it that does
  not, and one published late. 4 after 2 is a gap in the sequence numbers, as
  other subscriptions leave it. The polling runs use batches of 2, so that both
  a full and a drained batch occur. `webhook_retry` has six events, one for every
  kind of body and one with a failing handler.
- **Two requests.** Two of one event meet after a timeout, and the marks and the
  engine's verdicts relate nothing else.
- **Two keys, four instants, a sweep at every third write** in `storage_expiry`. An
  entry of lifetime 0 or 1 has a last instant, one before it and one after it
  within the clock; the sweep meets entries of the key just written and of the
  other one, expired and not. The code's interval is 500, and the theorems are for
  any.
- **Three supervised sources.** Two that close, so that one `aclose()` can fail
  before the other is called, and one that does not. A WS source differs from an
  SSE source only in that its return is not taken for granted, so that every
  safety property of the run covers it.
- **`MaxFaults`**, 0 to 2, counts drops, exceptions, lost answers and process
  deaths in one behaviour. Two are enough for a fault during the recovery from
  another. A bad frame and `aclose` are not counted. The violations use 0: they
  need no fault.
- **Three routers, three handlers**, one without a filter and two with two, one task: the
  locals of two calls of `feed` do not meet, and registration by other tasks is
  an action of its own. The two routers below the root are interchangeable.
- **Three events and two filter expressions** in `routing_walk`: an event without a
  field, the same with it, and one of another type with another value. The expressions
  use every operator but those that only differ in the comparison, and meet a missing
  field, which is caught, and an `IndexError`, which is not.
- **Two calls** in `management_calls`, by two tasks or one after the other by the same:
  enough for a request that is carried out after its caller gave up and another call
  was made, and for two updates that overtake each other. The engine's errors are two captured from it
  (`tests/fixtures/api_captures.json`), one with a code that the SDK lists and one
  without, and one whose status it does not list either.
- **`PastEnd`** is TRUE in `transports_dedup` and `polling_next_seq`, which is what the
  captured responses have, and FALSE in `polling_confirm`, which is what
  `README.en.md:90` has and under which nothing is passed unseen.

`CHECK_DEADLOCK FALSE` is set where the system may really stop: in the push runs,
where every source may be closed and have returned (`transports_dedup` is one of
them), in the webhook runs, where the engine may have come to an end with every event,
and in `management_calls`, where the calls of the bound are used up. In the other runs something
can always happen, and TLC checks that.

### Fairness

`FairPushSpec` and `FairPollingSpec` ask weak fairness of `Progress(s)` for each
source: its task is scheduled, handlers return, requests are answered, a backoff
ends (it is a finite sleep), and whoever ran the source runs it again after an
exception, as the supervisor does (`sources/base.py:70-82`). Faults, `aclose`
and publication are not fair; faults are finite by `MaxFaults`, which is the
assumption that the network is up long enough in the end. For
`EventuallyRetried`, note what it does not say: a handler that always fails is
run again and again, and the property holds because it is run. `push_cursor` runs
`MCFairPushSpec`, which is `FairPushSpec` without `StoreCursor` and `ForgetMark`:
over its store and with its marks neither is ever enabled. Both are steps of
`transports_dedup`.

`FairWebhookSpec` asks weak fairness of every request's own progress, and strong
fairness of the posting of each event: a pending event gets a connection if one
is free again and again, which is what retrying means. `EventuallyJudged` excepts
the events whose handler keeps failing without a mark that answers for it, and
the body that is no text (500 for ever).

`FairSupervisorSpec` asks weak fairness of `stop()` and its `aclose()` calls, of the
first turn of every task and the end of every backoff, and of the return of a
closed SSE source, whose stream is cut. A WS source's return is not fair (its
server may never end the connection), and a poller has none.

## 4. Findings

1. **A later success passes a failed event** (`push_error_passed`). On ERRORED
   the push sources skip the advance but go on with the same stream; the next
   success advances the cursor past the failed event, which never comes again.
   `docs/architecture.en.md:70-71` says it is redelivered on reconnect. The
   positive side is `CursorOnSettled` and `PromiseSpec` with the failing events
   excused.
2. **`next_seq` may be one past the batch** (`polling_next_seq`). `run()`
   confirms `batch.next_seq` through a call documented as inclusive; the captured
   response (`tests/fixtures/api_captures.json:143`) has `next_seq` 3 after items
   1 and 2. An event published between fetch and confirmation is then confirmed
   unseen. It is one event at most, the one right after the batch: `PollingPassedWereFed`,
   `PollingKeepsPromise` and the theorems of `Transports` are proved wherever `next_seq`
   is, with that event excepted. That nothing at all is passed is proved for `~PastEnd`
   (`PollingConfirmedWereFed`, `PollingConfirmedWereProcessed`).
3. **Dedup acknowledges a failed event** (`webhook_acked`). The mark is written
   before the handler runs and kept when it fails. The redelivery that the 503
   asked for is a DUPLICATE, which is answered 200, and the engine stops; in the
   same way a polled batch counts as clean in the next round and is confirmed.
   With dedup there is thus at most one attempt per event, and the promises of
   section 5 are proved for `~Dedup`.
4. **The error boundary swallows SkipHandler** (`routing_boundary`).
   `ErrorBoundaryMiddleware` catches `Exception`, which `SkipHandler` is, so that
   the dispatch ends ERRORED instead of falling through (`dispatch/router.py:12`).

Smaller observations, not runs:

- "A source task that exits/raises is restarted with exp backoff" (`sources/base.py:42`):
  one that raises is, one that exits is run again at once. A source that is closed
  under a running supervisor, by its own `aclose()` or by a `stop()` that comes before
  `run()` has begun, exits at once every time, and the event loop stands still. The
  model has both: `~Frozen`, put in the place of `StopNeverSpins`, is violated.
- `stop()` does not end a `PollingSource`, whose `aclose()` is inherited and empty.
- A body that is no text is answered 500 and retried for ever, though a malformed
  body should be terminal; a frame that cannot be decoded stops a push source for
  good, since every reconnect meets it again.
- "Every non-2xx response becomes a typed `ManagementApiError`" (`client.py:4`) has
  exceptions: an error whose body is JSON but no object is an `AttributeError`, one
  whose `error` is itself an object or a list a `TypeError`, and a redirect is parsed as
  data. An answer below 400 that is not the engine's is a `ValueError`, a `TypeError` or
  a `KeyError`, and a closed client, or one that another task closes during the call,
  raises a `RuntimeError`. The model has them all; no property lists them.
- One subscription of an unknown kind makes every `list_subscriptions` fail, and a
  create or update of such a one raises a `ValueError` after it was carried out.
- A magic filter "never crashes routing" (`dispatch/filters.py:94`), but an
  `IndexError` in it leaves `feed`; and as the class has no `__bool__`, `1 < F.seq < 5`
  is `F.seq < 5`.
- A handler with a required `payload` parameter ends ERRORED for an event whose
  payload does not parse, where `events/registry.py:15` says "never an error".
- `README.en.md` shows a `dispatcher.run(source)` that does not exist.

## 5. The proofs

TLAPS proves, for every set of tasks and events and every number of faults:

| Theorem | From |
|---|---|
| `DispatchTyping`, `DispatchSingleFlight`, `DispatchNeverReprocesses` | `DispatchAssumption` |
| `PushTyping`, `PushNoUnseenSkip`, `PushUsesDispatcher`, `PushSingleFlight`, `PushNeverReprocesses`, `PushCursorOnSettled`, `PushCursorMonotone` | and `PushAssumption` |
| `PushKeepsPromise` (the push sources implement `Delivery`) | and `~Dedup`, `AtomicStore` |
| `PollingTyping`, `PollingUsesDispatcher`, `PollingSingleFlight`, `PollingNeverReprocesses`, `PollingPassedWereFed` | `DispatchAssumption`, `PollingAssumption` |
| `PollingKeepsPromise` (the pollers implement `Delivery`) | and `~Dedup` |
| `PollingConfirmedWereFed` | and `~PastEnd` |
| `PollingConfirmedWereProcessed` | and `~PastEnd`, `~Dedup` |
| `TransportsUseDispatcher` (push sources and pollers together implement `Dispatch`), `TransportsSingleFlight`, `TransportsNeverReprocess`, `TransportsNoneSkipped` | `TransportsAssumption` |
| `TransportsKeepPromise` (each implements `Delivery` beside the others) | and `~Dedup`, `AtomicStore` |
| `RoutingTyping`, `DepthFirst`, `FirstMatchWins`, `NoHandlerTwice`, `ExtrasAreOwn`, `FeedRefinesDispatch` (the walk implements `Dispatch`) | `RoutingAssumption`, `FiltersAssumption` |
| `ForwardCompatibility` | and that events keep the fields which the filters read |
| `WebhookTyping`, `WebhookUsesDispatcher`, `WebhookSingleFlight`, `WebhookNeverReprocesses`, `WebhookDroppedWereRefused` | `DispatchAssumption`, `WebhookAssumption` |
| `WebhookAckedOnlyProcessed` | and `~Dedup` |
| `StorageTyping`, `StorageSweptClean`, `StorageIsTtlMap` (the dictionary implements `TtlMap`) | `MemoryStorageAssumption` |
| `ManagementTyping`, `ManagementChangesHold`, `ManagementNoneMadeUnnoticed` | `ManagementAssumption`, `NoneIsNoValue` |
| `SupervisorTyping`, `SupervisorAllSupervised`, `SupervisorStopNeverSpins`, `SupervisorNoneRunAnew` | `SupervisorAssumption` |

The assumptions on the constants only give their types. (`RefusalsAssumption`, that a
code which the SDK lists comes with the status it belongs to, is what `CaughtByFamily`
rests on; it has a lemma, which for a listed code says no more than that, and the run is
about the fallback for the others.) That the consumer includes routers as a tree is in
`RoutingNext`. `ForwardCompatibility` takes any attributes and keys whose fields
(`Fields`) events keep when they get a field more, which `FieldsAreKept` checks of the
run's, and any filters that are the consumer's, an `EventTypeFilter` that accepts the
extensions of what it accepts, or a member of `Expressions`: the least set that has
these fields and is closed under the operators of the class. The other conditions are
the limits of findings 2 and 3, and, for `AtomicStore`, the fact that over a suspending
store the cursor can move back, which `Delivery` forbids.

The arguments:

- *Dispatch.* `SingleFlight` is not inductive: the invariant adds `Marked`, that
  every event in flight, and with a durable store every settled one, is marked
  or may have lost its mark to expiry. A new handler needs an unmarked key.
- *From component to composition.* `PushUsesDispatcher`, `PollingUsesDispatcher`
  and `WebhookUsesDispatcher` show that every step of a source is a dispatcher step or
  leaves the dispatcher alone. What was proved about the dispatcher is then
  carried over in one line. In the same way `AckedOnlyProcessed` is refuted by a run
  with dedup and proved without.
- *NoUnseenSkip.* The invariant adds that every event up to a source's `pos`
  is fed: the stream starts after the cursor, which passes nothing unfed, and goes
  on one event at a time. It holds over a suspending store, too, although the
  cursor may move back there.
- *Push promise.* Every event that a source passed without dedup is settled or
  may fail, and an event whose source is past its handler is settled; hence
  whatever the cursor passes is.
- *Polling.* `BatchIsPrefix` says that nothing pending lies below an item of a
  batch and outside it. The invariant relates position, batch and `todo`: what is
  in the batch and no longer to do was fed, and settled unless `allOk` is lost.
  A batch that a second poller fetched earlier may be behind `lastRead` by the
  time it is confirmed; the engine's maximum makes that harmless. If `next_seq` is one
  past the batch, each of these facts excepts the events that come right after one
  that was fed, or settled (`Seen`, `Done`).
- *Transports.* The theorems of the two kinds of sources are instantiated with the
  variables of this composition. A step of one kind leaves alone every variable that
  the invariants of the other read, except for the log, the marks and the count of
  faults, whose types it keeps (`TypeNext`), so that both invariants hold side by side
  (`FedNext`). For the dispatcher, the tasks in feed of both kinds are joined in one
  function; that one task alone moves in it (`OneTaskMoves`) needs the domains from the
  type invariants and that no task is of both kinds. For the promise, a step of one
  kind shows to the other as an event that is published or processed, which its
  promise allows at any time (`PushShows`, `PollShows`), and the invariants behind the
  promise only gain when more is settled (`PassInvElsewhere`, `SettledInvElsewhere`).
- *The router tree.* `Forest` says that no router is included twice and that there is a
  rank which falls from a router to those it includes; `IncludeRouter` keeps it because
  a router that is included lies in no tree yet and does not contain the one it goes to. `Subtree` is the least closed set. Induction goes
  through sets, not through an operator: a set of numbers that is not all of them has
  a least number outside it (`LeastNat`, `Inductive`), and the rank turns
  statements about trees into statements about numbers. So `walk()`, a recursive
  function over the routers, is shown to be defined (`WalkDefined`, `WalkUnique`), and its
  list, by a lemma on flattening a sequence of sequences (`Flatten`), to be the preorder.
- *The walk of `feed`.* `RoutingInv` describes a suspended dispatch: it is at a handler of
  the list (`LocalsOK`), has passed exactly the handlers at the places its loops came by,
  found there all that there was when it began, and has data of the current handler only
  (`Underway`). None of `NoneOvertaken`, `TriedOnce` and `OwnExtras` is inductive without
  it, nor without `HandlersOnce` and the routers of the list being different. Handlers
  registered meanwhile are appended to live lists, which moves no place (`OnKeeps`). In
  the refinement `Begin` is `FeedStart`, a step that ends the dispatch with an outcome is
  `FeedReturn`, `Leave` is `FeedAbort`, and the rest stutters.
- *Forward compatibility.* Accesses, comparisons, `&`, `|` and `~` keep expressions
  steady (`AccessSteady`, `ComparedSteady`, `ConnectivesSteady`): a missing field is an
  exception that none of them turns into a match. The steady expressions are thus closed
  under the operators, and contain the least closed set (`ExpressionsSteady`).
  `KeepsMatching` is then what `Underway` says of the filters that let the event pass.
- *Webhook.* Both invariants are inductive with the type invariant, which ties a
  request's phase to the handler in flight. The lemma on `Answer` is the heart:
  a status other than 200 acknowledges nothing, and 200, 500 and 503 drop nothing.
- *Storage.* `SweptClean` is inductive with the type invariant. The refinement rests on
  two lemmas: an entry is live exactly if it has not expired (`LiveUnexpired`), and
  a sweep takes nothing but what has (`SweepEffect`), so that nobody sees it.
- *Management client.* `ChangesHold` needs that a request on the wire, and an answer that
  has arrived, belong to a call that `named` records for each field its body names, and
  that nobody else's request can then name a field which one call alone asked for; a
  step of the engine is reduced to its effect on one subscription (`EngineEffect`), and
  the step of a caller to one call more (`CallerKeepsChanges`). `NoneMadeUnnoticed` is not
  inductive: the invariant `Budget` adds, per caller, the additions still on the wire
  and an error that will deny the open call's, and `OrderOK` that an answer goes to a
  call only from the request of that very call. `ManagementTyping`
  needs, per caller, that call, answer and result fit one another, and that the calls of
  all callers together stay within the bound, which is a lemma on sums over finite sets
  (`SumAtLeast`).
- *Supervisor.* `StopNeverSpins` needs `ClosedOnlyByStop`: whatever is closed, when neither
  the consumer nor a late `run()` interfered, was closed by a `stop()` that had set the
  flag before. `AllSupervised` needs that no task outlives its `run()`, else a flag
  cleared by the next one would expose the tasks the last one ended.

Every invariant, action property and refinement that a passing run checks is also
proved. Only model-checked is liveness (`EventuallyDelivered`, `EventuallyRetried`,
`EventuallyConfirmed`, `EventuallyJudged`, `StopEndsSources`), which rests on `ENABLED`
and is out of the installed provers' reach. The four violations of section 4 are
counterexamples on an instance and need no proof.

## 6. What is not modelled

- Lengths of backoffs and sleeps, jitter, wire formats, logging, payload
  parsing, keyword injection. They do not change what is delivered.
- Several subscriptions: cursor keys and dedup keys carry the subscription, so
  that two subscriptions never meet. Events that carry an `Idempotency-Key` or
  an `event_id` come by webhook only.
- `ConfirmMode.MANUAL`: the constant is there; what a handler then confirms by
  itself is not.
- `stream()` used without `run()`, where the consumer decides on the cursor.
- Router cycles (`walk()` does not terminate on them) and a router included
  twice.
- A webhook path without a subscription, ASGI scopes other than `http`,
  `as_starlette_route`: they end before anything is read.
- Two calls of the supervisor's `run()` at once, or of `stop()`.
- The package's enums and the fields of records that decide nothing; the logging
  middleware, which has no state; the payload registry, whose failures the model has as
  an exception that leaves `feed` or a handler that fails. `seen()` followed by
  `mark()`, which the idempotency store warns of and nothing in `src/` calls.

## 7. Plan

In the order of weight:

1. Proofs: what the liveness properties rest on that is a safety property, as that a
   source that is not closed is never without a step of its own; `Routing` with the
   dedup middleware in front of it, as one composition with `Dispatch`.
2. `Dispatch` and the cursors over `MemoryStorage`: that `seen` and `cursor` are what its
   dictionary shows, with the keys of the two stores.
3. Backoffs with their lengths, in the supervisor and in the sources; manual
   confirmation.
