------------------------------ MODULE Dispatch ------------------------------
(***************************************************************************)
(* Dispatcher.feed with the IdempotencyMiddleware in front of the handlers *)
(* (dispatch/dispatcher.py, middleware/idempotency.py).                    *)
(*                                                                         *)
(* One Dispatcher is shared by every source of a supervisor, and by the    *)
(* webhook receiver: several asyncio tasks are inside feed at once, each   *)
(* suspended in the handler it awaits.  The middleware marks an event's    *)
(* key before it calls the handler and never takes the mark back.          *)
(*                                                                         *)
(* What a handler does is a choice of outcome; the walk that selects the   *)
(* handler is not modelled here.  mark_if_new and the start of the handler *)
(* are one step: the compare-and-set is atomic (storage/base.py:19-23) and *)
(* nothing another task can do tells the two apart.                        *)
(***************************************************************************)
CONSTANTS
    Tasks,        \* the asyncio tasks that call feed
    Keys,         \* the dedup keys of the events
    Failing,      \* the keys whose dispatch may end ERRORED
    None,         \* no event: a task that is outside feed
    Dedup,        \* TRUE: IdempotencyMiddleware is installed
    Durable,      \* TRUE: the storage backend outlives the process
    Expiring      \* the keys that may come again after their mark's TTL (24 h)

ASSUME DispatchAssumption ==
    /\ Failing \subseteq Keys
    /\ None \notin Keys
    /\ Dedup \in BOOLEAN
    /\ Durable \in BOOLEAN
    /\ Expiring \subseteq Keys

VARIABLES
    seen,         \* the keys the IdempotencyStore holds
    running,      \* per task, the event whose handler it awaits, or None
    settled       \* history: the events whose dispatch ended without an error

dispatchVars == <<seen, running, settled>>

Outcomes == {"HANDLED", "SKIPPED", "ERRORED"}

DispatchInit ==
    /\ seen = {}
    /\ running = [t \in Tasks |-> None]
    /\ settled = {}

-----------------------------------------------------------------------------
\* The key is marked already: feed answers DUPLICATE, no handler runs.
FeedDuplicate(t, k) ==
    /\ running[t] = None
    /\ Dedup
    /\ k \in seen
    /\ UNCHANGED dispatchVars

\* Mutant of FeedStart: the middleware marks without testing the mark.
FeedStartUnchecked(t, k) ==
    /\ running[t] = None
    /\ seen' = IF Dedup THEN seen \cup {k} ELSE seen
    /\ running' = [running EXCEPT ![t] = k]
    /\ UNCHANGED settled

\* The key is marked, if the middleware is there, and the handler starts.
FeedStart(t, k) ==
    /\ running[t] = None
    /\ Dedup => k \notin seen
    /\ seen' = IF Dedup THEN seen \cup {k} ELSE seen
    /\ running' = [running EXCEPT ![t] = k]
    /\ UNCHANGED settled

\* Mutant of FeedReturn: the mark is deleted when the handler is done.
FeedReturnUnmarking(t, outcome) ==
    /\ running[t] # None
    /\ outcome = "ERRORED" => running[t] \in Failing
    /\ running' = [running EXCEPT ![t] = None]
    /\ settled' = IF outcome = "ERRORED" THEN settled
                                         ELSE settled \cup {running[t]}
    /\ seen' = seen \ {running[t]}

\* feed returns: the handler finished, none matched, or an exception of the
\* handler became an ERRORED result.  The mark stays, whatever the outcome.
FeedReturn(t, outcome) ==
    /\ running[t] # None
    /\ outcome = "ERRORED" => running[t] \in Failing
    /\ running' = [running EXCEPT ![t] = None]
    /\ settled' = IF outcome = "ERRORED" THEN settled
                                         ELSE settled \cup {running[t]}
    /\ UNCHANGED seen

\* feed is left by an exception: a filter or an outer middleware raised, or
\* the task was cancelled while it awaited the handler.
FeedAbort(t) ==
    /\ running[t] # None
    /\ running' = [running EXCEPT ![t] = None]
    /\ UNCHANGED <<seen, settled>>

\* A mark outlives its TTL and the storage stops reporting it.
MarkExpires(k) ==
    /\ k \in Expiring
    /\ seen' = seen \ {k}
    /\ UNCHANGED <<running, settled>>

\* The process dies and comes back: no handler is running, and the marks are
\* there only if the backend kept them.
DispatchRestart ==
    /\ running' = [t \in Tasks |-> None]
    /\ seen' = IF Durable THEN seen ELSE {}
    /\ UNCHANGED settled

DispatchNext ==
    \/ \E t \in Tasks, k \in Keys: FeedDuplicate(t, k) \/ FeedStart(t, k)
    \/ \E t \in Tasks, outcome \in Outcomes: FeedReturn(t, outcome)
    \/ \E t \in Tasks: FeedAbort(t)
    \/ \E k \in Keys: MarkExpires(k)
    \/ DispatchRestart

DispatchSpec == DispatchInit /\ [][DispatchNext]_dispatchVars

-----------------------------------------------------------------------------
\* Every variable has the values the code can give it.
DispatchTypeOK ==
    /\ seen \subseteq Keys
    /\ running \in [Tasks -> Keys \cup {None}]
    /\ settled \subseteq Keys

\* The check-then-act race of two concurrent redeliveries (memory.py:45-47,
\* idempotency.py:23-28 of storage) never lets two handlers run one event whose
\* mark is kept.
SingleFlight ==
    Dedup => \A t, u \in Tasks:
        running[t] = running[u] /\ running[t] \notin Expiring \cup {None} => t = u

\* An event that was dispatched without error is never handed to a handler
\* again, by any task and across restarts, while its mark is kept.
NeverReprocessed ==
    (Dedup /\ Durable) => \A t \in Tasks: running[t] \notin settled \ Expiring
=============================================================================
