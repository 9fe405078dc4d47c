---------------------------- MODULE PollingSource ----------------------------
(***************************************************************************)
(* The polling transport, PollingSource (sources/polling.py), over the     *)
(* shared Dispatcher and the engine's REST calls poll_pending and          *)
(* confirm_read (client.py).                                               *)
(*                                                                         *)
(* Each round fetches a batch of the events after the engine's own         *)
(* last-read position, awaits the dispatch of every item, and confirms the *)
(* batch only if no dispatch ended ERRORED.  The position lives in the     *)
(* engine and survives the consumer.                                       *)
(*                                                                         *)
(* All pollers here are of ONE subscription.  An event's dedup key is its  *)
(* sequence number.  Time is abstracted: a sleep is a phase the poller may *)
(* leave at any moment.                                                    *)
(***************************************************************************)
EXTENDS Dispatch, Integers, FiniteSets

CONSTANTS
    Limit,        \* PollingConfig.limit, the size of a batch
    AutoConfirm,  \* TRUE: ConfirmMode.AUTO; FALSE: ConfirmMode.MANUAL
    PastEnd,      \* TRUE: next_seq is one past the batch's last event
    MaxFaults     \* bound: failed calls, crashes and restarts in one behaviour

ASSUME PollingAssumption ==
    /\ Keys \subseteq Nat \ {0}
    /\ IsFiniteSet(Keys)
    /\ Limit \in Nat \ {0}
    /\ AutoConfirm \in BOOLEAN
    /\ PastEnd \in BOOLEAN
    /\ MaxFaults \in Nat

VARIABLES
    tip,          \* the newest event the engine has published, 0 at first
    lastRead,     \* the engine's last-read position
    phase,        \* per poller, where its task is
    items,        \* per poller, the events of its batch
    todo,         \* per poller, the items not dispatched yet
    drained,      \* per poller, batch.drained
    allOk,        \* per poller, the all_ok flag of run()
    fed,          \* history: the events given to feed
    faults        \* the faults so far, bounded by MaxFaults

batchVars == <<items, todo, drained, allOk>>
pollingVars == <<tip, lastRead, phase, batchVars, fed, faults, dispatchVars>>

\* polling: poll_pending is under way.  dispatching: between two items.
\* feeding: inside feed.  confirming: confirm_read is under way.  sleeping:
\* in asyncio.sleep.  aborted: run() was left by an exception.
Phases == {"polling", "dispatching", "feeding", "confirming", "sleeping",
           "aborted"}

PollingInit ==
    /\ tip = 0
    /\ lastRead = 0
    /\ phase = [s \in Tasks |-> "polling"]
    /\ items = [s \in Tasks |-> {}]
    /\ todo = [s \in Tasks |-> {}]
    /\ drained = [s \in Tasks |-> TRUE]
    /\ allOk = [s \in Tasks |-> TRUE]
    /\ fed = {}
    /\ faults = 0
    /\ DispatchInit

Enter(s, p) == phase' = [phase EXCEPT ![s] = p]

Fault ==
    /\ faults < MaxFaults
    /\ faults' = faults + 1

First(S, n) == n \in S /\ \A m \in S: n <= m
Last(S, n) == n \in S /\ \A m \in S: m <= n

-----------------------------------------------------------------------------
(* The engine. *)

\* The engine appends an event that matches the subscription.
Publish ==
    /\ \E n \in Keys: First({m \in Keys: m > tip}, n) /\ tip' = n
    /\ UNCHANGED <<lastRead, phase, batchVars, fed, faults, dispatchVars>>

\* The events poll_pending is to return, the oldest Limit of them at a time.
Pending == {n \in Keys: lastRead < n /\ n <= tip}
Batch == {n \in Pending: Cardinality({m \in Pending: m <= n}) <= Limit}

\* The next_seq the engine reports with a batch whose last event is n.
NextSeq(n) == IF PastEnd THEN n + 1 ELSE n

\* read_events is inclusive, and a no-op for a position passed already.
MarkRead(upTo) == lastRead' = IF upTo > lastRead THEN upTo ELSE lastRead

-----------------------------------------------------------------------------
(* The poller's task. *)

\* poll_pending answers: a new round begins.
Fetch(s) ==
    /\ phase[s] = "polling"
    /\ items' = [items EXCEPT ![s] = Batch]
    /\ todo' = [todo EXCEPT ![s] = Batch]
    /\ drained' = [drained EXCEPT ![s] = (Batch = Pending)]
    /\ allOk' = [allOk EXCEPT ![s] = TRUE]
    /\ Enter(s, "dispatching")
    /\ UNCHANGED <<tip, lastRead, fed, faults, dispatchVars>>

\* The next item of the batch is fed to the dispatcher.
DispatchItem(s, n) ==
    /\ phase[s] = "dispatching"
    /\ First(todo[s], n)
    /\ \/ FeedDuplicate(s, n) /\ UNCHANGED phase
       \/ FeedStart(s, n) /\ Enter(s, "feeding")
    /\ todo' = [todo EXCEPT ![s] = @ \ {n}]
    /\ fed' = fed \cup {n}
    /\ UNCHANGED <<tip, lastRead, items, drained, allOk, faults>>

\* Mutant of HandlerReturns: an ERRORED result does not spoil the batch.
HandlerReturnsAnyhow(s, outcome) ==
    /\ phase[s] = "feeding"
    /\ FeedReturn(s, outcome)
    /\ Enter(s, "dispatching")
    /\ UNCHANGED <<tip, lastRead, batchVars, fed, faults>>

\* feed returns; an ERRORED item spoils the batch, and the rest of it is
\* dispatched all the same.
HandlerReturns(s, outcome) ==
    /\ phase[s] = "feeding"
    /\ FeedReturn(s, outcome)
    /\ Enter(s, "dispatching")
    /\ allOk' = [allOk EXCEPT ![s] = @ /\ outcome # "ERRORED"]
    /\ UNCHANGED <<tip, lastRead, items, todo, drained, fed, faults>>

\* The round is over: sleep if the engine had no more, else poll at once.
NextRound(s) == Enter(s, IF drained[s] THEN "sleeping" ELSE "polling")

\* Mutants of Confirmable: all_ok is not consulted, and only the last batch
\* is confirmed.
ConfirmableAnyhow(s) == AutoConfirm /\ items[s] # {}
ConfirmableWhenDrained(s) == AutoConfirm /\ items[s] # {} /\ allOk[s] /\ drained[s]

Confirmable(s) == AutoConfirm /\ items[s] # {} /\ allOk[s]

\* Mutant of EndBatch: the batch is confirmed before all of it is dispatched.
EndBatchEarly(s) ==
    /\ phase[s] = "dispatching"
    /\ IF Confirmable(s) THEN Enter(s, "confirming") ELSE NextRound(s)
    /\ UNCHANGED <<tip, lastRead, batchVars, fed, faults, dispatchVars>>

EndBatch(s) ==
    /\ phase[s] = "dispatching"
    /\ todo[s] = {}
    /\ IF Confirmable(s) THEN Enter(s, "confirming") ELSE NextRound(s)
    /\ UNCHANGED <<tip, lastRead, batchVars, fed, faults, dispatchVars>>

\* confirm_read(up_to_seq=batch.next_seq) succeeds.
Confirm(s) ==
    /\ phase[s] = "confirming"
    /\ \E n \in items[s]: Last(items[s], n) /\ MarkRead(NextSeq(n))
    /\ NextRound(s)
    /\ UNCHANGED <<tip, batchVars, fed, faults, dispatchVars>>

\* confirm_read fails although the engine has applied it: the answer is lost
\* and run() is left by the exception.
ConfirmLost(s) ==
    /\ phase[s] = "confirming"
    /\ \E n \in items[s]: Last(items[s], n) /\ MarkRead(NextSeq(n))
    /\ Enter(s, "aborted")
    /\ Fault
    /\ UNCHANGED <<tip, batchVars, fed, dispatchVars>>

Wake(s) ==
    /\ phase[s] = "sleeping"
    /\ Enter(s, "polling")
    /\ UNCHANGED <<tip, lastRead, batchVars, fed, faults, dispatchVars>>

\* Mutant of Abort: the handler of an aborted poller is left running.
AbortLeavingHandler(s) ==
    /\ phase[s] # "aborted"
    /\ Enter(s, "aborted")
    /\ Fault
    /\ UNCHANGED <<tip, lastRead, batchVars, fed, dispatchVars>>

\* run() is left by an exception: a call to the engine failed and had no
\* effect, a dispatch raised, or the task was cancelled.
Abort(s) ==
    /\ phase[s] # "aborted"
    /\ IF phase[s] = "feeding" THEN FeedAbort(s) ELSE UNCHANGED dispatchVars
    /\ Enter(s, "aborted")
    /\ Fault
    /\ UNCHANGED <<tip, lastRead, batchVars, fed>>

\* The supervisor, or the consumer, calls run() again on the same source.
Rerun(s) ==
    /\ phase[s] = "aborted"
    /\ Enter(s, "polling")
    /\ UNCHANGED <<tip, lastRead, batchVars, fed, faults, dispatchVars>>

\* The consumer's process dies and is started again; the engine is not.
ProcessRestart ==
    /\ Fault
    /\ DispatchRestart
    /\ phase' = [s \in Tasks |-> "polling"]
    /\ UNCHANGED <<tip, lastRead, batchVars, fed>>

ForgetMark(n) ==
    /\ MarkExpires(n)
    /\ UNCHANGED <<tip, lastRead, phase, batchVars, fed, faults>>

-----------------------------------------------------------------------------
\* What the poller's task does by itself once its calls return.
Progress(s) ==
    \/ Fetch(s) \/ EndBatch(s) \/ Confirm(s) \/ Wake(s) \/ Rerun(s)
    \/ \E n \in Keys: DispatchItem(s, n)
    \/ \E outcome \in Outcomes: HandlerReturns(s, outcome)

PollingNext ==
    \/ Publish
    \/ \E s \in Tasks: Progress(s)
    \/ \E s \in Tasks: ConfirmLost(s) \/ Abort(s)
    \/ ProcessRestart
    \/ \E n \in Keys: ForgetMark(n)

PollingSpec == PollingInit /\ [][PollingNext]_pollingVars

\* Every task runs, every handler returns and every call is answered.
FairPollingSpec == PollingSpec /\ \A s \in Tasks: WF_pollingVars(Progress(s))

-----------------------------------------------------------------------------
\* Every variable has the values the code can give it, and a handler is
\* awaited exactly while its poller is in feed.
PollingTypeOK ==
    /\ tip \in Keys \cup {0}
    /\ lastRead \in Nat
    /\ phase \in [Tasks -> Phases]
    /\ items \in [Tasks -> SUBSET Keys]
    /\ todo \in [Tasks -> SUBSET Keys]
    /\ drained \in [Tasks -> BOOLEAN]
    /\ allOk \in [Tasks -> BOOLEAN]
    /\ fed \subseteq Keys
    /\ faults \in 0..MaxFaults
    /\ DispatchTypeOK
    /\ \A s \in Tasks: running[s] # None <=> phase[s] = "feeding"

\* If next_seq is the batch's last event, the engine's position never passes an
\* event that no poller has fed to the dispatcher: what is confirmed as processed
\* was at least seen, over every interleaving of pollers, lost answer, crash and
\* restart.
ConfirmedWereFed ==
    \A n \in Keys: n <= lastRead => n \in fed

\* Nor does it if next_seq is one past the batch, but for the one event that comes
\* right after an event that was fed: no second event is ever passed with it.
PassedWereFed ==
    \A n \in Keys: n <= lastRead => n \in fed \/ (PastEnd /\ n - 1 \in fed)

\* confirm_read comes "after successful dispatch" (docs/architecture.en.md:54):
\* every confirmed event was dispatched without an error at least once.
ConfirmedWereProcessed ==
    \A n \in Keys: n <= lastRead => n \in settled

\* The pollers implement at-least-once delivery in which no event is excused
\* and the committed position is never lost; it overshoots if next_seq does.
Promise == INSTANCE Delivery WITH
    Events <- Keys, Consumers <- {"polling"}, Excused <- {},
    Overshoot <- PastEnd, Volatile <- FALSE,
    published <- tip, processed <- settled,
    committed <- [c \in {"polling"} |-> lastRead]

PromiseSpec == Promise!DeliverySpec

\* An event that no event with a failing handler precedes is processed in the
\* end, or it is handed to the dispatcher again and again: "redelivered on
\* next poll" (docs/architecture.en.md:71).
EventuallyRetried ==
    \A n \in Keys: (\A m \in Failing: m >= n) =>
        (n <= tip ~> n \in settled \/ \E s \in Tasks: running[s] = n)

\* An event that never shares a batch with, or follows, an event whose handler
\* can fail is confirmed in the end.
Untroubled(n) ==
    \A m \in Failing: m > n /\ Cardinality({k \in Keys: n < k /\ k <= m}) >= Limit

EventuallyConfirmed ==
    \A n \in Keys: Untroubled(n) => (n <= tip ~> n <= lastRead)
=============================================================================
