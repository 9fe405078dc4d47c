----------------------------- MODULE Transports -----------------------------
(***************************************************************************)
(* One consumer process that receives the same subscription over several   *)
(* transports at once: the push sources and the pollers run side by side   *)
(* over one Dispatcher, one idempotency store and one log of the engine,   *)
(* as under one SourceSupervisor (sources/base.py).  Each keeps its own    *)
(* position, a cursor or the engine's last-read position.                  *)
(*                                                                         *)
(* The webhook receiver is not among them: its dedup keys are              *)
(* Idempotency-Keys, which no sequence number equals.                      *)
(***************************************************************************)
EXTENDS Integers, FiniteSets

CONSTANTS
    PushTasks, PollTasks,      \* the tasks of either
    Keys, Failing, None,       \* as in module Dispatch
    Dedup, Durable, Expiring,
    Kind, AtomicStore,         \* as in module PushSource
    Limit, PastEnd,            \* as in module PollingSource
    MaxFaults                  \* bound: the faults of one behaviour

ASSUME TransportsAssumption ==
    /\ PushTasks \cap PollTasks = {}
    /\ Keys \subseteq Nat \ {0} /\ IsFiniteSet(Keys)
    /\ None \notin Keys
    /\ Failing \subseteq Keys /\ Expiring \subseteq Keys
    /\ {Dedup, Durable, AtomicStore, PastEnd} \subseteq BOOLEAN
    /\ Kind \in [PushTasks -> {"SSE", "WS"}]
    /\ Limit \in Nat \ {0}
    /\ MaxFaults \in Nat

VARIABLES
    tip, faults, seen, settled,                   \* what they share
    pushRunning, pushPhase, closed, pos, cursor, pushFed,
    pollRunning, pollPhase, lastRead, items, todo, drained, allOk, pollFed

pushOwn == <<pushRunning, pushPhase, closed, pos, cursor, pushFed>>
pollOwn == <<pollRunning, pollPhase, lastRead, items, todo, drained, allOk, pollFed>>
transportVars == <<tip, faults, seen, settled, pushOwn, pollOwn>>

Push == INSTANCE PushSource WITH
    Tasks <- PushTasks, Malformed <- {},
    running <- pushRunning, phase <- pushPhase, fed <- pushFed

Poll == INSTANCE PollingSource WITH
    Tasks <- PollTasks, AutoConfirm <- TRUE,
    running <- pollRunning, phase <- pollPhase, fed <- pollFed

TransportsInit == Push!PushInit /\ Poll!PollingInit

\* A step of a push source, or of what only such a source meets.
PushStep(s) ==
    /\ Push!Progress(s) \/ Push!Drop(s) \/ Push!Abort(s) \/ Push!Close(s)
    /\ UNCHANGED pollOwn

PollStep(s) ==
    /\ Poll!Progress(s) \/ Poll!ConfirmLost(s) \/ Poll!Abort(s)
    /\ UNCHANGED pushOwn

Publish == Push!Publish /\ UNCHANGED pollOwn

ForgetMark(n) == Push!ForgetMark(n) /\ UNCHANGED pollOwn

\* The one process of all sources dies and is started again.
ProcessRestart == Push!ProcessRestart /\ Poll!ProcessRestart

TransportsNext ==
    \/ Publish
    \/ \E s \in PushTasks: PushStep(s)
    \/ \E s \in PollTasks: PollStep(s)
    \/ \E n \in Keys: ForgetMark(n)
    \/ ProcessRestart

TransportsSpec == TransportsInit /\ [][TransportsNext]_transportVars

-----------------------------------------------------------------------------
\* The dispatcher as all of them use it.
AllTasks == PushTasks \cup PollTasks

Shared == INSTANCE Dispatch WITH
    Tasks <- AllTasks,
    running <- [t \in AllTasks |-> IF t \in PushTasks THEN pushRunning[t] ELSE pollRunning[t]]

\* One event that arrives over two transports at the same moment is handled
\* by one of them, while its mark is kept (middleware/idempotency.py:27).
SingleFlight == Shared!SingleFlight

\* An event that one transport has dispatched without an error is not handled
\* again when another brings it, now or after a restart.
NeverReprocessed == Shared!NeverReprocessed

\* What one transport has processed lets no other skip an event: a cursor and
\* the last-read position pass only what their own transport has fed, and the
\* latter, if next_seq is one past the batch, the event right after that.
NoneSkipped == Push!NoUnseenSkip /\ Poll!PassedWereFed
=============================================================================
