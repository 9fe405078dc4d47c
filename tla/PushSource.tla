----------------------------- MODULE PushSource -----------------------------
(***************************************************************************)
(* The push transports, SSESource and WSSource (sources/sse.py,            *)
(* sources/ws.py), each over the shared Dispatcher and a CursorStore.      *)
(*                                                                         *)
(* A source dials the engine with the stored cursor of its transport as    *)
(* the resume hint, receives the events after it in order, awaits the      *)
(* handler of each, and then advances the cursor, unless the handler       *)
(* failed.  When the stream ends, for any reason, it backs off and dials   *)
(* again.  The two classes run the same loop; what differs is the hint on  *)
(* a fresh start and what aclose() does.                                   *)
(*                                                                         *)
(* All sources here are of ONE subscription, whose cursor is one integer   *)
(* per transport.  An event's dedup key is its sequence number: these      *)
(* transports carry neither an Idempotency-Key nor an event_id.  Time is   *)
(* abstracted: a backoff is a phase the source may leave at any moment.    *)
(***************************************************************************)
EXTENDS Dispatch, Integers

CONSTANTS
    Kind,         \* [Tasks -> Kinds], the transport of each source
    Malformed,    \* the events whose frame the client cannot decode
    AtomicStore,  \* TRUE: storage calls never suspend (MemoryStorage)
    MaxFaults     \* bound: drops, crashes and restarts in one behaviour

Kinds == {"SSE", "WS"}

ASSUME PushAssumption ==
    /\ Keys \subseteq Nat \ {0}
    /\ Kind \in [Tasks -> Kinds]
    /\ Malformed \subseteq Keys
    /\ AtomicStore \in BOOLEAN
    /\ MaxFaults \in Nat

VARIABLES
    tip,          \* the newest event the engine has published, 0 at first
    phase,        \* per source, where its task is
    closed,       \* per source, the _closed flag
    pos,          \* per source, the last sequence number of its stream
    cursor,       \* per transport, the stored last_seq
    fed,          \* history: per transport, the events given to feed
    faults        \* the faults so far, bounded by MaxFaults

sourceVars == <<phase, closed, pos>>
pushVars == <<tip, sourceVars, cursor, fed, faults, dispatchVars>>

\* idle: at the head of stream()'s loop.  dialing: the request is sent.
\* streaming: waiting for a frame.  feeding: inside feed.  advancing: feed
\* has returned and the cursor is to be advanced.  storing: advance() has
\* read an older cursor and is about to write.  sleeping: in the backoff.
\* aborted: run() was left by an exception.  stopped: run() returned.
Phases == {"idle", "dialing", "streaming", "feeding", "advancing", "storing",
           "sleeping", "aborted", "stopped"}

PushInit ==
    /\ tip = 0
    /\ phase = [s \in Tasks |-> "idle"]
    /\ closed = [s \in Tasks |-> FALSE]
    /\ pos = [s \in Tasks |-> 0]
    /\ cursor = [k \in Kinds |-> 0]
    /\ fed = [k \in Kinds |-> {}]
    /\ faults = 0
    /\ DispatchInit

Enter(s, p) == phase' = [phase EXCEPT ![s] = p]

Fault ==
    /\ faults < MaxFaults
    /\ faults' = faults + 1

-----------------------------------------------------------------------------
(* The engine. *)

\* The engine appends an event that matches the subscription.
Publish ==
    /\ tip' \in {n \in Keys: n > tip /\ \A m \in Keys: m > tip => m >= n}
    /\ UNCHANGED <<sourceVars, cursor, fed, faults, dispatchVars>>

\* Where the engine starts a stream: after the hint, from the first event on
\* when there is none.
StartAfter(hint) == IF hint = None THEN 0 ELSE hint

\* n is the next event of s's stream: the engine skips nothing.
NextOf(s, n) ==
    /\ pos[s] < n
    /\ n <= tip
    /\ \A m \in Keys: m <= pos[s] \/ m >= n

-----------------------------------------------------------------------------
(* The source's task. *)

\* Mutants of the hints: the client asks for the event after the next one.
SSEHintPastNext(lastSeq) == IF lastSeq = 0 THEN None ELSE lastSeq + 1
WSHintPastNext(lastSeq) == lastSeq + 1

\* SSE sends no Last-Event-ID for a cursor of 0; WS always sends last_seq.
SSEHint(lastSeq) == IF lastSeq = 0 THEN None ELSE lastSeq
WSHint(lastSeq) == lastSeq

Hint(s) == IF Kind[s] = "SSE" THEN SSEHint(cursor["SSE"]) ELSE WSHint(cursor["WS"])

\* SSESource.aclose() closes the HTTP client as well, so that a request under
\* way or an open stream fails.  WSSource.aclose() leaves its socket alone.
HungUp(s) == closed[s] /\ Kind[s] = "SSE"

\* The loop head of stream(): a closed source returns, an open one reads the
\* cursor and sends its request.
Dial(s) ==
    /\ phase[s] = "idle"
    /\ \/ /\ closed[s]
          /\ Enter(s, "stopped")
          /\ UNCHANGED pos
       \/ /\ ~closed[s]
          /\ Enter(s, "dialing")
          /\ pos' = [pos EXCEPT ![s] = StartAfter(Hint(s))]
    /\ UNCHANGED <<tip, closed, cursor, fed, faults, dispatchVars>>

\* The engine accepts the request and the stream is open.
Open(s) ==
    /\ phase[s] = "dialing"
    /\ ~HungUp(s)
    /\ Enter(s, "streaming")
    /\ UNCHANGED <<tip, closed, pos, cursor, fed, faults, dispatchVars>>

\* Mutant of Receive: the cursor is stored before the event is dispatched.
ReceiveStoringFirst(s, n) ==
    /\ phase[s] = "streaming"
    /\ NextOf(s, n)
    /\ n \notin Malformed
    /\ \/ FeedDuplicate(s, n) /\ Enter(s, "advancing")
       \/ FeedStart(s, n) /\ Enter(s, "feeding")
    /\ pos' = [pos EXCEPT ![s] = n]
    /\ fed' = [fed EXCEPT ![Kind[s]] = @ \cup {n}]
    /\ cursor' = [cursor EXCEPT ![Kind[s]] = IF n > @ THEN n ELSE @]
    /\ UNCHANGED <<tip, closed, faults>>

\* A frame is decoded and run() feeds the event.  _closed is not consulted:
\* what is read after aclose(), from an open socket or from the lines SSE
\* has buffered, is dispatched all the same.
Receive(s, n) ==
    /\ phase[s] = "streaming"
    /\ NextOf(s, n)
    /\ n \notin Malformed
    /\ \/ FeedDuplicate(s, n) /\ Enter(s, "advancing")
       \/ FeedStart(s, n) /\ Enter(s, "feeding")
    /\ pos' = [pos EXCEPT ![s] = n]
    /\ fed' = [fed EXCEPT ![Kind[s]] = @ \cup {n}]
    /\ UNCHANGED <<tip, closed, cursor, faults>>

\* Mutant of HandlerReturns: the outcome is not looked at.
HandlerReturnsAnyhow(s, outcome) ==
    /\ phase[s] = "feeding"
    /\ FeedReturn(s, outcome)
    /\ Enter(s, "advancing")
    /\ UNCHANGED <<tip, closed, pos, cursor, fed, faults>>

\* feed returns.  On ERRORED the loop continues with the next frame of the
\* same stream; on any other outcome the cursor is advanced first.
HandlerReturns(s, outcome) ==
    /\ phase[s] = "feeding"
    /\ FeedReturn(s, outcome)
    /\ Enter(s, IF outcome = "ERRORED" THEN "streaming" ELSE "advancing")
    /\ UNCHANGED <<tip, closed, pos, cursor, fed, faults>>

\* Mutant of Advance: the cursor is set without comparing.
AdvanceUnguarded(s) ==
    /\ phase[s] = "advancing"
    /\ Enter(s, "streaming")
    /\ cursor' = [cursor EXCEPT ![Kind[s]] = pos[s]]
    /\ UNCHANGED <<tip, closed, pos, fed, faults, dispatchVars>>

\* CursorStore.advance: the cursor moves only forward.  Over MemoryStorage
\* its read and its write are one step, otherwise the write follows later.
Advance(s) ==
    /\ phase[s] = "advancing"
    /\ \/ /\ pos[s] <= cursor[Kind[s]]
          /\ Enter(s, "streaming")
          /\ UNCHANGED cursor
       \/ /\ pos[s] > cursor[Kind[s]]
          /\ AtomicStore
          /\ Enter(s, "streaming")
          /\ cursor' = [cursor EXCEPT ![Kind[s]] = pos[s]]
       \/ /\ pos[s] > cursor[Kind[s]]
          /\ ~AtomicStore
          /\ Enter(s, "storing")
          /\ UNCHANGED cursor
    /\ UNCHANGED <<tip, closed, pos, fed, faults, dispatchVars>>

StoreCursor(s) ==
    /\ phase[s] = "storing"
    /\ Enter(s, "streaming")
    /\ cursor' = [cursor EXCEPT ![Kind[s]] = pos[s]]
    /\ UNCHANGED <<tip, closed, pos, fed, faults, dispatchVars>>

\* Mutant of Disconnected: stream() ends with its first connection.
DisconnectedForGood(s) == Enter(s, "stopped")

\* What stream() does when its connection is over: return if the source was
\* closed meanwhile, back off otherwise.
Disconnected(s) == Enter(s, IF closed[s] THEN "stopped" ELSE "sleeping")

\* A frame the decoder rejects ends the connection, like a lost one.  The
\* cursor is before it, so the next connection meets it again.
BadFrame(s) ==
    /\ phase[s] = "streaming"
    /\ \E n \in Malformed: NextOf(s, n)
    /\ Disconnected(s)
    /\ UNCHANGED <<tip, closed, pos, cursor, fed, faults, dispatchVars>>

\* The dial is refused, or the open stream ends or is lost.
Drop(s) ==
    /\ phase[s] \in {"dialing", "streaming"}
    /\ Disconnected(s)
    /\ Fault
    /\ UNCHANGED <<tip, closed, pos, cursor, fed, dispatchVars>>

\* The request or the stream of a closed HTTP client fails.
HangUp(s) ==
    /\ phase[s] \in {"dialing", "streaming"}
    /\ HungUp(s)
    /\ Disconnected(s)
    /\ UNCHANGED <<tip, closed, pos, cursor, fed, faults, dispatchVars>>

Wake(s) ==
    /\ phase[s] = "sleeping"
    /\ Enter(s, "idle")
    /\ UNCHANGED <<tip, closed, pos, cursor, fed, faults, dispatchVars>>

\* Mutants of Abort: the handler of an aborted source is left running, and
\* the mark of the event is taken back.
AbortLeavingHandler(s) ==
    /\ phase[s] \notin {"idle", "aborted", "stopped"}
    /\ Enter(s, "aborted")
    /\ Fault
    /\ UNCHANGED <<tip, closed, pos, cursor, fed, dispatchVars>>

AbortUnmarking(s) ==
    /\ phase[s] = "feeding"
    /\ running' = [running EXCEPT ![s] = None]
    /\ seen' = seen \ {pos[s]}
    /\ Enter(s, "aborted")
    /\ Fault
    /\ UNCHANGED <<tip, closed, pos, cursor, fed, settled>>

\* run() is left by an exception its stream does not catch, out of feed, of
\* the cursor store or of the transport, or by the task's cancellation.
Abort(s) ==
    /\ phase[s] \notin {"idle", "aborted", "stopped"}
    /\ IF phase[s] = "feeding" THEN FeedAbort(s) ELSE UNCHANGED dispatchVars
    /\ Enter(s, "aborted")
    /\ Fault
    /\ UNCHANGED <<tip, closed, pos, cursor, fed>>

\* The supervisor, or the consumer, calls run() again on the same source.
Rerun(s) ==
    /\ phase[s] = "aborted"
    /\ Enter(s, "idle")
    /\ UNCHANGED <<tip, closed, pos, cursor, fed, faults, dispatchVars>>

-----------------------------------------------------------------------------
(* The consumer's process. *)

\* aclose() sets the flag that the loop of stream() consults.
Close(s) ==
    /\ ~closed[s]
    /\ closed' = [closed EXCEPT ![s] = TRUE]
    /\ UNCHANGED <<tip, phase, pos, cursor, fed, faults, dispatchVars>>

\* The process dies and is started again with new source objects.
ProcessRestart ==
    /\ Fault
    /\ DispatchRestart
    /\ phase' = [s \in Tasks |-> "idle"]
    /\ closed' = [s \in Tasks |-> FALSE]
    /\ pos' = [s \in Tasks |-> 0]
    /\ cursor' = IF Durable THEN cursor ELSE [k \in Kinds |-> 0]
    /\ UNCHANGED <<tip, fed>>

ForgetMark(n) == MarkExpires(n) /\ UNCHANGED <<tip, sourceVars, cursor, fed, faults>>

-----------------------------------------------------------------------------
\* What the source's task does by itself once its I/O answers.
Progress(s) ==
    \/ Dial(s) \/ Open(s) \/ Advance(s) \/ StoreCursor(s)
    \/ BadFrame(s) \/ HangUp(s) \/ Wake(s) \/ Rerun(s)
    \/ \E n \in Keys: Receive(s, n)
    \/ \E outcome \in Outcomes: HandlerReturns(s, outcome)

PushNext ==
    \/ Publish
    \/ \E s \in Tasks: Progress(s)
    \/ \E s \in Tasks: Drop(s) \/ Abort(s) \/ Close(s)
    \/ ProcessRestart
    \/ \E n \in Keys: ForgetMark(n)

PushSpec == PushInit /\ [][PushNext]_pushVars

\* Every task runs, every handler returns and every request is answered.
FairPushSpec == PushSpec /\ \A s \in Tasks: WF_pushVars(Progress(s))
-----------------------------------------------------------------------------
\* A handler is awaited exactly while its source is in feed, and it runs the
\* event at pos.
HandlerAwaited ==
    \A s \in Tasks: running[s] = IF phase[s] = "feeding" THEN pos[s] ELSE None

\* Every variable has the values the code can give it, and the dispatcher's
\* idea of what is in flight agrees with the sources'.
PushTypeOK ==
    /\ tip \in Keys \cup {0}
    /\ phase \in [Tasks -> Phases]
    /\ closed \in [Tasks -> BOOLEAN]
    /\ pos \in [Tasks -> Keys \cup {0}]
    /\ cursor \in [Kinds -> Keys \cup {0}]
    /\ fed \in [Kinds -> SUBSET Keys]
    /\ faults \in 0..MaxFaults
    /\ DispatchTypeOK
    /\ HandlerAwaited

\* The cursor of a transport never passes an event that no source of that
\* transport has fed to the dispatcher: over every interleaving of sources
\* that share the cursor, drop, decoding error, crash and restart.
NoUnseenSkip ==
    \A k \in Kinds: \A n \in Keys: n <= cursor[k] => n \in fed[k]

\* The cursor rests on an event whose dispatch ended without an error: it is
\* "advanced only after successful dispatch" (storage/cursor.py:10-11).
CursorOnSettled ==
    ~Dedup => \A k \in Kinds: cursor[k] \in settled \cup {0}

\* The stored cursor never moves back while its store lives, even when two
\* sources of one transport advance it out of order.
CursorMonotone ==
    [][AtomicStore =>
        \/ \A k \in Kinds: cursor'[k] >= cursor[k]
        \/ ~Durable /\ ProcessRestart]_pushVars

\* docs/architecture.en.md:70-71: a handler exception "does not advance the
\* cursor past the failed seq (redelivered on reconnect/next poll)".
FailedNotPassed ==
    \A k \in Kinds: \A n \in Keys: n <= cursor[k] => n \in settled

\* The sources implement at-least-once delivery in which only an event whose
\* handler can raise is excused.
Promise == INSTANCE Delivery WITH
    Events <- Keys, Consumers <- Kinds, Excused <- Failing,
    Overshoot <- FALSE, Volatile <- ~Durable,
    published <- tip, processed <- settled, committed <- cursor

PromiseSpec == Promise!DeliverySpec

\* The composition uses the dispatcher only as its specification allows.
DispatcherUsed == DispatchSpec

\* Every published event that no undecodable frame precedes is eventually
\* fed, and passed by the cursor if its handler cannot raise, on every
\* transport that has an open source.
Unblocked(n) == \A m \in Malformed: m > n

EventuallyDelivered ==
    \A s \in Tasks: \A n \in Keys:
        Unblocked(n) =>
            (n <= tip ~> \/ n \in fed[Kind[s]] /\ (n \in Failing \/ n <= cursor[Kind[s]])
                         \/ closed[s])
=============================================================================
