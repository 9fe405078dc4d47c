-------------------------- MODULE PushSourceProofs --------------------------
(***************************************************************************)
(* What holds of the push sources for every set of sources and events,     *)
(* every number of faults and every kind of store.                         *)
(***************************************************************************)
EXTENDS PushSource, DispatchProofs, TLAPS

LEMMA PushTypeInit == PushInit => PushTypeOK
BY DispatchAssumption, PushAssumption
DEF PushInit, PushTypeOK, DispatchInit, DispatchTypeOK, Phases, Kinds, HandlerAwaited

LEMMA PushTypeNext == PushTypeOK /\ [PushNext]_pushVars => PushTypeOK'
<1> USE DispatchAssumption, PushAssumption
<1> SUFFICES ASSUME PushTypeOK, [PushNext]_pushVars
             PROVE PushTypeOK'
  OBVIOUS
<1> USE DEF PushTypeOK, DispatchTypeOK, Phases, Kinds, Enter, Fault,
            sourceVars, dispatchVars
<1>1. CASE Publish
  BY <1>1 DEF Publish, HandlerAwaited
<1>2. ASSUME NEW s \in Tasks, Progress(s)
      PROVE PushTypeOK'
  <2>1. CASE Dial(s)
    BY <2>1 DEF Dial, Hint, SSEHint, WSHint, StartAfter, HandlerAwaited
  <2>2. CASE Open(s)
    BY <2>2 DEF Open, HandlerAwaited
  <2>3. CASE Advance(s)
    BY <2>3 DEF Advance, HandlerAwaited
  <2>4. CASE StoreCursor(s)
    BY <2>4 DEF StoreCursor, HandlerAwaited
  <2>5. CASE BadFrame(s)
    BY <2>5 DEF BadFrame, Disconnected, HandlerAwaited
  <2>6. CASE HangUp(s)
    BY <2>6 DEF HangUp, Disconnected, HandlerAwaited
  <2>7. CASE Wake(s)
    BY <2>7 DEF Wake, HandlerAwaited
  <2>8. CASE Rerun(s)
    BY <2>8 DEF Rerun, HandlerAwaited
  <2>9. ASSUME NEW n \in Keys, Receive(s, n)
        PROVE PushTypeOK'
    <3>1. (running[s] = None /\ phase[s] = "streaming")
      BY <2>9 DEF Receive, HandlerAwaited
    <3>2. CASE FeedDuplicate(s, n) /\ Enter(s, "advancing")
      BY <2>9, <3>1, <3>2 DEF Receive, FeedDuplicate, HandlerAwaited
    <3>3. CASE FeedStart(s, n) /\ Enter(s, "feeding")
      <4>1. HandlerAwaited'
        BY <2>9, <3>1, <3>3 DEF Receive, FeedStart, HandlerAwaited
      <4>2. QED
        BY <2>9, <3>1, <3>3, <4>1 DEF Receive, FeedStart
    <3>4. QED
      BY <2>9, <3>2, <3>3 DEF Receive
  <2>10. ASSUME NEW outcome \in Outcomes, HandlerReturns(s, outcome)
         PROVE PushTypeOK'
    <3>1. HandlerAwaited'
      BY <2>10 DEF HandlerReturns, FeedReturn, HandlerAwaited
    <3>2. running[s] \in Keys
      BY <2>10 DEF HandlerReturns, FeedReturn
    <3>3. QED
      BY <2>10, <3>1, <3>2 DEF HandlerReturns, FeedReturn
  <2>11. QED
    BY <1>2, <2>1, <2>2, <2>3, <2>4, <2>5, <2>6, <2>7, <2>8, <2>9, <2>10
    DEF Progress
<1>3. ASSUME NEW s \in Tasks, Drop(s)
      PROVE PushTypeOK'
  BY <1>3 DEF Drop, Disconnected, HandlerAwaited
<1>4. ASSUME NEW s \in Tasks, Abort(s)
      PROVE PushTypeOK'
  <2>1. CASE phase[s] = "feeding"
    <3>1. FeedAbort(s)
      BY <1>4, <2>1 DEF Abort
    <3>2. HandlerAwaited'
      BY <1>4, <3>1 DEF Abort, FeedAbort, HandlerAwaited
    <3>3. QED
      BY <1>4, <3>1, <3>2 DEF Abort, FeedAbort
  <2>2. CASE phase[s] # "feeding"
    <3>1. UNCHANGED dispatchVars
      BY <1>4, <2>2 DEF Abort
    <3>2. HandlerAwaited'
      BY <1>4, <2>2, <3>1 DEF Abort, HandlerAwaited
    <3>3. QED
      BY <1>4, <3>1, <3>2 DEF Abort
  <2>3. QED
    BY <2>1, <2>2
<1>5. ASSUME NEW s \in Tasks, Close(s)
      PROVE PushTypeOK'
  BY <1>5 DEF Close, HandlerAwaited
<1>6. CASE ProcessRestart
  BY <1>6 DEF ProcessRestart, DispatchRestart, HandlerAwaited
<1>7. ASSUME NEW n \in Keys, ForgetMark(n)
      PROVE PushTypeOK'
  BY <1>7 DEF ForgetMark, MarkExpires, HandlerAwaited
<1>8. CASE UNCHANGED pushVars
  BY <1>8 DEF pushVars, HandlerAwaited
<1>9. QED
  BY <1>1, <1>2, <1>3, <1>4, <1>5, <1>6, <1>7, <1>8 DEF PushNext

\* PushTypeOK is inductive: no interleaving of stream, handler, fault and
\* restart leaves a handler running for a source that is not in feed.
THEOREM PushTyping == PushSpec => []PushTypeOK
BY PushTypeInit, PushTypeNext, PTL DEF PushSpec

-----------------------------------------------------------------------------
(***************************************************************************)
(* NoUnseenSkip.  The cursor is only ever set to the position of a stream, *)
(* so it is enough that a connected source has fed everything up to its    *)
(* position, either itself or, before it dialed, another source of its     *)
(* transport.                                                              *)
(***************************************************************************)
Connected == {"dialing", "streaming", "feeding", "advancing", "storing"}

StreamFed ==
    \A s \in Tasks: phase[s] \in Connected =>
        \A n \in Keys: n <= pos[s] => n \in fed[Kind[s]]

FedInv == StreamFed /\ NoUnseenSkip

\* A step that only moves one source's task to another phase, and connects
\* no source, preserves FedInv.
LEMMA FedInvPhase ==
    ASSUME FedInv, PushTypeOK, NEW s \in Tasks, NEW p,
           p \in Connected => phase[s] \in Connected,
           phase' = [phase EXCEPT ![s] = p],
           UNCHANGED <<pos, cursor, fed>>
    PROVE  FedInv'
BY DEF FedInv, StreamFed, NoUnseenSkip, PushTypeOK

\* Storing the position of a connected source preserves FedInv.
LEMMA FedInvStore ==
    ASSUME FedInv, PushTypeOK, NEW s \in Tasks,
           phase[s] \in Connected,
           phase' = [phase EXCEPT ![s] = "streaming"],
           cursor' = [cursor EXCEPT ![Kind[s]] = pos[s]],
           UNCHANGED <<pos, fed>>
    PROVE  FedInv'
<1>1. Kind[s] \in Kinds
  BY PushAssumption
<1>2. \A n \in Keys: n <= pos[s] => n \in fed[Kind[s]]
  BY DEF FedInv, StreamFed
<1>3. NoUnseenSkip'
  BY <1>1, <1>2 DEF FedInv, NoUnseenSkip, PushTypeOK
<1>4. StreamFed'
  BY <1>2 DEF FedInv, StreamFed, PushTypeOK, Connected
<1>5. QED
  BY <1>3, <1>4 DEF FedInv

LEMMA FedInvNext ==
    FedInv /\ PushTypeOK /\ [PushNext]_pushVars => FedInv'
<1> USE PushAssumption
<1> SUFFICES ASSUME FedInv, PushTypeOK, [PushNext]_pushVars
             PROVE FedInv'
  OBVIOUS
<1>1. CASE Publish
  BY <1>1 DEF Publish, FedInv, StreamFed, NoUnseenSkip, sourceVars
<1>2. ASSUME NEW s \in Tasks, Progress(s)
      PROVE FedInv'
  <2>1. CASE Dial(s)
    <3>1. CASE closed[s]
      BY <2>1, <3>1, FedInvPhase DEF Dial, Enter, Connected
    <3>2. CASE ~closed[s]
      <4>1. pos' = [pos EXCEPT ![s] = cursor[Kind[s]]]
        BY <2>1, <3>2, DispatchAssumption
        DEF Dial, Hint, SSEHint, WSHint, StartAfter, PushTypeOK, Kinds
      <4>2. Kind[s] \in Kinds
        OBVIOUS
      <4>3. \A n \in Keys: n <= cursor[Kind[s]] => n \in fed[Kind[s]]
        BY <4>2 DEF FedInv, NoUnseenSkip
      <4>4. QED
        BY <2>1, <3>2, <4>1, <4>3
        DEF Dial, Enter, FedInv, StreamFed, NoUnseenSkip, PushTypeOK
    <3>3. QED
      BY <3>1, <3>2
  <2>2. CASE Open(s)
    BY <2>2, FedInvPhase DEF Open, Enter, Connected
  <2>3. CASE Advance(s)
    <3>1. CASE cursor' = cursor
      BY <2>3, <3>1, FedInvPhase DEF Advance, Enter, Connected
    <3>2. CASE cursor' # cursor
      BY <2>3, <3>2, FedInvStore DEF Advance, Enter, Connected
    <3>3. QED
      BY <3>1, <3>2
  <2>4. CASE StoreCursor(s)
    BY <2>4, FedInvStore DEF StoreCursor, Enter, Connected
  <2>5. CASE BadFrame(s)
    BY <2>5, FedInvPhase DEF BadFrame, Disconnected, Enter, Connected
  <2>6. CASE HangUp(s)
    BY <2>6, FedInvPhase DEF HangUp, Disconnected, Enter, Connected
  <2>7. CASE Wake(s)
    BY <2>7, FedInvPhase DEF Wake, Enter, Connected
  <2>8. CASE Rerun(s)
    BY <2>8, FedInvPhase DEF Rerun, Enter, Connected
  <2>9. ASSUME NEW n \in Keys, Receive(s, n)
        PROVE FedInv'
    <3>1. /\ phase[s] = "streaming"
          /\ \A m \in Keys: m <= n => m <= pos[s] \/ m = n
      BY <2>9 DEF Receive, NextOf, PushTypeOK
    <3>2. /\ pos' = [pos EXCEPT ![s] = n]
          /\ fed' = [fed EXCEPT ![Kind[s]] = @ \cup {n}]
          /\ cursor' = cursor
          /\ \A r \in Tasks: r # s => phase'[r] = phase[r]
      BY <2>9 DEF Receive, Enter, PushTypeOK
    <3>3. \A k \in Kinds: fed[k] \subseteq fed'[k]
      BY <3>2 DEF PushTypeOK
    <3>4. \A m \in Keys: m <= n => m \in fed'[Kind[s]]
      BY <3>1, <3>2 DEF FedInv, StreamFed, PushTypeOK, Connected
    <3>5. StreamFed'
      BY <3>2, <3>3, <3>4 DEF FedInv, StreamFed, PushTypeOK
    <3>6. NoUnseenSkip'
      BY <3>2, <3>3 DEF FedInv, NoUnseenSkip
    <3>7. QED
      BY <3>5, <3>6 DEF FedInv
  <2>10. ASSUME NEW outcome \in Outcomes, HandlerReturns(s, outcome)
         PROVE FedInv'
    BY <2>10, FedInvPhase DEF HandlerReturns, Enter, Connected
  <2>11. QED
    BY <1>2, <2>1, <2>2, <2>3, <2>4, <2>5, <2>6, <2>7, <2>8, <2>9, <2>10
    DEF Progress
<1>3. ASSUME NEW s \in Tasks, Drop(s)
      PROVE FedInv'
  BY <1>3, FedInvPhase DEF Drop, Disconnected, Enter, Connected
<1>4. ASSUME NEW s \in Tasks, Abort(s)
      PROVE FedInv'
  BY <1>4, FedInvPhase DEF Abort, Enter, Connected
<1>5. ASSUME NEW s \in Tasks, Close(s)
      PROVE FedInv'
  BY <1>5 DEF Close, FedInv, StreamFed, NoUnseenSkip
<1>6. CASE ProcessRestart
  BY <1>6 DEF ProcessRestart, FedInv, StreamFed, NoUnseenSkip, Connected, Kinds
<1>7. ASSUME NEW n \in Keys, ForgetMark(n)
      PROVE FedInv'
  BY <1>7 DEF ForgetMark, FedInv, StreamFed, NoUnseenSkip, sourceVars
<1>8. CASE UNCHANGED pushVars
  BY <1>8 DEF pushVars, FedInv, StreamFed, NoUnseenSkip, sourceVars
<1>9. QED
  BY <1>1, <1>2, <1>3, <1>4, <1>5, <1>6, <1>7, <1>8 DEF PushNext

LEMMA FedInvInit == PushInit => FedInv
BY PushAssumption DEF PushInit, FedInv, StreamFed, NoUnseenSkip, Connected, Kinds

\* No cursor ever passes an event that was not fed to the dispatcher.
THEOREM PushNoUnseenSkip == PushSpec => []NoUnseenSkip
<1>1. PushInit => FedInv
  BY FedInvInit
<1>2. FedInv => NoUnseenSkip
  BY DEF FedInv
<1>3. QED
  BY <1>1, <1>2, FedInvNext, PushTyping, PTL DEF PushSpec

-----------------------------------------------------------------------------
\* Who feeds: a step of a source is one of its own in the dispatcher, or
\* leaves the dispatcher alone.
LEMMA SourceFeeds ==
    ASSUME NEW s \in Tasks, Progress(s) \/ Drop(s) \/ Abort(s) \/ Close(s)
    PROVE  \/ \E n \in Keys: FeedDuplicate(s, n) \/ FeedStart(s, n)
           \/ \E outcome \in Outcomes: FeedReturn(s, outcome)
           \/ FeedAbort(s)
           \/ UNCHANGED dispatchVars
<1>1. CASE Progress(s)
  <2>1. ASSUME NEW n \in Keys, Receive(s, n)
        PROVE FeedDuplicate(s, n) \/ FeedStart(s, n)
    BY <2>1 DEF Receive
  <2>2. ASSUME NEW outcome \in Outcomes, HandlerReturns(s, outcome)
        PROVE FeedReturn(s, outcome)
    BY <2>2 DEF HandlerReturns
  <2>3. QED
    BY <1>1, <2>1, <2>2 DEF Progress, Dial, Open, Advance, StoreCursor,
       BadFrame, HangUp, Wake, Rerun
<1>2. CASE Drop(s) \/ Abort(s) \/ Close(s)
  BY <1>2 DEF Drop, Abort, Close
<1>3. QED
  BY <1>1, <1>2

\* Every step of the sources is a step of the dispatcher, or leaves it alone:
\* the composition implements DispatchSpec.
THEOREM PushUsesDispatcher == PushSpec => DispatcherUsed
<1>1. PushInit => DispatchInit
  BY DEF PushInit
<1>2. [PushNext]_pushVars => [DispatchNext]_dispatchVars
  <2> SUFFICES ASSUME [PushNext]_pushVars
               PROVE DispatchNext \/ UNCHANGED dispatchVars
    OBVIOUS
  <2>1. CASE Publish
    BY <2>1 DEF Publish
  <2>2. ASSUME NEW s \in Tasks, Progress(s) \/ Drop(s) \/ Abort(s) \/ Close(s)
        PROVE DispatchNext \/ UNCHANGED dispatchVars
    BY <2>2, SourceFeeds DEF DispatchNext
  <2>3. CASE ProcessRestart
    BY <2>3 DEF ProcessRestart, DispatchNext
  <2>4. ASSUME NEW n \in Keys, ForgetMark(n)
        PROVE DispatchNext
    BY <2>4 DEF ForgetMark, DispatchNext
  <2>5. CASE UNCHANGED pushVars
    BY <2>5 DEF pushVars
  <2>6. QED
    BY <2>1, <2>2, <2>3, <2>4, <2>5 DEF PushNext
<1>3. QED
  BY <1>1, <1>2, PTL DEF PushSpec, DispatcherUsed, DispatchSpec

\* Sources of any transports that share a dedup store never run one event in
\* two handlers at once.
THEOREM PushSingleFlight == PushSpec => []SingleFlight
BY PushUsesDispatcher, DispatchSingleFlight, PTL DEF DispatcherUsed

\* Nor do they run an event again that was dispatched without an error, on
\* any transport and across restarts.
THEOREM PushNeverReprocesses == PushSpec => []NeverReprocessed
BY PushUsesDispatcher, DispatchNeverReprocesses, PTL DEF DispatcherUsed

-----------------------------------------------------------------------------
(***************************************************************************)
(* The promise of at-least-once delivery.  It is made without the dedup    *)
(* middleware, which answers DUPLICATE for an event whose handler failed,  *)
(* and over a store that does not suspend between read and write.          *)
(***************************************************************************)
Passable(n) == n \in settled \cup Failing

\* No position is beyond what the engine has published.
AtTip ==
    /\ \A s \in Tasks: pos[s] <= tip
    /\ \A k \in Kinds: cursor[k] <= tip

\* Everything before a stream's position was settled or failed, and so was
\* the event at the position once its handler is done.
StreamPassable ==
    \A s \in Tasks:
        /\ phase[s] \in Connected =>
               \A n \in Keys: n < pos[s] => Passable(n)
        /\ phase[s] \in Connected \ {"feeding"} =>
               \A n \in Keys: n = pos[s] => Passable(n)
        /\ phase[s] \in {"advancing", "storing"} => pos[s] \in settled

CursorPassable ==
    \A k \in Kinds:
        /\ cursor[k] \in settled \cup {0}
        /\ \A n \in Keys: n <= cursor[k] => Passable(n)

PassInv ==
    /\ AtTip
    /\ AtomicStore => \A s \in Tasks: phase[s] # "storing"
    /\ ~Dedup => StreamPassable /\ CursorPassable

\* The positions are natural numbers: what the arithmetic needs to know.
LEMMA PositionsAreNat ==
    ASSUME PushTypeOK
    PROVE  /\ tip \in Nat
           /\ \A s \in Tasks: pos[s] \in Nat
           /\ \A k \in Kinds: cursor[k] \in Nat
           /\ \A n \in Keys: n \in Nat \ {0}
<1>1. \A n \in Keys \cup {0}: n \in Nat
  BY PushAssumption
<1>2. tip \in Keys \cup {0}
  BY DEF PushTypeOK
<1>3. \A s \in Tasks: pos[s] \in Keys \cup {0}
  BY DEF PushTypeOK
<1>4. \A k \in Kinds: cursor[k] \in Keys \cup {0}
  BY DEF PushTypeOK
<1>5. QED
  BY <1>1, <1>2, <1>3, <1>4, PushAssumption

LEMMA PassableToPos ==
    ASSUME StreamPassable, PushTypeOK, NEW s \in Tasks,
           phase[s] \in Connected \ {"feeding"}
    PROVE  \A n \in Keys: n <= pos[s] => Passable(n)
<1> TAKE n \in Keys
<1>1. n <= pos[s] => n < pos[s] \/ n = pos[s]
  BY PositionsAreNat
<1>2. QED
  BY <1>1 DEF StreamPassable

\* A step that only moves a task to a phase in which less is claimed.
LEMMA PassInvPhase ==
    ASSUME PassInv, PushTypeOK, NEW s \in Tasks, NEW p,
           p \in Connected => phase[s] \in Connected \ {"feeding"},
           p \in {"advancing", "storing"} => phase[s] \in {"advancing", "storing"},
           p = "storing" => ~AtomicStore,
           phase' = [phase EXCEPT ![s] = p],
           UNCHANGED <<tip, pos, cursor, settled>>
    PROVE  PassInv'
<1>1. AtTip'
  BY DEF PassInv, AtTip
<1>2. AtomicStore => \A r \in Tasks: phase'[r] # "storing"
  BY DEF PassInv, PushTypeOK
<1>3. ASSUME ~Dedup PROVE StreamPassable'
  BY <1>3 DEF PassInv, StreamPassable, Passable, PushTypeOK, Connected
<1>4. ASSUME ~Dedup PROVE CursorPassable'
  BY <1>4 DEF PassInv, CursorPassable, Passable
<1>5. QED
  BY <1>1, <1>2, <1>3, <1>4 DEF PassInv

\* Storing the position of a source whose event is settled.
LEMMA PassInvStore ==
    ASSUME PassInv, PushTypeOK, NEW s \in Tasks,
           phase[s] \in {"advancing", "storing"},
           phase' = [phase EXCEPT ![s] = "streaming"],
           cursor' = [cursor EXCEPT ![Kind[s]] = pos[s]],
           UNCHANGED <<tip, pos, settled>>
    PROVE  PassInv'
<1> USE PushAssumption
<1>1. AtTip'
  BY DEF PassInv, AtTip, PushTypeOK
<1>2. AtomicStore => \A r \in Tasks: phase'[r] # "storing"
  BY DEF PassInv, PushTypeOK
<1>3. ASSUME ~Dedup PROVE StreamPassable'
  BY <1>3 DEF PassInv, StreamPassable, Passable, PushTypeOK, Connected
<1>4. ASSUME ~Dedup PROVE CursorPassable'
  <2>1. pos[s] \in settled
    BY <1>4 DEF PassInv, StreamPassable
  <2>2. \A n \in Keys: n <= pos[s] => Passable(n)
    BY <1>4, PassableToPos DEF PassInv, Connected
  <2>3. QED
    BY <1>4, <2>1, <2>2 DEF PassInv, CursorPassable, Passable, PushTypeOK
<1>5. QED
  BY <1>1, <1>2, <1>3, <1>4 DEF PassInv

LEMMA PassInvNext ==
    PassInv /\ PushTypeOK /\ [PushNext]_pushVars => PassInv'
<1> USE PushAssumption
<1> SUFFICES ASSUME PassInv, PushTypeOK, [PushNext]_pushVars
             PROVE PassInv'
  OBVIOUS
<1>1. CASE Publish
  <2>1. AtTip'
    <3>1. tip' \in Nat /\ tip' > tip
      BY <1>1 DEF Publish
    <3>2. pos' = pos /\ cursor' = cursor
      BY <1>1 DEF Publish, sourceVars
    <3>3. QED
      BY <3>1, <3>2, PositionsAreNat DEF PassInv, AtTip
  <2>2. QED
    BY <1>1, <2>1 DEF Publish, PassInv, StreamPassable, CursorPassable,
       Passable, sourceVars, dispatchVars
<1>2. ASSUME NEW s \in Tasks, Progress(s)
      PROVE PassInv'
  <2>1. CASE Dial(s)
    <3>1. CASE closed[s]
      BY <2>1, <3>1, PassInvPhase DEF Dial, Enter, Connected, dispatchVars
    <3>2. CASE ~closed[s]
      <4>1. pos' = [pos EXCEPT ![s] = cursor[Kind[s]]]
        BY <2>1, <3>2, DispatchAssumption
        DEF Dial, Hint, SSEHint, WSHint, StartAfter, PushTypeOK, Kinds
      <4>2. /\ phase' = [phase EXCEPT ![s] = "dialing"]
            /\ UNCHANGED <<tip, cursor, settled>>
        BY <2>1, <3>2 DEF Dial, Enter, dispatchVars
      <4>3. AtTip'
        BY <4>1, <4>2 DEF PassInv, AtTip, PushTypeOK
      <4>4. ASSUME ~Dedup PROVE StreamPassable'
        <5>1. \A n \in Keys: n <= cursor[Kind[s]] => Passable(n)
          BY <4>4 DEF PassInv, CursorPassable
        <5>2. QED
          <6>1. \A n \in Keys: n < pos'[s] \/ n = pos'[s] => Passable(n)
            BY <4>1, <5>1, PositionsAreNat DEF PushTypeOK
          <6>2. phase'[s] = "dialing"
            BY <4>2 DEF PushTypeOK
          <6>3. \A r \in Tasks \ {s}: phase'[r] = phase[r] /\ pos'[r] = pos[r]
            BY <4>1, <4>2 DEF PushTypeOK
          <6>4. QED
            BY <4>2, <4>4, <6>1, <6>2, <6>3 DEF PassInv, StreamPassable, Passable
      <4>5. QED
        BY <4>2, <4>3, <4>4 DEF PassInv, CursorPassable, Passable, PushTypeOK
    <3>3. QED
      BY <3>1, <3>2
  <2>2. CASE Open(s)
    BY <2>2, PassInvPhase DEF Open, Enter, Connected, dispatchVars
  <2>3. CASE Advance(s)
    <3>1. CASE cursor' = cursor
      BY <2>3, <3>1, PassInvPhase DEF Advance, Enter, Connected, dispatchVars
    <3>2. CASE cursor' # cursor
      BY <2>3, <3>2, PassInvStore DEF Advance, Enter, dispatchVars
    <3>3. QED
      BY <3>1, <3>2
  <2>4. CASE StoreCursor(s)
    BY <2>4, PassInvStore DEF StoreCursor, Enter, dispatchVars
  <2>5. CASE BadFrame(s)
    BY <2>5, PassInvPhase DEF BadFrame, Disconnected, Enter, Connected, dispatchVars
  <2>6. CASE HangUp(s)
    BY <2>6, PassInvPhase DEF HangUp, Disconnected, Enter, Connected, dispatchVars
  <2>7. CASE Wake(s)
    BY <2>7, PassInvPhase DEF Wake, Enter, Connected, dispatchVars
  <2>8. CASE Rerun(s)
    BY <2>8, PassInvPhase DEF Rerun, Enter, Connected, dispatchVars
  <2>9. ASSUME NEW n \in Keys, Receive(s, n)
        PROVE PassInv'
    <3>1. /\ phase[s] = "streaming"
          /\ n <= tip
          /\ \A m \in Keys: m < n => m <= pos[s]
          /\ pos' = [pos EXCEPT ![s] = n]
          /\ UNCHANGED <<tip, cursor, settled>>
      BY <2>9 DEF Receive, NextOf, PushTypeOK, FeedDuplicate, FeedStart, dispatchVars
    <3>2. \/ phase' = [phase EXCEPT ![s] = "feeding"]
          \/ Dedup /\ phase' = [phase EXCEPT ![s] = "advancing"]
      BY <2>9 DEF Receive, FeedDuplicate, Enter
    <3>3. AtTip'
      BY <3>1 DEF PassInv, AtTip, PushTypeOK
    <3>4. AtomicStore => \A r \in Tasks: phase'[r] # "storing"
      BY <3>2 DEF PassInv, PushTypeOK
    <3>5. ASSUME ~Dedup PROVE StreamPassable' /\ CursorPassable'
      <4>1. \A m \in Keys: m < n => Passable(m)
        <5>1. \A m \in Keys: m <= pos[s] => Passable(m)
          BY <3>1, <3>5, PassableToPos DEF PassInv, Connected
        <5>2. QED
          BY <3>1, <5>1
      <4>2. phase' = [phase EXCEPT ![s] = "feeding"]
        BY <3>2, <3>5
      <4>3. StreamPassable'
        BY <3>1, <3>5, <4>1, <4>2
        DEF PassInv, StreamPassable, Passable, PushTypeOK
      <4>4. CursorPassable'
        BY <3>1, <3>5 DEF PassInv, CursorPassable, Passable
      <4>5. QED
        BY <4>3, <4>4
    <3>6. QED
      BY <3>3, <3>4, <3>5 DEF PassInv
  <2>10. ASSUME NEW outcome \in Outcomes, HandlerReturns(s, outcome)
         PROVE PassInv'
    <3>1. /\ phase[s] = "feeding"
          /\ running[s] = pos[s]
          /\ pos[s] # None
          /\ UNCHANGED <<tip, pos, cursor>>
      BY <2>10 DEF HandlerReturns, FeedReturn, PushTypeOK, HandlerAwaited
    <3>2. \/ /\ pos[s] \in Failing
             /\ settled' = settled
             /\ phase' = [phase EXCEPT ![s] = "streaming"]
          \/ /\ settled' = settled \cup {pos[s]}
             /\ phase' = [phase EXCEPT ![s] = "advancing"]
      BY <2>10, <3>1 DEF HandlerReturns, FeedReturn, Enter
    <3>3. AtTip'
      BY <3>1 DEF PassInv, AtTip
    <3>4. AtomicStore => \A r \in Tasks: phase'[r] # "storing"
      BY <3>2 DEF PassInv, PushTypeOK
    <3>5. ASSUME ~Dedup PROVE StreamPassable'
      BY <3>1, <3>2, <3>5
      DEF PassInv, StreamPassable, Passable, PushTypeOK, Connected
    <3>6. ASSUME ~Dedup PROVE CursorPassable'
      BY <3>1, <3>2, <3>6 DEF PassInv, CursorPassable, Passable
    <3>7. QED
      BY <3>3, <3>4, <3>5, <3>6 DEF PassInv
  <2>11. QED
    BY <1>2, <2>1, <2>2, <2>3, <2>4, <2>5, <2>6, <2>7, <2>8, <2>9, <2>10
    DEF Progress
<1>3. ASSUME NEW s \in Tasks, Drop(s)
      PROVE PassInv'
  BY <1>3, PassInvPhase DEF Drop, Disconnected, Enter, Connected, dispatchVars
<1>4. ASSUME NEW s \in Tasks, Abort(s)
      PROVE PassInv'
  BY <1>4, PassInvPhase DEF Abort, FeedAbort, Enter, Connected, dispatchVars
<1>5. ASSUME NEW s \in Tasks, Close(s)
      PROVE PassInv'
  BY <1>5 DEF Close, PassInv, AtTip, StreamPassable, CursorPassable, Passable,
     dispatchVars
<1>6. CASE ProcessRestart
  <2>1. AtTip'
    BY <1>6 DEF ProcessRestart, PassInv, AtTip, PushTypeOK
  <2>2. ASSUME ~Dedup PROVE CursorPassable'
    BY <1>6, <2>2
    DEF ProcessRestart, DispatchRestart, PassInv, CursorPassable, Passable
  <2>3. StreamPassable'
    BY <1>6 DEF ProcessRestart, StreamPassable, Connected
  <2>4. QED
    BY <1>6, <2>1, <2>2, <2>3 DEF ProcessRestart, PassInv
<1>7. ASSUME NEW n \in Keys, ForgetMark(n)
      PROVE PassInv'
  BY <1>7 DEF ForgetMark, MarkExpires, PassInv, AtTip, StreamPassable,
     CursorPassable, Passable, sourceVars
<1>8. CASE UNCHANGED pushVars
  BY <1>8 DEF pushVars, PassInv, AtTip, StreamPassable, CursorPassable,
     Passable, sourceVars, dispatchVars
<1>9. QED
  BY <1>1, <1>2, <1>3, <1>4, <1>5, <1>6, <1>7, <1>8 DEF PushNext

\* What others publish, and settle, takes nothing from PassInv.
LEMMA PassInvElsewhere ==
    ASSUME PassInv, PushTypeOK, tip' \in Nat, tip' >= tip, settled \subseteq settled',
           UNCHANGED <<phase, pos, cursor>>
    PROVE  PassInv'
<1>1. AtTip'
  BY PositionsAreNat DEF PassInv, AtTip
<1>2. QED
  BY <1>1 DEF PassInv, StreamPassable, CursorPassable, Passable

LEMMA PassInvInit == PushInit => PassInv
BY PushAssumption
DEF PushInit, PassInv, AtTip, StreamPassable, CursorPassable, Passable,
    Connected, Kinds, DispatchInit

LEMMA PassInvariant == PushSpec => []PassInv
BY PassInvInit, PassInvNext, PushTyping, PTL DEF PushSpec

\* The cursor is advanced only to an event that was dispatched without error.
THEOREM PushCursorOnSettled == PushSpec => []CursorOnSettled
<1>1. PassInv => CursorOnSettled
  BY DEF PassInv, CursorPassable, CursorOnSettled
<1>2. QED
  BY <1>1, PassInvariant, PTL

-----------------------------------------------------------------------------
\* The only steps that touch a cursor, over a store that does not suspend: an
\* advance to a later position, and the loss of a volatile store.
AdvanceStep(s) ==
    /\ phase[s] = "advancing"
    /\ pos[s] > cursor[Kind[s]]
    /\ cursor' = [cursor EXCEPT ![Kind[s]] = pos[s]]
    /\ UNCHANGED <<tip, settled>>

LEMMA CursorSteps ==
    ASSUME PassInv, AtomicStore, [PushNext]_pushVars
    PROVE  \/ cursor' = cursor
           \/ \E s \in Tasks: AdvanceStep(s)
           \/ ~Durable /\ ProcessRestart
<1>1. CASE Publish
  BY <1>1 DEF Publish
<1>2. ASSUME NEW s \in Tasks, Progress(s)
      PROVE cursor' = cursor \/ AdvanceStep(s)
  <2>1. CASE Advance(s)
    BY <2>1 DEF Advance, AdvanceStep, dispatchVars
  <2>2. CASE StoreCursor(s)
    BY <2>2 DEF StoreCursor, PassInv
  <2>3. CASE ~Advance(s) /\ ~StoreCursor(s)
    BY <1>2, <2>3 DEF Progress, Dial, Open, BadFrame, HangUp, Wake, Rerun,
       Receive, HandlerReturns
  <2>4. QED
    BY <2>1, <2>2, <2>3
<1>3. ASSUME NEW s \in Tasks, Drop(s) \/ Abort(s) \/ Close(s)
      PROVE cursor' = cursor
  BY <1>3 DEF Drop, Abort, Close
<1>4. CASE ProcessRestart
  BY <1>4 DEF ProcessRestart
<1>5. ASSUME NEW n \in Keys, ForgetMark(n)
      PROVE cursor' = cursor
  BY <1>5 DEF ForgetMark
<1>6. CASE UNCHANGED pushVars
  BY <1>6 DEF pushVars
<1>7. QED
  BY <1>1, <1>2, <1>3, <1>4, <1>5, <1>6 DEF PushNext

\* A stored cursor never moves back, whatever the sources that share it do.
THEOREM PushCursorMonotone == PushSpec => CursorMonotone
<1>1. PassInv /\ PushTypeOK /\ [PushNext]_pushVars =>
          [AtomicStore => \/ \A k \in Kinds: cursor'[k] >= cursor[k]
                          \/ ~Durable /\ ProcessRestart]_pushVars
  <2> SUFFICES ASSUME PassInv, PushTypeOK, [PushNext]_pushVars, AtomicStore
               PROVE  \/ \A k \in Kinds: cursor'[k] >= cursor[k]
                      \/ ~Durable /\ ProcessRestart
    OBVIOUS
  <2>1. CASE cursor' = cursor
    BY <2>1, PositionsAreNat
  <2>2. ASSUME NEW s \in Tasks, AdvanceStep(s)
        PROVE \A k \in Kinds: cursor'[k] >= cursor[k]
    BY <2>2, PositionsAreNat DEF AdvanceStep, PushTypeOK
  <2>3. QED
    BY <2>1, <2>2, CursorSteps
<1>2. QED
  BY <1>1, PassInvariant, PushTyping, PTL DEF PushSpec, CursorMonotone

-----------------------------------------------------------------------------
\* A dispatch that ends without an error is a Process step of the promise.
LEMMA SettledSteps ==
    ASSUME PassInv, PushTypeOK, [PushNext]_pushVars
    PROVE  \/ settled' = settled
           \/ Promise!Process
<1>1. CASE Publish
  BY <1>1 DEF Publish, dispatchVars
<1>2. ASSUME NEW s \in Tasks, Progress(s)
      PROVE settled' = settled \/ Promise!Process
  <2>1. ASSUME NEW n \in Keys, Receive(s, n)
        PROVE settled' = settled
    BY <2>1 DEF Receive, FeedDuplicate, FeedStart, dispatchVars
  <2>2. ASSUME NEW outcome \in Outcomes, HandlerReturns(s, outcome),
               settled' # settled
        PROVE Promise!Process
    <3>1. /\ running[s] \in Keys
          /\ settled' = settled \cup {running[s]}
          /\ UNCHANGED <<tip, cursor>>
      BY <2>2 DEF HandlerReturns, FeedReturn, PushTypeOK, DispatchTypeOK
    <3>2. running[s] <= tip
      BY <2>2, <3>1 DEF HandlerReturns, PushTypeOK, HandlerAwaited, PassInv, AtTip
    <3>3. QED
      BY <3>1, <3>2 DEF Promise!Process
  <2>3. QED
    BY <1>2, <2>1, <2>2 DEF Progress, Dial, Open, Advance, StoreCursor,
       BadFrame, HangUp, Wake, Rerun, dispatchVars
<1>3. ASSUME NEW s \in Tasks, Drop(s) \/ Abort(s) \/ Close(s)
      PROVE settled' = settled
  BY <1>3 DEF Drop, Abort, FeedAbort, Close, dispatchVars
<1>4. CASE ProcessRestart
  BY <1>4 DEF ProcessRestart, DispatchRestart
<1>5. ASSUME NEW n \in Keys, ForgetMark(n)
      PROVE settled' = settled
  BY <1>5 DEF ForgetMark, MarkExpires
<1>6. CASE UNCHANGED pushVars
  BY <1>6 DEF pushVars, dispatchVars
<1>7. QED
  BY <1>1, <1>2, <1>3, <1>4, <1>5, <1>6 DEF PushNext

\* Every step of the sources is one of the promise, or nothing it speaks of.
LEMMA PushDelivers ==
    ASSUME ~Dedup, AtomicStore, PassInv, PushTypeOK, [PushNext]_pushVars
    PROVE  [Promise!DeliveryNext]_(Promise!deliveryVars)
<1> USE PushAssumption
<1> USE DEF Promise!DeliveryNext, Promise!deliveryVars
<1>1. CASE Publish
  BY <1>1 DEF Publish, dispatchVars, Promise!PublishEvent
<1>2. ASSUME NEW s \in Tasks, AdvanceStep(s)
      PROVE Promise!DeliveryNext
  <2>1. pos[s] \in 1..tip
    <3>1. cursor[Kind[s]] \in Nat /\ pos[s] \in Nat /\ tip \in Nat
      BY PositionsAreNat
    <3>2. pos[s] > cursor[Kind[s]] /\ pos[s] <= tip
      BY <1>2 DEF AdvanceStep, PassInv, AtTip
    <3>3. QED
      BY <3>1, <3>2
  <2>2. \A n \in Keys: n <= pos[s] => n \in settled \cup Failing
    BY <1>2, PassableToPos
    DEF AdvanceStep, PassInv, Connected, Passable
  <2>3. Promise!Commit(Kind[s], pos[s])
    BY <1>2, <2>1, <2>2 DEF AdvanceStep, Promise!Commit, Promise!Passable
  <2>4. pos[s] \in 1..tip + 1
    BY <2>1, PositionsAreNat
  <2>5. QED
    BY <2>3, <2>4
<1>3. CASE ~Durable /\ ProcessRestart
  BY <1>3 DEF ProcessRestart, DispatchRestart, Promise!Forget
<1>4. CASE cursor' = cursor /\ tip' = tip
  BY <1>4, SettledSteps
<1>5. CASE Publish \/ tip' = tip
  BY <1>1, <1>2, <1>3, <1>4, <1>5, CursorSteps
<1>6. Publish \/ tip' = tip
  BY DEF PushNext, Progress, Dial, Open, Advance, StoreCursor, BadFrame,
     HangUp, Wake, Rerun, Receive, HandlerReturns, Drop, Abort, Close,
     ProcessRestart, ForgetMark, pushVars
<1>7. QED
  BY <1>5, <1>6

\* Without dedup and over a store that does not suspend, the push sources
\* implement at-least-once delivery: an open, lost or restarted stream never
\* commits a position unless every event before it was processed, except
\* those whose handler failed.
THEOREM PushKeepsPromise ==
    ASSUME ~Dedup, AtomicStore
    PROVE  PushSpec => PromiseSpec
<1>1. PushInit => Promise!DeliveryInit
  BY DEF PushInit, DispatchInit, Promise!DeliveryInit
<1>2. PassInv /\ PushTypeOK /\ [PushNext]_pushVars
          => [Promise!DeliveryNext]_(Promise!deliveryVars)
  BY PushDelivers
<1>3. QED
  BY <1>1, <1>2, PassInvariant, PushTyping, PTL
  DEF PushSpec, PromiseSpec, Promise!DeliverySpec
=============================================================================
