-------------------------- MODULE TransportsProofs --------------------------
(***************************************************************************)
(* What holds of a process that receives one subscription over any number  *)
(* of push sources and pollers at once.  The invariants of each transport, *)
(* which its own module of proofs shows for the transport alone, hold      *)
(* beside the others too: these share only the log, the dedup store and    *)
(* the count of faults with it.                                            *)
(***************************************************************************)
EXTENDS Transports, TLAPS

PushP == INSTANCE PushSourceProofs WITH
    Tasks <- PushTasks, Malformed <- {},
    running <- pushRunning, phase <- pushPhase, fed <- pushFed

PollP == INSTANCE PollingSourceProofs WITH
    Tasks <- PollTasks, AutoConfirm <- TRUE,
    running <- pollRunning, phase <- pollPhase, fed <- pollFed

SharedP == INSTANCE DispatchProofs WITH
    Tasks <- AllTasks,
    running <- [t \in AllTasks |-> IF t \in PushTasks THEN pushRunning[t] ELSE pollRunning[t]]

-----------------------------------------------------------------------------
\* The modules' assumptions hold of the constants they are given.
LEMMA ForDispatch ==
    /\ Failing \subseteq Keys
    /\ None \notin Keys
    /\ Dedup \in BOOLEAN
    /\ Durable \in BOOLEAN
    /\ Expiring \subseteq Keys
BY TransportsAssumption

LEMMA ForPush ==
    /\ Keys \subseteq Nat \ {0}
    /\ Kind \in [PushTasks -> {"SSE", "WS"}]
    /\ {} \subseteq Keys
    /\ AtomicStore \in BOOLEAN
    /\ MaxFaults \in Nat
BY TransportsAssumption

\* FiniteSets is extended by the modules that are instantiated.
LEMMA ForPolling ==
    /\ Keys \subseteq Nat \ {0}
    /\ PollP!IsFiniteSet(Keys)
    /\ Limit \in Nat \ {0}
    /\ TRUE \in BOOLEAN
    /\ PastEnd \in BOOLEAN
    /\ MaxFaults \in Nat
BY TransportsAssumption DEF IsFiniteSet, PollP!IsFiniteSet

-----------------------------------------------------------------------------
(***************************************************************************)
(* The modules of proofs instantiate the sources anew: an action of theirs *)
(* is, once expanded, the action of the same name in Transports.           *)
(***************************************************************************)
PushAlone(s) == PushP!Progress(s) \/ PushP!Drop(s) \/ PushP!Abort(s) \/ PushP!Close(s)
PollAlone(s) == PollP!Progress(s) \/ PollP!ConfirmLost(s) \/ PollP!Abort(s)

LEMMA SameInit ==
    ASSUME TransportsInit
    PROVE  PushP!PushInit /\ PollP!PollingInit
BY DEF TransportsInit, Push!PushInit, PushP!PushInit, Push!Kinds, PushP!Kinds,
   Push!DispatchInit, PushP!DispatchInit, Poll!PollingInit, PollP!PollingInit,
   Poll!DispatchInit, PollP!DispatchInit

LEMMA SamePush ==
    ASSUME NEW s \in PushTasks, PushStep(s)
    PROVE  PushAlone(s) /\ UNCHANGED pollOwn
<1> USE DEF Push!Enter, PushP!Enter, Push!Fault, PushP!Fault,
            Push!dispatchVars, PushP!dispatchVars, Push!sourceVars, PushP!sourceVars,
            Push!Disconnected, PushP!Disconnected, Push!HungUp, PushP!HungUp
<1>1. Push!Dial(s) => PushP!Dial(s)
  BY DEF Push!Dial, PushP!Dial, Push!StartAfter, PushP!StartAfter, Push!Hint, PushP!Hint,
     Push!SSEHint, PushP!SSEHint, Push!WSHint, PushP!WSHint
<1>2. Push!Open(s) => PushP!Open(s)
  BY DEF Push!Open, PushP!Open
<1>3. Push!Advance(s) => PushP!Advance(s)
  BY DEF Push!Advance, PushP!Advance
<1>4. Push!StoreCursor(s) => PushP!StoreCursor(s)
  BY DEF Push!StoreCursor, PushP!StoreCursor
<1>5. Push!BadFrame(s) => PushP!BadFrame(s)
  BY DEF Push!BadFrame, PushP!BadFrame
<1>6. Push!HangUp(s) => PushP!HangUp(s)
  BY DEF Push!HangUp, PushP!HangUp
<1>7. Push!Wake(s) => PushP!Wake(s)
  BY DEF Push!Wake, PushP!Wake
<1>8. Push!Rerun(s) => PushP!Rerun(s)
  BY DEF Push!Rerun, PushP!Rerun
<1>9. ASSUME NEW n \in Keys, Push!Receive(s, n)
      PROVE  PushP!Receive(s, n)
  BY <1>9 DEF Push!Receive, PushP!Receive, Push!NextOf, PushP!NextOf,
     Push!FeedDuplicate, PushP!FeedDuplicate, Push!FeedStart, PushP!FeedStart
<1>10. ASSUME NEW outcome \in Push!Outcomes, Push!HandlerReturns(s, outcome)
       PROVE  outcome \in PushP!Outcomes /\ PushP!HandlerReturns(s, outcome)
  BY <1>10 DEF Push!HandlerReturns, PushP!HandlerReturns, Push!FeedReturn,
     PushP!FeedReturn, Push!Outcomes, PushP!Outcomes
<1>11. Push!Progress(s) => PushP!Progress(s)
  BY <1>1, <1>2, <1>3, <1>4, <1>5, <1>6, <1>7, <1>8, <1>9, <1>10, Zenon
  DEF Push!Progress, PushP!Progress
<1>12. Push!Drop(s) => PushP!Drop(s)
  BY DEF Push!Drop, PushP!Drop
<1>13. Push!Abort(s) => PushP!Abort(s)
  BY DEF Push!Abort, PushP!Abort, Push!FeedAbort, PushP!FeedAbort
<1>14. Push!Close(s) => PushP!Close(s)
  BY DEF Push!Close, PushP!Close
<1>15. QED
  BY <1>11, <1>12, <1>13, <1>14, Zenon DEF PushStep, PushAlone

LEMMA SamePoll ==
    ASSUME NEW s \in PollTasks, PollStep(s)
    PROVE  PollAlone(s) /\ UNCHANGED pushOwn
<1> USE DEF Poll!Enter, PollP!Enter, Poll!Fault, PollP!Fault,
            Poll!dispatchVars, PollP!dispatchVars, Poll!batchVars, PollP!batchVars,
            Poll!NextRound, PollP!NextRound, Poll!First, PollP!First,
            Poll!Last, PollP!Last, Poll!MarkRead, PollP!MarkRead,
            Poll!NextSeq, PollP!NextSeq
<1>1. Poll!Fetch(s) => PollP!Fetch(s)
  BY DEF Poll!Fetch, PollP!Fetch, Poll!Batch, PollP!Batch, Poll!Pending, PollP!Pending,
     Poll!Cardinality, PollP!Cardinality
<1>2. Poll!EndBatch(s) => PollP!EndBatch(s)
  BY DEF Poll!EndBatch, PollP!EndBatch, Poll!Confirmable, PollP!Confirmable
<1>3. Poll!Confirm(s) => PollP!Confirm(s)
  BY DEF Poll!Confirm, PollP!Confirm
<1>4. Poll!Wake(s) => PollP!Wake(s)
  BY DEF Poll!Wake, PollP!Wake
<1>5. Poll!Rerun(s) => PollP!Rerun(s)
  BY DEF Poll!Rerun, PollP!Rerun
<1>6. ASSUME NEW n \in Keys, Poll!DispatchItem(s, n)
      PROVE  PollP!DispatchItem(s, n)
  BY <1>6 DEF Poll!DispatchItem, PollP!DispatchItem,
     Poll!FeedDuplicate, PollP!FeedDuplicate, Poll!FeedStart, PollP!FeedStart
<1>7. ASSUME NEW outcome \in Poll!Outcomes, Poll!HandlerReturns(s, outcome)
      PROVE  outcome \in PollP!Outcomes /\ PollP!HandlerReturns(s, outcome)
  BY <1>7 DEF Poll!HandlerReturns, PollP!HandlerReturns, Poll!FeedReturn,
     PollP!FeedReturn, Poll!Outcomes, PollP!Outcomes
<1>8. Poll!Progress(s) => PollP!Progress(s)
  BY <1>1, <1>2, <1>3, <1>4, <1>5, <1>6, <1>7, Zenon DEF Poll!Progress, PollP!Progress
<1>9. Poll!ConfirmLost(s) => PollP!ConfirmLost(s)
  BY DEF Poll!ConfirmLost, PollP!ConfirmLost
<1>10. Poll!Abort(s) => PollP!Abort(s)
  BY DEF Poll!Abort, PollP!Abort, Poll!FeedAbort, PollP!FeedAbort
<1>11. QED
  BY <1>8, <1>9, <1>10, Zenon DEF PollStep, PollAlone

LEMMA SameEngine ==
    /\ Publish => PushP!Publish /\ UNCHANGED pollOwn
    /\ \A n \in Keys: ForgetMark(n) => PushP!ForgetMark(n) /\ UNCHANGED pollOwn
    /\ ProcessRestart => PushP!ProcessRestart /\ PollP!ProcessRestart
<1> USE DEF Push!Fault, PushP!Fault, Push!dispatchVars, PushP!dispatchVars,
            Push!sourceVars, PushP!sourceVars, Poll!Fault, PollP!Fault,
            Poll!dispatchVars, PollP!dispatchVars, Poll!batchVars, PollP!batchVars
<1>1. Publish => PushP!Publish /\ UNCHANGED pollOwn
  BY DEF Publish, Push!Publish, PushP!Publish
<1>2. ASSUME NEW n \in Keys, ForgetMark(n)
      PROVE  PushP!ForgetMark(n) /\ UNCHANGED pollOwn
  BY <1>2 DEF ForgetMark, Push!ForgetMark, PushP!ForgetMark, Push!MarkExpires,
     PushP!MarkExpires
<1>3. ASSUME ProcessRestart
      PROVE  PushP!ProcessRestart /\ PollP!ProcessRestart
  BY <1>3 DEF ProcessRestart, Push!ProcessRestart, PushP!ProcessRestart,
     Poll!ProcessRestart, PollP!ProcessRestart, Push!DispatchRestart,
     PushP!DispatchRestart, Poll!DispatchRestart, PollP!DispatchRestart,
     Push!Kinds, PushP!Kinds
<1>4. QED
  BY <1>1, <1>2, <1>3
-----------------------------------------------------------------------------
\* Every step is one of the transports that take part in it; the others see
\* at most the log, the dedup store and the faults change.
LEMMA TransportSteps ==
    ASSUME [TransportsNext]_transportVars
    PROVE  \/ [PushP!PushNext]_(PushP!pushVars) /\ UNCHANGED pollOwn
           \/ [PollP!PollingNext]_(PollP!pollingVars) /\ UNCHANGED pushOwn
           \/ PushP!PushNext /\ PollP!PollingNext
<1>1. CASE Publish
  BY <1>1, SameEngine DEF PushP!PushNext
<1>2. ASSUME NEW s \in PushTasks, PushStep(s)
      PROVE  PushP!PushNext /\ UNCHANGED pollOwn
  BY <1>2, SamePush DEF PushAlone, PushP!PushNext
<1>3. ASSUME NEW s \in PollTasks, PollStep(s)
      PROVE  PollP!PollingNext /\ UNCHANGED pushOwn
  BY <1>3, SamePoll DEF PollAlone, PollP!PollingNext
<1>4. ASSUME NEW n \in Keys, ForgetMark(n)
      PROVE  PushP!PushNext /\ UNCHANGED pollOwn
  BY <1>4, SameEngine DEF PushP!PushNext
<1>5. CASE ProcessRestart
  BY <1>5, SameEngine DEF PushP!PushNext, PollP!PollingNext
<1>6. CASE UNCHANGED transportVars
  BY <1>6 DEF transportVars, pushOwn, pollOwn, PushP!pushVars, PushP!sourceVars,
     PushP!dispatchVars
<1>7. QED
  BY <1>1, <1>2, <1>3, <1>4, <1>5, <1>6 DEF TransportsNext

-----------------------------------------------------------------------------
(***************************************************************************)
(* Typing and the transports' own invariants.  What a transport's step     *)
(* writes of the shared variables keeps the types the others rely on, and  *)
(* nobody but a transport itself writes what its invariant reads.          *)
(***************************************************************************)
TransportsTypeOK == PushP!PushTypeOK /\ PollP!PollingTypeOK

LEMMA TypeInit == TransportsInit => TransportsTypeOK
<1>1. PushP!PushInit => PushP!PushTypeOK
  BY ForDispatch, ForPush, PushP!PushTypeInit DEF PushP!Kinds
<1>2. PollP!PollingInit => PollP!PollingTypeOK
  BY ForDispatch, ForPolling, PollP!PollingTypeInit
<1>3. QED
  BY <1>1, <1>2, SameInit DEF TransportsTypeOK

LEMMA TypeNext ==
    ASSUME TransportsTypeOK, [TransportsNext]_transportVars
    PROVE  TransportsTypeOK'
<1>1. [PushP!PushNext]_(PushP!pushVars) => PushP!PushTypeOK'
  BY ForDispatch, ForPush, PushP!PushTypeNext DEF PushP!Kinds, TransportsTypeOK
<1>2. [PollP!PollingNext]_(PollP!pollingVars) => PollP!PollingTypeOK'
  BY ForDispatch, ForPolling, PollP!PollingTypeNext DEF TransportsTypeOK
<1>3. ASSUME PushP!PushTypeOK', UNCHANGED pollOwn
      PROVE  PollP!PollingTypeOK'
  BY <1>3 DEF TransportsTypeOK, PushP!PushTypeOK, PushP!DispatchTypeOK,
     PollP!PollingTypeOK, PollP!DispatchTypeOK, pollOwn
<1>4. ASSUME PollP!PollingTypeOK', UNCHANGED pushOwn
      PROVE  PushP!PushTypeOK'
  BY <1>4 DEF TransportsTypeOK, PushP!PushTypeOK, PushP!DispatchTypeOK,
     PushP!HandlerAwaited, PollP!PollingTypeOK, PollP!DispatchTypeOK, pushOwn
<1>5. QED
  BY <1>1, <1>2, <1>3, <1>4, TransportSteps DEF TransportsTypeOK

FedInv == PushP!FedInv /\ PollP!FedInv

LEMMA FedInit == TransportsInit => FedInv
<1>1. PushP!PushInit => PushP!FedInv
  BY ForDispatch, ForPush, PushP!FedInvInit DEF PushP!Kinds
<1>2. PollP!PollingInit => PollP!FedInv
  BY ForDispatch, ForPolling, PollP!FedInvInit
<1>3. QED
  BY <1>1, <1>2, SameInit DEF FedInv

LEMMA FedNext ==
    ASSUME FedInv, TransportsTypeOK, [TransportsNext]_transportVars
    PROVE  FedInv'
<1>1. [PushP!PushNext]_(PushP!pushVars) => PushP!FedInv'
  BY ForDispatch, ForPush, PushP!FedInvNext
  DEF PushP!Kinds, TransportsTypeOK, FedInv
<1>2. [PollP!PollingNext]_(PollP!pollingVars) => PollP!FedInv'
  BY ForDispatch, ForPolling, PollP!FedInvNext DEF TransportsTypeOK, FedInv
<1>3. ASSUME UNCHANGED pollOwn
      PROVE  PollP!FedInv'
  BY <1>3 DEF FedInv, PollP!FedInv, PollP!BatchFed, PollP!Seen,
     PollP!ConfirmingDone, PollP!PassedWereFed, PollP!InRound, pollOwn
<1>4. ASSUME UNCHANGED pushOwn
      PROVE  PushP!FedInv'
  BY <1>4 DEF FedInv, PushP!FedInv, PushP!StreamFed, PushP!NoUnseenSkip,
     PushP!Connected, PushP!Kinds, pushOwn
<1>5. QED
  BY <1>1, <1>2, <1>3, <1>4, TransportSteps DEF FedInv

LEMMA Typing == TransportsSpec => []TransportsTypeOK
BY TypeInit, TypeNext, PTL DEF TransportsSpec

\* No transport's position passes an event which that transport has not fed
\* to the dispatcher, whatever the other transports bring in the meantime; but
\* if next_seq is one past the batch, the pollers' passes the event right after
\* one they have fed.
THEOREM TransportsNoneSkipped == TransportsSpec => []NoneSkipped
<1>1. FedInv => NoneSkipped
  BY DEF FedInv, PushP!FedInv, PollP!FedInv, NoneSkipped, PushP!NoUnseenSkip,
     Push!NoUnseenSkip, PollP!PassedWereFed, Poll!PassedWereFed,
     PushP!Kinds, Push!Kinds
<1>2. QED
  BY <1>1, FedInit, FedNext, Typing, PTL DEF TransportsSpec

-----------------------------------------------------------------------------
(***************************************************************************)
(* The shared dispatcher.  Its running joins the functions of both kinds   *)
(* of tasks, so a feed of either is a feed of the dispatcher once the      *)
(* types say what the functions' domains are.                              *)
(***************************************************************************)
InFlight == [t \in AllTasks |-> IF t \in PushTasks THEN pushRunning[t] ELSE pollRunning[t]]

\* A task outside feed enters it, or one inside feed leaves it.
LEMMA OneTaskMoves ==
    ASSUME TransportsTypeOK, NEW t, NEW k,
           \/ t \in PushTasks /\ pushRunning' = [pushRunning EXCEPT ![t] = k]
                             /\ UNCHANGED pollRunning
           \/ t \in PollTasks /\ pollRunning' = [pollRunning EXCEPT ![t] = k]
                             /\ UNCHANGED pushRunning
    PROVE  InFlight' = [InFlight EXCEPT ![t] = k]
<1>1. /\ pushRunning \in [PushTasks -> Keys \cup {None}]
      /\ pollRunning \in [PollTasks -> Keys \cup {None}]
  BY DEF TransportsTypeOK, PushP!PushTypeOK, PushP!DispatchTypeOK,
     PollP!PollingTypeOK, PollP!DispatchTypeOK
<1>2. PushTasks \cap PollTasks = {}
  BY TransportsAssumption
<1>3. QED
  BY <1>1, <1>2 DEF InFlight, AllTasks

LEMMA PushFeeds ==
    ASSUME TransportsTypeOK, NEW t \in PushTasks, UNCHANGED pollRunning,
           \/ \E n \in Keys: PushP!FeedDuplicate(t, n) \/ PushP!FeedStart(t, n)
           \/ \E outcome \in PushP!Outcomes: PushP!FeedReturn(t, outcome)
           \/ PushP!FeedAbort(t)
           \/ UNCHANGED PushP!dispatchVars
    PROVE  [SharedP!DispatchNext]_(SharedP!dispatchVars)
<1> USE DEF InFlight
<1>1. t \in AllTasks /\ InFlight[t] = pushRunning[t]
  BY TransportsAssumption DEF AllTasks
<1>2. ASSUME NEW n \in Keys, PushP!FeedDuplicate(t, n)
      PROVE  UNCHANGED SharedP!dispatchVars
  BY <1>2 DEF PushP!FeedDuplicate, PushP!dispatchVars, SharedP!dispatchVars
<1>3. ASSUME NEW n \in Keys, PushP!FeedStart(t, n)
      PROVE  SharedP!FeedStart(t, n)
  <2>1. InFlight' = [InFlight EXCEPT ![t] = n]
    BY <1>3, OneTaskMoves DEF PushP!FeedStart
  <2>2. QED
    BY <1>1, <1>3, <2>1 DEF PushP!FeedStart, SharedP!FeedStart
<1>4. ASSUME NEW outcome \in PushP!Outcomes, PushP!FeedReturn(t, outcome)
      PROVE  outcome \in SharedP!Outcomes /\ SharedP!FeedReturn(t, outcome)
  <2>1. InFlight' = [InFlight EXCEPT ![t] = None]
    BY <1>4, OneTaskMoves DEF PushP!FeedReturn
  <2>2. QED
    BY <1>1, <1>4, <2>1
    DEF PushP!FeedReturn, SharedP!FeedReturn, PushP!Outcomes, SharedP!Outcomes
<1>5. ASSUME PushP!FeedAbort(t)
      PROVE  SharedP!FeedAbort(t)
  <2>1. InFlight' = [InFlight EXCEPT ![t] = None]
    BY <1>5, OneTaskMoves DEF PushP!FeedAbort
  <2>2. QED
    BY <1>1, <1>5, <2>1 DEF PushP!FeedAbort, SharedP!FeedAbort
<1>6. ASSUME UNCHANGED PushP!dispatchVars
      PROVE  UNCHANGED SharedP!dispatchVars
  BY <1>6 DEF PushP!dispatchVars, SharedP!dispatchVars
<1>7. QED
  BY <1>1, <1>2, <1>3, <1>4, <1>5, <1>6 DEF SharedP!DispatchNext

LEMMA PollFeeds ==
    ASSUME TransportsTypeOK, NEW t \in PollTasks, UNCHANGED pushRunning,
           \/ \E n \in Keys: PollP!FeedDuplicate(t, n) \/ PollP!FeedStart(t, n)
           \/ \E outcome \in PollP!Outcomes: PollP!FeedReturn(t, outcome)
           \/ PollP!FeedAbort(t)
           \/ UNCHANGED PollP!dispatchVars
    PROVE  [SharedP!DispatchNext]_(SharedP!dispatchVars)
<1> USE DEF InFlight
<1>1. t \in AllTasks /\ InFlight[t] = pollRunning[t]
  BY TransportsAssumption DEF AllTasks
<1>2. ASSUME NEW n \in Keys, PollP!FeedDuplicate(t, n)
      PROVE  UNCHANGED SharedP!dispatchVars
  BY <1>2 DEF PollP!FeedDuplicate, PollP!dispatchVars, SharedP!dispatchVars
<1>3. ASSUME NEW n \in Keys, PollP!FeedStart(t, n)
      PROVE  SharedP!FeedStart(t, n)
  <2>1. InFlight' = [InFlight EXCEPT ![t] = n]
    BY <1>3, OneTaskMoves DEF PollP!FeedStart
  <2>2. QED
    BY <1>1, <1>3, <2>1 DEF PollP!FeedStart, SharedP!FeedStart
<1>4. ASSUME NEW outcome \in PollP!Outcomes, PollP!FeedReturn(t, outcome)
      PROVE  outcome \in SharedP!Outcomes /\ SharedP!FeedReturn(t, outcome)
  <2>1. InFlight' = [InFlight EXCEPT ![t] = None]
    BY <1>4, OneTaskMoves DEF PollP!FeedReturn
  <2>2. QED
    BY <1>1, <1>4, <2>1
    DEF PollP!FeedReturn, SharedP!FeedReturn, PollP!Outcomes, SharedP!Outcomes
<1>5. ASSUME PollP!FeedAbort(t)
      PROVE  SharedP!FeedAbort(t)
  <2>1. InFlight' = [InFlight EXCEPT ![t] = None]
    BY <1>5, OneTaskMoves DEF PollP!FeedAbort
  <2>2. QED
    BY <1>1, <1>5, <2>1 DEF PollP!FeedAbort, SharedP!FeedAbort
<1>6. ASSUME UNCHANGED PollP!dispatchVars
      PROVE  UNCHANGED SharedP!dispatchVars
  BY <1>6 DEF PollP!dispatchVars, SharedP!dispatchVars
<1>7. QED
  BY <1>1, <1>2, <1>3, <1>4, <1>5, <1>6 DEF SharedP!DispatchNext

LEMMA SharedSteps ==
    ASSUME TransportsTypeOK, [TransportsNext]_transportVars
    PROVE  [SharedP!DispatchNext]_(SharedP!dispatchVars)
<1>1. CASE Publish
  BY <1>1, SameEngine DEF PushP!Publish, PushP!dispatchVars, pollOwn, SharedP!dispatchVars
<1>2. ASSUME NEW s \in PushTasks, PushStep(s)
      PROVE  [SharedP!DispatchNext]_(SharedP!dispatchVars)
  <2>1. /\ PushP!Progress(s) \/ PushP!Drop(s) \/ PushP!Abort(s) \/ PushP!Close(s)
        /\ UNCHANGED pollRunning
    BY <1>2, SamePush DEF PushAlone, pollOwn
  <2>2. QED
    BY <2>1, ForDispatch, ForPush, PushP!SourceFeeds, PushFeeds DEF PushP!Kinds
<1>3. ASSUME NEW s \in PollTasks, PollStep(s)
      PROVE  [SharedP!DispatchNext]_(SharedP!dispatchVars)
  <2>1. /\ PollP!Progress(s) \/ PollP!ConfirmLost(s) \/ PollP!Abort(s)
        /\ UNCHANGED pushRunning
    BY <1>3, SamePoll DEF PollAlone, pushOwn
  <2>2. QED
    BY <2>1, ForDispatch, ForPolling, PollP!PollerFeeds, PollFeeds
<1>4. ASSUME NEW n \in Keys, ForgetMark(n)
      PROVE  SharedP!DispatchNext
  BY <1>4, SameEngine
  DEF PushP!ForgetMark, PushP!MarkExpires, pollOwn, SharedP!MarkExpires, SharedP!DispatchNext
<1>5. CASE ProcessRestart
  <2>1. PushP!DispatchRestart /\ PollP!DispatchRestart
    BY <1>5, SameEngine DEF PushP!ProcessRestart, PollP!ProcessRestart
  <2>2. SharedP!DispatchRestart
    BY <2>1 DEF PushP!DispatchRestart, PollP!DispatchRestart,
       SharedP!DispatchRestart, AllTasks
  <2>3. QED
    BY <2>2 DEF SharedP!DispatchNext
<1>6. CASE UNCHANGED transportVars
  BY <1>6 DEF transportVars, pushOwn, pollOwn, SharedP!dispatchVars
<1>7. QED
  BY <1>1, <1>2, <1>3, <1>4, <1>5, <1>6 DEF TransportsNext

LEMMA SharedInit == TransportsInit => SharedP!DispatchInit
BY DEF TransportsInit, Push!PushInit, Push!DispatchInit, Poll!PollingInit,
   Poll!DispatchInit, SharedP!DispatchInit, AllTasks

LEMMA SharedInvariant == TransportsSpec => []SharedP!DispatchInv
<1>1. SharedP!DispatchInit => SharedP!DispatchInv
  BY ForDispatch, SharedP!DispatchInvInit
<1>2. SharedP!DispatchInv /\ [SharedP!DispatchNext]_(SharedP!dispatchVars)
          => SharedP!DispatchInv'
  BY ForDispatch, SharedP!DispatchInvNext
<1>3. QED
  BY <1>1, <1>2, SharedInit, SharedSteps, Typing, PTL DEF TransportsSpec

\* However many transports bring one event at the same moment, one of them
\* alone runs its handler.
THEOREM TransportsSingleFlight == TransportsSpec => []SingleFlight
<1>1. SharedP!DispatchInv => SingleFlight
  BY DEF SharedP!DispatchInv, SharedP!SingleFlight, SingleFlight, Shared!SingleFlight
<1>2. QED
  BY <1>1, SharedInvariant, PTL

\* What one transport has dispatched without an error no other runs again,
\* now or after a restart.
THEOREM TransportsNeverReprocess == TransportsSpec => []NeverReprocessed
<1>1. SharedP!DispatchInv => NeverReprocessed
  BY DEF SharedP!DispatchInv, SharedP!NeverReprocessed, NeverReprocessed,
     Shared!NeverReprocessed
<1>2. QED
  BY <1>1, SharedInvariant, PTL

\* The transports together use the one dispatcher only as its specification
\* allows, with the tasks of all of them.
THEOREM TransportsUseDispatcher == TransportsSpec => Shared!DispatchSpec
<1>1. SharedP!DispatchInit => Shared!DispatchInit
  BY DEF SharedP!DispatchInit, Shared!DispatchInit
<1>2. [SharedP!DispatchNext]_(SharedP!dispatchVars)
          => [Shared!DispatchNext]_(Shared!dispatchVars)
  BY DEF SharedP!DispatchNext, Shared!DispatchNext, SharedP!dispatchVars,
     Shared!dispatchVars, SharedP!Outcomes, Shared!Outcomes,
     SharedP!FeedDuplicate, Shared!FeedDuplicate, SharedP!FeedStart,
     Shared!FeedStart, SharedP!FeedReturn, Shared!FeedReturn,
     SharedP!FeedAbort, Shared!FeedAbort, SharedP!MarkExpires,
     Shared!MarkExpires, SharedP!DispatchRestart, Shared!DispatchRestart
<1>3. QED
  BY <1>1, <1>2, SharedInit, SharedSteps, Typing, PTL
  DEF TransportsSpec, Shared!DispatchSpec

-----------------------------------------------------------------------------
(***************************************************************************)
(* At-least-once delivery, per transport, without the dedup middleware.    *)
(* A step of one transport is a step of its own promise; to another it     *)
(* shows as an event published or processed, which its promise allows at   *)
(* any time.                                                               *)
(***************************************************************************)
DeliveryInv == PushP!PassInv /\ PollP!SettledInv

PushDelivery == [PushP!Promise!DeliveryNext]_(PushP!Promise!deliveryVars)
PollDelivery == [PollP!Promise!DeliveryNext]_(PollP!Promise!deliveryVars)

LEMMA DeliveryInvInit == TransportsInit => DeliveryInv
<1>1. PushP!PushInit => PushP!PassInv
  BY ForDispatch, ForPush, PushP!PassInvInit DEF PushP!Kinds
<1>2. PollP!PollingInit => PollP!SettledInv
  BY ForDispatch, ForPolling, PollP!SettledInvInit
<1>3. QED
  BY <1>1, <1>2, SameInit DEF DeliveryInv

\* What either promise lets happen to the log and to what is processed.
LEMMA PushShows ==
    ASSUME PushP!PushTypeOK, PushDelivery
    PROVE  /\ tip' >= tip /\ settled \subseteq settled'
           /\ UNCHANGED pollOwn => PollDelivery
<1>1. tip \in Nat
  <2>1. tip \in Keys \cup {0}
    BY DEF PushP!PushTypeOK
  <2>2. QED
    BY <2>1, TransportsAssumption
<1>2. \/ PushP!Promise!PublishEvent
      \/ PushP!Promise!Process
      \/ UNCHANGED <<tip, settled>>
  BY DEF PushDelivery, PushP!Promise!DeliveryNext, PushP!Promise!deliveryVars,
     PushP!Promise!Commit, PushP!Promise!Forget
<1>3. CASE PushP!Promise!PublishEvent
  <2>1. tip' \in Keys /\ tip' > tip /\ settled' = settled
    BY <1>3 DEF PushP!Promise!PublishEvent
  <2>2. tip' >= tip
    BY <1>1, <2>1, TransportsAssumption
  <2>3. ASSUME UNCHANGED pollOwn
        PROVE  PollP!Promise!PublishEvent
    BY <2>1, <2>3 DEF pollOwn, PollP!Promise!PublishEvent
  <2>4. QED
    BY <2>1, <2>2, <2>3 DEF PollDelivery, PollP!Promise!DeliveryNext
<1>4. CASE PushP!Promise!Process
  <2>1. PICK e \in Keys: e <= tip /\ settled' = settled \cup {e} /\ tip' = tip
    BY <1>4 DEF PushP!Promise!Process
  <2>2. ASSUME UNCHANGED pollOwn
        PROVE  PollP!Promise!Process
    BY <2>1, <2>2 DEF pollOwn, PollP!Promise!Process
  <2>3. QED
    BY <1>1, <2>1, <2>2 DEF PollDelivery, PollP!Promise!DeliveryNext
<1>5. CASE UNCHANGED <<tip, settled>>
  BY <1>1, <1>5 DEF PollDelivery, PollP!Promise!deliveryVars, pollOwn
<1>6. QED
  BY <1>2, <1>3, <1>4, <1>5

LEMMA PollShows ==
    ASSUME PollP!PollingTypeOK, PollDelivery
    PROVE  /\ tip' >= tip /\ settled \subseteq settled'
           /\ UNCHANGED pushOwn => PushDelivery
<1>1. tip \in Nat
  <2>1. tip \in Keys \cup {0}
    BY DEF PollP!PollingTypeOK
  <2>2. QED
    BY <2>1, TransportsAssumption
<1>2. \/ PollP!Promise!PublishEvent
      \/ PollP!Promise!Process
      \/ UNCHANGED <<tip, settled>>
  BY DEF PollDelivery, PollP!Promise!DeliveryNext, PollP!Promise!deliveryVars,
     PollP!Promise!Commit, PollP!Promise!Forget
<1>3. CASE PollP!Promise!PublishEvent
  <2>1. tip' \in Keys /\ tip' > tip /\ settled' = settled
    BY <1>3 DEF PollP!Promise!PublishEvent
  <2>2. tip' >= tip
    BY <1>1, <2>1, TransportsAssumption
  <2>3. ASSUME UNCHANGED pushOwn
        PROVE  PushP!Promise!PublishEvent
    BY <2>1, <2>3 DEF pushOwn, PushP!Promise!PublishEvent
  <2>4. QED
    BY <2>1, <2>2, <2>3 DEF PushDelivery, PushP!Promise!DeliveryNext
<1>4. CASE PollP!Promise!Process
  <2>1. PICK e \in Keys: e <= tip /\ settled' = settled \cup {e} /\ tip' = tip
    BY <1>4 DEF PollP!Promise!Process
  <2>2. ASSUME UNCHANGED pushOwn
        PROVE  PushP!Promise!Process
    BY <2>1, <2>2 DEF pushOwn, PushP!Promise!Process
  <2>3. QED
    BY <1>1, <2>1, <2>2 DEF PushDelivery, PushP!Promise!DeliveryNext
<1>5. CASE UNCHANGED <<tip, settled>>
  BY <1>1, <1>5 DEF PushDelivery, PushP!Promise!deliveryVars, pushOwn
<1>6. QED
  BY <1>2, <1>3, <1>4, <1>5

LEMMA DeliverySteps ==
    ASSUME ~Dedup, AtomicStore, TransportsTypeOK, DeliveryInv,
           [TransportsNext]_transportVars
    PROVE  DeliveryInv' /\ PushDelivery /\ PollDelivery
<1>1. PushP!PushTypeOK /\ PollP!PollingTypeOK /\ PushP!PassInv /\ PollP!SettledInv
  BY DEF TransportsTypeOK, DeliveryInv
<1>2. tip' \in Nat
  <2>1. tip' \in Keys \cup {0}
    BY TypeNext DEF TransportsTypeOK, PushP!PushTypeOK
  <2>2. QED
    BY <2>1, TransportsAssumption
<1>3. ASSUME [PushP!PushNext]_(PushP!pushVars)
      PROVE  PushP!PassInv' /\ PushDelivery
  <2>1. PushP!PassInv'
    BY <1>1, <1>3, ForDispatch, ForPush, PushP!PassInvNext DEF PushP!Kinds
  <2>2. PushDelivery
    BY <1>1, <1>3, ForDispatch, ForPush, PushP!PushDelivers DEF PushP!Kinds, PushDelivery
  <2>3. QED
    BY <2>1, <2>2
<1>4. ASSUME [PollP!PollingNext]_(PollP!pollingVars)
      PROVE  PollP!SettledInv' /\ PollDelivery
  <2>1. PollP!SettledInv'
    BY <1>1, <1>4, ForDispatch, ForPolling, PollP!SettledInvNext
  <2>2. PollDelivery
    BY <1>1, <1>4, ForDispatch, ForPolling, PollP!PollingDelivers DEF PollDelivery
  <2>3. QED
    BY <2>1, <2>2
<1>5. CASE [PushP!PushNext]_(PushP!pushVars) /\ UNCHANGED pollOwn
  <2>1. PushP!PassInv' /\ PushDelivery /\ PollDelivery
    BY <1>1, <1>3, <1>5, PushShows
  <2>2. PollP!SettledInv'
    BY <1>1, <1>2, <1>5, <2>1, PushShows, ForDispatch, ForPolling,
       PollP!SettledInvElsewhere
    DEF pollOwn, PollP!batchVars
  <2>3. QED
    BY <2>1, <2>2 DEF DeliveryInv
<1>6. CASE [PollP!PollingNext]_(PollP!pollingVars) /\ UNCHANGED pushOwn
  <2>1. PollP!SettledInv' /\ PushDelivery /\ PollDelivery
    BY <1>1, <1>4, <1>6, PollShows
  <2>2. PushP!PassInv'
    BY <1>1, <1>2, <1>6, <2>1, PollShows, ForDispatch, ForPush,
       PushP!PassInvElsewhere
    DEF pushOwn, PushP!Kinds
  <2>3. QED
    BY <2>1, <2>2 DEF DeliveryInv
<1>7. CASE PushP!PushNext /\ PollP!PollingNext
  BY <1>3, <1>4, <1>7 DEF DeliveryInv
<1>8. QED
  BY <1>5, <1>6, <1>7, TransportSteps

\* Without dedup, and over a store that does not suspend, each transport keeps
\* its promise of at-least-once delivery beside all the others: no position
\* is committed past an event that none of them has dispatched without an
\* error, but for the events a push source may pass because their handler
\* failed, and the one right after a processed event that a poller passes if
\* next_seq is one past the batch.
THEOREM TransportsKeepPromise ==
    ASSUME ~Dedup, AtomicStore
    PROVE  TransportsSpec => Push!PromiseSpec /\ Poll!PromiseSpec
<1>1. TransportsInit => Push!Promise!DeliveryInit /\ Poll!Promise!DeliveryInit
  BY DEF TransportsInit, Push!PushInit, Push!DispatchInit, Push!Kinds,
     Poll!PollingInit, Poll!DispatchInit, Push!Promise!DeliveryInit,
     Poll!Promise!DeliveryInit
<1>2. DeliveryInv /\ TransportsTypeOK /\ [TransportsNext]_transportVars
          => DeliveryInv' /\ PushDelivery /\ PollDelivery
  BY DeliverySteps
<1>3. PushDelivery => [Push!Promise!DeliveryNext]_(Push!Promise!deliveryVars)
  BY DEF PushDelivery, PushP!Promise!DeliveryNext, Push!Promise!DeliveryNext,
     PushP!Promise!deliveryVars, Push!Promise!deliveryVars,
     PushP!Promise!PublishEvent, Push!Promise!PublishEvent,
     PushP!Promise!Process, Push!Promise!Process, PushP!Promise!Commit,
     Push!Promise!Commit, PushP!Promise!Passable, Push!Promise!Passable,
     PushP!Promise!Forget, Push!Promise!Forget,
     PushP!Kinds, Push!Kinds
<1>4. PollDelivery => [Poll!Promise!DeliveryNext]_(Poll!Promise!deliveryVars)
  BY DEF PollDelivery, PollP!Promise!DeliveryNext, Poll!Promise!DeliveryNext,
     PollP!Promise!deliveryVars, Poll!Promise!deliveryVars,
     PollP!Promise!PublishEvent, Poll!Promise!PublishEvent,
     PollP!Promise!Process, Poll!Promise!Process, PollP!Promise!Commit,
     Poll!Promise!Commit, PollP!Promise!Passable, Poll!Promise!Passable, PollP!Promise!Forget, Poll!Promise!Forget
<1>5. QED
  BY <1>1, <1>2, <1>3, <1>4, DeliveryInvInit, Typing, PTL
  DEF TransportsSpec, Push!PromiseSpec, Poll!PromiseSpec,
      Push!Promise!DeliverySpec, Poll!Promise!DeliverySpec
=============================================================================
