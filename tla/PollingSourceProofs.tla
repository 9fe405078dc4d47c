------------------------- MODULE PollingSourceProofs -------------------------
(***************************************************************************)
(* What holds of the pollers for every set of pollers and events, every    *)
(* batch size and every number of faults.                                  *)
(***************************************************************************)
EXTENDS PollingSource, DispatchProofs, FiniteSetTheorems, TLAPS

\* An event that precedes a member of the batch is read already or is in the
\* batch: the engine cuts the batch at its newest end.
LEMMA BatchIsPrefix ==
    ASSUME NEW m \in Batch, NEW n \in Pending, n <= m
    PROVE  n \in Batch
<1> DEFINE UpTo(k) == {i \in Pending: i <= k}
<1> USE PollingAssumption
<1>1. IsFiniteSet(UpTo(m))
  BY FS_Subset DEF Pending
<1>2. UpTo(n) \subseteq UpTo(m)
  <2>1. /\ n \in Nat /\ m \in Nat
        /\ \A i \in Pending: i \in Nat
    BY DEF Pending, Batch
  <2>2. \A i \in Pending: i <= n => i <= m
    BY <2>1
  <2>3. QED
    BY <2>2
<1>3. /\ IsFiniteSet(UpTo(n))
      /\ Cardinality(UpTo(n)) <= Cardinality(UpTo(m))
  BY <1>1, <1>2, FS_Subset
<1>4. Cardinality(UpTo(n)) \in Nat /\ Cardinality(UpTo(m)) \in Nat
  BY <1>1, <1>3, FS_CardinalityType
<1>5. Cardinality(UpTo(m)) <= Limit
  BY DEF Batch
<1>6. Cardinality(UpTo(n)) <= Limit
  BY <1>3, <1>4, <1>5
<1>7. QED
  BY <1>6 DEF Batch

LEMMA PollingTypeInit == PollingInit => PollingTypeOK
BY DispatchAssumption, PollingAssumption
DEF PollingInit, PollingTypeOK, DispatchInit, DispatchTypeOK, Phases

LEMMA PollingTypeNext == PollingTypeOK /\ [PollingNext]_pollingVars => PollingTypeOK'
<1> USE DispatchAssumption, PollingAssumption
<1> SUFFICES ASSUME PollingTypeOK, [PollingNext]_pollingVars
             PROVE PollingTypeOK'
  OBVIOUS
<1> USE DEF PollingTypeOK, DispatchTypeOK, Phases, Enter, Fault, batchVars,
            dispatchVars
<1>1. CASE Publish
  BY <1>1 DEF Publish
<1>2. ASSUME NEW s \in Tasks, Progress(s)
      PROVE PollingTypeOK'
  <2>1. CASE Fetch(s)
    <3>1. Batch \subseteq Keys
      BY DEF Batch, Pending
    <3>2. QED
      BY <2>1, <3>1 DEF Fetch
  <2>2. CASE EndBatch(s)
    BY <2>2 DEF EndBatch, NextRound
  <2>3. CASE Confirm(s)
    BY <2>3 DEF Confirm, MarkRead, NextSeq, NextRound, Last
  <2>4. CASE Wake(s)
    BY <2>4 DEF Wake
  <2>5. CASE Rerun(s)
    BY <2>5 DEF Rerun
  <2>6. ASSUME NEW n \in Keys, DispatchItem(s, n)
        PROVE PollingTypeOK'
    <3>1. CASE FeedDuplicate(s, n) /\ UNCHANGED phase
      BY <2>6, <3>1 DEF DispatchItem, FeedDuplicate
    <3>2. CASE FeedStart(s, n) /\ Enter(s, "feeding")
      BY <2>6, <3>2 DEF DispatchItem, FeedStart
    <3>3. QED
      BY <2>6, <3>1, <3>2 DEF DispatchItem
  <2>7. ASSUME NEW outcome \in Outcomes, HandlerReturns(s, outcome)
        PROVE PollingTypeOK'
    BY <2>7 DEF HandlerReturns, FeedReturn
  <2>8. QED
    BY <1>2, <2>1, <2>2, <2>3, <2>4, <2>5, <2>6, <2>7 DEF Progress
<1>3. ASSUME NEW s \in Tasks, ConfirmLost(s)
      PROVE PollingTypeOK'
  BY <1>3 DEF ConfirmLost, MarkRead, NextSeq, Last
<1>4. ASSUME NEW s \in Tasks, Abort(s)
      PROVE PollingTypeOK'
  <2>1. CASE phase[s] = "feeding"
    <3>1. FeedAbort(s)
      BY <1>4, <2>1 DEF Abort
    <3>2. QED
      BY <1>4, <3>1 DEF Abort, FeedAbort
  <2>2. CASE phase[s] # "feeding"
    <3>1. UNCHANGED dispatchVars
      BY <1>4, <2>2 DEF Abort
    <3>2. QED
      BY <1>4, <2>2, <3>1 DEF Abort
  <2>3. QED
    BY <2>1, <2>2
<1>5. CASE ProcessRestart
  BY <1>5 DEF ProcessRestart, DispatchRestart
<1>6. ASSUME NEW n \in Keys, ForgetMark(n)
      PROVE PollingTypeOK'
  BY <1>6 DEF ForgetMark, MarkExpires
<1>7. CASE UNCHANGED pollingVars
  BY <1>7 DEF pollingVars
<1>8. QED
  BY <1>1, <1>2, <1>3, <1>4, <1>5, <1>6, <1>7 DEF PollingNext

\* PollingTypeOK is inductive: no interleaving of rounds, faults and restarts
\* leaves a handler running for a poller that is not in feed.
THEOREM PollingTyping == PollingSpec => []PollingTypeOK
BY PollingTypeInit, PollingTypeNext, PTL DEF PollingSpec

-----------------------------------------------------------------------------
(***************************************************************************)
(* PassedWereFed.  A batch is confirmed by its last event, or one past it, *)
(* when nothing of the batch is left: it is enough that every event up to  *)
(* the end of a batch under way was fed, in this round or before, or is    *)
(* left, or comes right after one that was fed if next_seq overshoots.     *)
(***************************************************************************)
InRound == {"dispatching", "feeding", "confirming"}

Seen(n) == n \in fed \/ (PastEnd /\ n - 1 \in fed)

BatchFed ==
    \A s \in Tasks: phase[s] \in InRound =>
        /\ items[s] \subseteq fed \cup todo[s]
        /\ \A m \in items[s]: \A n \in Keys: n <= m => Seen(n) \/ n \in todo[s]

ConfirmingDone ==
    \A s \in Tasks: phase[s] = "confirming" => todo[s] = {}

FedInv == BatchFed /\ ConfirmingDone /\ PassedWereFed

\* A step that only moves one poller to another phase, keeps the batch and
\* confirms nothing preserves FedInv.
LEMMA FedInvPhase ==
    ASSUME FedInv, PollingTypeOK, NEW s \in Tasks, NEW p,
           p \in InRound => phase[s] \in InRound,
           p = "confirming" => todo[s] = {},
           phase' = [phase EXCEPT ![s] = p],
           UNCHANGED <<lastRead, items, todo, fed>>
    PROVE  FedInv'
BY DEF FedInv, BatchFed, Seen, ConfirmingDone, PassedWereFed, PollingTypeOK

\* Confirming the end of a batch that was fed completely preserves FedInv.
LEMMA FedInvConfirm ==
    ASSUME FedInv, PollingTypeOK, NEW s \in Tasks, NEW p,
           phase[s] = "confirming",
           \E n \in items[s]: Last(items[s], n) /\ MarkRead(NextSeq(n)),
           p \notin InRound,
           phase' = [phase EXCEPT ![s] = p],
           UNCHANGED <<items, todo, fed>>
    PROVE  FedInv'
<1> USE PollingAssumption
<1> PICK m \in items[s]: MarkRead(NextSeq(m))
  OBVIOUS
<1>1. m \in fed /\ \A n \in Keys: n <= m => Seen(n)
  BY DEF FedInv, BatchFed, ConfirmingDone, InRound
<1>2. m \in Nat /\ \A n \in Keys: n \in Nat
  BY DEF PollingTypeOK
<1>3. ASSUME NEW n \in Keys, n <= lastRead'
      PROVE  Seen(n)
  <2>1. CASE lastRead' = lastRead
    BY <1>3, <2>1 DEF FedInv, PassedWereFed, Seen
  <2>2. CASE n <= m
    BY <1>1, <2>2
  <2>3. CASE lastRead' = NextSeq(m) /\ ~(n <= m)
    <3>1. PastEnd /\ n - 1 = m
      BY <1>2, <1>3, <2>3 DEF NextSeq
    <3>2. QED
      BY <1>1, <3>1 DEF Seen
  <2>4. QED
    BY <2>1, <2>2, <2>3 DEF MarkRead
<1>4. BatchFed' /\ ConfirmingDone' /\ PassedWereFed'
  BY <1>3 DEF FedInv, BatchFed, Seen, ConfirmingDone, PassedWereFed, PollingTypeOK, InRound
<1>5. QED
  BY <1>4 DEF FedInv

LEMMA FedInvNext ==
    FedInv /\ PollingTypeOK /\ [PollingNext]_pollingVars => FedInv'
<1> USE PollingAssumption
<1> SUFFICES ASSUME FedInv, PollingTypeOK, [PollingNext]_pollingVars
             PROVE FedInv'
  OBVIOUS
<1> USE DEF batchVars
<1>1. CASE Publish
  BY <1>1 DEF Publish, FedInv, BatchFed, Seen, ConfirmingDone, PassedWereFed
<1>2. ASSUME NEW s \in Tasks, Progress(s)
      PROVE FedInv'
  <2>1. CASE Fetch(s)
    <3>1. /\ items' = [items EXCEPT ![s] = Batch]
          /\ todo' = [todo EXCEPT ![s] = Batch]
          /\ phase' = [phase EXCEPT ![s] = "dispatching"]
          /\ UNCHANGED <<lastRead, fed>>
      BY <2>1 DEF Fetch, Enter
    <3>2. ASSUME NEW m \in Batch, NEW n \in Keys, n <= m
          PROVE Seen(n) \/ n \in Batch
      <4>1. /\ m \in Nat /\ n \in Nat /\ lastRead \in Nat /\ tip \in Nat
            /\ m <= tip
        BY DEF PollingTypeOK, Batch, Pending
      <4>2. CASE n <= lastRead
        BY <4>2 DEF FedInv, PassedWereFed, Seen
      <4>3. CASE ~(n <= lastRead)
        <5>1. n \in Pending
          BY <3>2, <4>1, <4>3 DEF Pending
        <5>2. QED
          BY <3>2, <5>1, BatchIsPrefix
      <4>4. QED
        BY <4>2, <4>3
    <3>3. BatchFed'
      BY <3>1, <3>2 DEF FedInv, BatchFed, Seen, PollingTypeOK
    <3>4. ConfirmingDone' /\ PassedWereFed'
      BY <3>1 DEF FedInv, ConfirmingDone, PassedWereFed, PollingTypeOK
    <3>5. QED
      BY <3>3, <3>4 DEF FedInv
  <2>2. CASE EndBatch(s)
    BY <2>2, FedInvPhase DEF EndBatch, NextRound, Enter, InRound
  <2>3. CASE Confirm(s)
    <3>1. PICK p \in {"sleeping", "polling"}: phase' = [phase EXCEPT ![s] = p]
      BY <2>3 DEF Confirm, NextRound, Enter
    <3>2. p \notin InRound
      BY DEF InRound
    <3>3. QED
      BY <2>3, <3>1, <3>2, FedInvConfirm DEF Confirm
  <2>4. CASE Wake(s)
    BY <2>4, FedInvPhase DEF Wake, Enter, InRound
  <2>5. CASE Rerun(s)
    BY <2>5, FedInvPhase DEF Rerun, Enter, InRound
  <2>6. ASSUME NEW n \in Keys, DispatchItem(s, n)
        PROVE FedInv'
    <3>1. /\ phase[s] = "dispatching"
          /\ \/ phase' = phase
             \/ phase' = [phase EXCEPT ![s] = "feeding"]
          /\ todo' = [todo EXCEPT ![s] = @ \ {n}]
          /\ fed' = fed \cup {n}
          /\ UNCHANGED <<lastRead, items>>
      BY <2>6 DEF DispatchItem, Enter
    <3>2. BatchFed'
      BY <3>1 DEF FedInv, BatchFed, Seen, PollingTypeOK, InRound
    <3>3. ConfirmingDone' /\ PassedWereFed'
      BY <3>1 DEF FedInv, ConfirmingDone, PassedWereFed, PollingTypeOK
    <3>4. QED
      BY <3>2, <3>3 DEF FedInv
  <2>7. ASSUME NEW outcome \in Outcomes, HandlerReturns(s, outcome)
        PROVE FedInv'
    BY <2>7, FedInvPhase DEF HandlerReturns, Enter, InRound
  <2>8. QED
    BY <1>2, <2>1, <2>2, <2>3, <2>4, <2>5, <2>6, <2>7 DEF Progress
<1>3. ASSUME NEW s \in Tasks, ConfirmLost(s)
      PROVE FedInv'
  BY <1>3, FedInvConfirm DEF ConfirmLost, Enter, InRound
<1>4. ASSUME NEW s \in Tasks, Abort(s)
      PROVE FedInv'
  BY <1>4, FedInvPhase DEF Abort, Enter, InRound
<1>5. CASE ProcessRestart
  BY <1>5 DEF ProcessRestart, FedInv, BatchFed, Seen, ConfirmingDone,
     PassedWereFed, InRound
<1>6. ASSUME NEW n \in Keys, ForgetMark(n)
      PROVE FedInv'
  BY <1>6 DEF ForgetMark, FedInv, BatchFed, Seen, ConfirmingDone, PassedWereFed
<1>7. CASE UNCHANGED pollingVars
  BY <1>7 DEF pollingVars, FedInv, BatchFed, Seen, ConfirmingDone, PassedWereFed
<1>8. QED
  BY <1>1, <1>2, <1>3, <1>4, <1>5, <1>6, <1>7 DEF PollingNext

LEMMA FedInvInit == PollingInit => FedInv
BY PollingAssumption
DEF PollingInit, FedInv, BatchFed, ConfirmingDone, PassedWereFed, InRound

\* Wherever next_seq is, over whatever interleaving of pollers, lost answers
\* and restarts: the engine's position passes only what was fed to the
\* dispatcher, and, if next_seq is one past the batch, the event right after
\* such an event.
THEOREM PollingPassedWereFed == PollingSpec => []PassedWereFed
<1>1. FedInv => PassedWereFed
  BY DEF FedInv
<1>2. QED
  BY <1>1, FedInvInit, FedInvNext, PollingTyping, PTL DEF PollingSpec

\* If next_seq is the last event of the batch, the engine's position never
\* passes an event that was not fed to the dispatcher.
THEOREM PollingConfirmedWereFed ==
    ASSUME ~PastEnd
    PROVE  PollingSpec => []ConfirmedWereFed
<1>1. PassedWereFed => ConfirmedWereFed
  BY DEF PassedWereFed, ConfirmedWereFed
<1>2. QED
  BY <1>1, PollingPassedWereFed, PTL

-----------------------------------------------------------------------------
(***************************************************************************)
(* What the engine's position passes.  Without the dedup middleware every  *)
(* item of a batch reaches its handler, so a batch without an ERRORED      *)
(* result is settled up to what is left of it and the event in flight.     *)
(***************************************************************************)
Done(n) == n \in settled \/ (PastEnd /\ n - 1 \in settled)

BatchSettled ==
    \A s \in Tasks: phase[s] \in InRound /\ allOk[s] =>
        /\ items[s] \subseteq settled \cup todo[s] \cup {running[s]}
        /\ \A m \in items[s]: \A n \in Keys:
               n <= m => Done(n) \/ n \in todo[s] \cup {running[s]}

PassedWereDone == \A n \in Keys: n <= lastRead => Done(n)

ConfirmingOk ==
    \A s \in Tasks: phase[s] = "confirming" => todo[s] = {} /\ allOk[s]

AtTip ==
    /\ \A s \in Tasks: \A m \in items[s] \cup todo[s]: m <= tip
    /\ \A s \in Tasks: running[s] # None => running[s] <= tip

SettledInv == BatchSettled /\ ConfirmingOk /\ AtTip /\ PassedWereDone

\* A step that moves one poller to a phase in which no more is claimed.
LEMMA SettledInvPhase ==
    ASSUME SettledInv, PollingTypeOK, NEW s \in Tasks, NEW p,
           p \in InRound => phase[s] \in InRound,
           p = "confirming" => todo[s] = {} /\ allOk[s],
           phase' = [phase EXCEPT ![s] = p],
           UNCHANGED <<tip, lastRead, items, todo, allOk, running, settled>>
    PROVE  SettledInv'
<1>1. BatchSettled' /\ ConfirmingOk'
  BY DEF SettledInv, BatchSettled, Done, ConfirmingOk, PollingTypeOK
<1>2. AtTip' /\ PassedWereDone'
  BY DEF SettledInv, AtTip, PassedWereDone, Done
<1>3. QED
  BY <1>1, <1>2 DEF SettledInv

\* What a poller is about to confirm is settled and published.
LEMMA ConfirmableSettled ==
    ASSUME SettledInv, PollingTypeOK, NEW s \in Tasks,
           phase[s] = "confirming", NEW m \in items[s]
    PROVE  /\ m \in settled
           /\ m \in Nat \ {0}
           /\ m <= tip
           /\ \A n \in Keys: n <= NextSeq(m) => Done(n)
<1> USE DispatchAssumption, PollingAssumption
<1>1. running[s] = None /\ todo[s] = {} /\ allOk[s]
  BY DEF SettledInv, ConfirmingOk, PollingTypeOK
<1>2. m \in Keys
  BY DEF PollingTypeOK
<1>3. m \in settled /\ \A n \in Keys: n <= m => Done(n)
  BY <1>1, <1>2 DEF SettledInv, BatchSettled, InRound
<1>4. m \in Nat \ {0} /\ m <= tip
  BY <1>2 DEF SettledInv, AtTip
<1>5. ASSUME NEW n \in Keys, n <= NextSeq(m)
      PROVE  Done(n)
  <2>1. n <= m \/ (PastEnd /\ n - 1 = m)
    BY <1>4, <1>5 DEF NextSeq
  <2>2. QED
    BY <1>3, <2>1 DEF Done
<1>6. QED
  BY <1>3, <1>4, <1>5

LEMMA SettledInvConfirm ==
    ASSUME SettledInv, PollingTypeOK, NEW s \in Tasks, NEW p,
           phase[s] = "confirming",
           \E n \in items[s]: Last(items[s], n) /\ MarkRead(NextSeq(n)),
           p \notin InRound,
           phase' = [phase EXCEPT ![s] = p],
           UNCHANGED <<tip, items, todo, allOk, running, settled>>
    PROVE  SettledInv'
<1> PICK m \in items[s]: MarkRead(NextSeq(m))
  OBVIOUS
<1>1. \A n \in Keys: n <= NextSeq(m) => Done(n)
  BY ConfirmableSettled
<1>2. lastRead' = NextSeq(m) \/ lastRead' = lastRead
  BY DEF MarkRead
<1>3. PassedWereDone' /\ AtTip'
  BY <1>1, <1>2 DEF SettledInv, PassedWereDone, Done, AtTip
<1>4. BatchSettled' /\ ConfirmingOk'
  BY DEF SettledInv, BatchSettled, Done, ConfirmingOk, PollingTypeOK, InRound
<1>5. QED
  BY <1>3, <1>4 DEF SettledInv

LEMMA SettledInvNext ==
    ASSUME ~Dedup
    PROVE  SettledInv /\ PollingTypeOK /\ [PollingNext]_pollingVars => SettledInv'
<1> USE DispatchAssumption, PollingAssumption
<1> SUFFICES ASSUME SettledInv, PollingTypeOK, [PollingNext]_pollingVars
             PROVE SettledInv'
  OBVIOUS
<1> USE DEF batchVars, dispatchVars
<1>1. CASE Publish
  <2>1. /\ tip \in Nat /\ lastRead \in Nat
        /\ \A s \in Tasks: \A m \in items[s] \cup todo[s]: m \in Nat
        /\ \A s \in Tasks: running[s] # None => running[s] \in Nat
    <3>1. \A k \in Keys: k \in Nat
      OBVIOUS
    <3>2. /\ tip \in Keys \cup {0} /\ lastRead \in Nat
          /\ \A s \in Tasks: items[s] \subseteq Keys /\ todo[s] \subseteq Keys
          /\ \A s \in Tasks: running[s] \in Keys \cup {None}
      BY DEF PollingTypeOK, DispatchTypeOK
    <3>3. \A s \in Tasks: \A m \in items[s] \cup todo[s]: m \in Nat
      BY <3>1, <3>2
    <3>4. \A s \in Tasks: running[s] # None => running[s] \in Nat
      BY <3>1, <3>2
    <3>5. tip \in Nat
      BY <3>1, <3>2
    <3>6. QED
      BY <3>2, <3>3, <3>4, <3>5, Zenon
  <2>2. tip' \in Nat /\ tip' > tip
    BY <1>1 DEF Publish, First
  <2>3. UNCHANGED <<lastRead, items, todo, running>>
    BY <1>1 DEF Publish
  <2>4. AtTip'
    BY <2>1, <2>2, <2>3 DEF SettledInv, AtTip
  <2>5. QED
    BY <1>1, <2>4 DEF Publish, SettledInv, BatchSettled, Done, ConfirmingOk,
       PassedWereDone
<1>2. ASSUME NEW s \in Tasks, Progress(s)
      PROVE SettledInv'
  <2>1. CASE Fetch(s)
    <3>1. /\ items' = [items EXCEPT ![s] = Batch]
          /\ todo' = [todo EXCEPT ![s] = Batch]
          /\ allOk' = [allOk EXCEPT ![s] = TRUE]
          /\ phase' = [phase EXCEPT ![s] = "dispatching"]
          /\ UNCHANGED <<tip, lastRead, running, settled>>
      BY <2>1 DEF Fetch, Enter
    <3>2. ASSUME NEW m \in Batch, NEW n \in Keys, n <= m
          PROVE Done(n) \/ n \in Batch
      <4>1. /\ m \in Nat /\ n \in Nat /\ lastRead \in Nat /\ tip \in Nat
            /\ m <= tip
        BY DEF PollingTypeOK, Batch, Pending
      <4>2. CASE n <= lastRead
        BY <4>2 DEF SettledInv, PassedWereDone, Done
      <4>3. CASE ~(n <= lastRead)
        <5>1. n \in Pending
          BY <3>2, <4>1, <4>3 DEF Pending
        <5>2. QED
          BY <3>2, <5>1, BatchIsPrefix
      <4>4. QED
        BY <4>2, <4>3
    <3>3. BatchSettled'
      BY <3>1, <3>2 DEF SettledInv, BatchSettled, Done, PollingTypeOK
    <3>4. ConfirmingOk' /\ PassedWereDone'
      BY <3>1 DEF SettledInv, ConfirmingOk, PassedWereDone, Done, PollingTypeOK
    <3>5. AtTip'
      BY <3>1 DEF SettledInv, AtTip, PollingTypeOK, Batch, Pending
    <3>6. QED
      BY <3>3, <3>4, <3>5 DEF SettledInv
  <2>2. CASE EndBatch(s)
    BY <2>2, SettledInvPhase DEF EndBatch, Confirmable, NextRound, Enter, InRound
  <2>3. CASE Confirm(s)
    <3>1. PICK p \in {"sleeping", "polling"}: phase' = [phase EXCEPT ![s] = p]
      BY <2>3 DEF Confirm, NextRound, Enter
    <3>2. p \notin InRound
      BY DEF InRound
    <3>3. QED
      BY <2>3, <3>1, <3>2, SettledInvConfirm DEF Confirm
  <2>4. CASE Wake(s)
    BY <2>4, SettledInvPhase DEF Wake, Enter, InRound
  <2>5. CASE Rerun(s)
    BY <2>5, SettledInvPhase DEF Rerun, Enter, InRound
  <2>6. ASSUME NEW n \in Keys, DispatchItem(s, n)
        PROVE SettledInv'
    <3>1. /\ phase[s] = "dispatching"
          /\ running[s] = None
          /\ phase' = [phase EXCEPT ![s] = "feeding"]
          /\ running' = [running EXCEPT ![s] = n]
          /\ todo' = [todo EXCEPT ![s] = @ \ {n}]
          /\ UNCHANGED <<tip, lastRead, items, allOk, settled>>
      BY <2>6 DEF DispatchItem, FeedDuplicate, FeedStart, Enter
    <3>2. BatchSettled'
      BY <3>1 DEF SettledInv, BatchSettled, Done, PollingTypeOK, DispatchTypeOK, InRound
    <3>3. ConfirmingOk'
      BY <3>1 DEF SettledInv, ConfirmingOk, PollingTypeOK
    <3>4. AtTip'
      <4>1. n <= tip
        BY <2>6 DEF DispatchItem, First, SettledInv, AtTip
      <4>2. \A r \in Tasks: todo'[r] \subseteq todo[r]
        BY <3>1 DEF PollingTypeOK
      <4>3. \A r \in Tasks: running'[r] = running[r] \/ running'[r] = n
        BY <3>1 DEF PollingTypeOK, DispatchTypeOK
      <4>4. QED
        BY <3>1, <4>1, <4>2, <4>3 DEF SettledInv, AtTip
    <3>5. PassedWereDone'
      BY <3>1 DEF SettledInv, PassedWereDone, Done
    <3>6. QED
      BY <3>2, <3>3, <3>4, <3>5 DEF SettledInv
  <2>7. ASSUME NEW outcome \in Outcomes, HandlerReturns(s, outcome)
        PROVE SettledInv'
    <3>1. /\ phase[s] = "feeding"
          /\ phase' = [phase EXCEPT ![s] = "dispatching"]
          /\ running' = [running EXCEPT ![s] = None]
          /\ UNCHANGED <<tip, lastRead, items, todo>>
      BY <2>7 DEF HandlerReturns, FeedReturn, Enter
    <3>2. \/ /\ allOk' = [allOk EXCEPT ![s] = FALSE]
             /\ settled' = settled
          \/ /\ allOk' = allOk
             /\ settled' = settled \cup {running[s]}
      BY <2>7 DEF HandlerReturns, FeedReturn, PollingTypeOK
    <3>3. BatchSettled'
      BY <3>1, <3>2
      DEF SettledInv, BatchSettled, Done, PollingTypeOK, DispatchTypeOK, InRound
    <3>4. ConfirmingOk'
      BY <3>1, <3>2 DEF SettledInv, ConfirmingOk, PollingTypeOK
    <3>5. AtTip' /\ PassedWereDone'
      BY <3>1, <3>2 DEF SettledInv, AtTip, PassedWereDone, Done, PollingTypeOK,
         DispatchTypeOK
    <3>6. QED
      BY <3>3, <3>4, <3>5 DEF SettledInv
  <2>8. QED
    BY <1>2, <2>1, <2>2, <2>3, <2>4, <2>5, <2>6, <2>7 DEF Progress
<1>3. ASSUME NEW s \in Tasks, ConfirmLost(s)
      PROVE SettledInv'
  BY <1>3, SettledInvConfirm DEF ConfirmLost, Enter, InRound
<1>4. ASSUME NEW s \in Tasks, Abort(s)
      PROVE SettledInv'
  <2>1. /\ phase' = [phase EXCEPT ![s] = "aborted"]
        /\ running' \in {running, [running EXCEPT ![s] = None]}
        /\ UNCHANGED <<tip, lastRead, items, todo, allOk, settled>>
    BY <1>4 DEF Abort, FeedAbort, Enter
  <2>2. BatchSettled' /\ ConfirmingOk'
    BY <2>1 DEF SettledInv, BatchSettled, Done, ConfirmingOk, PollingTypeOK,
       DispatchTypeOK, InRound
  <2>3. AtTip' /\ PassedWereDone'
    BY <2>1 DEF SettledInv, AtTip, PassedWereDone, Done, PollingTypeOK,
       DispatchTypeOK
  <2>4. QED
    BY <2>2, <2>3 DEF SettledInv
<1>5. CASE ProcessRestart
  BY <1>5 DEF ProcessRestart, DispatchRestart, SettledInv, BatchSettled, Done,
     ConfirmingOk, AtTip, PassedWereDone, InRound
<1>6. ASSUME NEW n \in Keys, ForgetMark(n)
      PROVE SettledInv'
  BY <1>6 DEF ForgetMark, MarkExpires, SettledInv, BatchSettled, Done, ConfirmingOk,
     AtTip, PassedWereDone
<1>7. CASE UNCHANGED pollingVars
  BY <1>7 DEF pollingVars, SettledInv, BatchSettled, Done, ConfirmingOk, AtTip,
     PassedWereDone
<1>8. QED
  BY <1>1, <1>2, <1>3, <1>4, <1>5, <1>6, <1>7 DEF PollingNext

\* What others publish, and settle, takes nothing from SettledInv.
LEMMA SettledInvElsewhere ==
    ASSUME SettledInv, PollingTypeOK, tip' \in Nat, tip' >= tip, settled \subseteq settled',
           UNCHANGED <<lastRead, phase, batchVars, running>>
    PROVE  SettledInv'
<1> USE DEF batchVars
<1>1. /\ tip \in Nat /\ lastRead \in Nat
      /\ \A s \in Tasks: \A m \in items[s] \cup todo[s]: m \in Nat
      /\ \A s \in Tasks: running[s] # None => running[s] \in Nat
  <2>1. Keys \cup {0} \subseteq Nat
    BY PollingAssumption
  <2>2. /\ tip \in Keys \cup {0} /\ lastRead \in Nat
        /\ \A s \in Tasks: items[s] \cup todo[s] \subseteq Keys
        /\ \A s \in Tasks: running[s] \in Keys \cup {None}
    BY DEF PollingTypeOK, DispatchTypeOK
  <2>3. QED
    BY <2>1, <2>2
<1>2. AtTip'
  BY <1>1 DEF SettledInv, AtTip
<1>3. QED
  BY <1>2 DEF SettledInv, BatchSettled, Done, ConfirmingOk, PassedWereDone

LEMMA SettledInvInit == PollingInit => SettledInv
BY PollingAssumption
DEF PollingInit, SettledInv, BatchSettled, Done, ConfirmingOk, AtTip,
    PassedWereDone, InRound, DispatchInit

LEMMA SettledInvariant ==
    ASSUME ~Dedup
    PROVE  PollingSpec => []SettledInv
<1>1. SettledInv /\ PollingTypeOK /\ [PollingNext]_pollingVars => SettledInv'
  BY SettledInvNext
<1>2. QED
  BY <1>1, SettledInvInit, PollingTyping, PTL DEF PollingSpec

\* Without the dedup middleware, and if next_seq is the last event of the batch,
\* nothing is confirmed that was not dispatched without an error.
THEOREM PollingConfirmedWereProcessed ==
    ASSUME ~PastEnd, ~Dedup
    PROVE  PollingSpec => []ConfirmedWereProcessed
<1>1. SettledInv => ConfirmedWereProcessed
  BY DEF SettledInv, PassedWereDone, Done, ConfirmedWereProcessed
<1>2. QED
  BY <1>1, SettledInvariant, PTL

-----------------------------------------------------------------------------
\* Who feeds: a step of a poller is one of its own in the dispatcher, or
\* leaves the dispatcher alone.
LEMMA PollerFeeds ==
    ASSUME NEW s \in Tasks, Progress(s) \/ ConfirmLost(s) \/ Abort(s)
    PROVE  \/ \E n \in Keys: FeedDuplicate(s, n) \/ FeedStart(s, n)
           \/ \E outcome \in Outcomes: FeedReturn(s, outcome)
           \/ FeedAbort(s)
           \/ UNCHANGED dispatchVars
<1>1. CASE Progress(s)
  <2>1. ASSUME NEW n \in Keys, DispatchItem(s, n)
        PROVE FeedDuplicate(s, n) \/ FeedStart(s, n)
    BY <2>1 DEF DispatchItem
  <2>2. ASSUME NEW outcome \in Outcomes, HandlerReturns(s, outcome)
        PROVE FeedReturn(s, outcome)
    BY <2>2 DEF HandlerReturns
  <2>3. QED
    BY <1>1, <2>1, <2>2 DEF Progress, Fetch, EndBatch, Confirm, Wake, Rerun
<1>2. CASE ConfirmLost(s) \/ Abort(s)
  BY <1>2 DEF ConfirmLost, Abort
<1>3. QED
  BY <1>1, <1>2

\* Every step of the pollers is a step of the dispatcher, or leaves it alone.
LEMMA PollingUsesDispatcher == PollingSpec => DispatchSpec
<1>1. PollingInit => DispatchInit
  BY DEF PollingInit
<1>2. [PollingNext]_pollingVars => [DispatchNext]_dispatchVars
  <2> SUFFICES ASSUME [PollingNext]_pollingVars
               PROVE DispatchNext \/ UNCHANGED dispatchVars
    OBVIOUS
  <2>1. CASE Publish
    BY <2>1 DEF Publish
  <2>2. ASSUME NEW s \in Tasks, Progress(s) \/ ConfirmLost(s) \/ Abort(s)
        PROVE DispatchNext \/ UNCHANGED dispatchVars
    BY <2>2, PollerFeeds DEF DispatchNext
  <2>3. CASE ProcessRestart
    BY <2>3 DEF ProcessRestart, DispatchNext
  <2>4. ASSUME NEW n \in Keys, ForgetMark(n)
        PROVE DispatchNext
    BY <2>4 DEF ForgetMark, DispatchNext
  <2>5. CASE UNCHANGED pollingVars
    BY <2>5 DEF pollingVars
  <2>6. QED
    BY <2>1, <2>2, <2>3, <2>4, <2>5 DEF PollingNext
<1>3. QED
  BY <1>1, <1>2, PTL DEF PollingSpec, DispatchSpec

\* Pollers of one subscription never run one event in two handlers at once,
\* nor again after it was dispatched without an error.
THEOREM PollingSingleFlight == PollingSpec => []SingleFlight
BY PollingUsesDispatcher, DispatchSingleFlight, PTL

THEOREM PollingNeverReprocesses == PollingSpec => []NeverReprocessed
BY PollingUsesDispatcher, DispatchNeverReprocesses, PTL

-----------------------------------------------------------------------------
\* Confirming is a Commit step of the promise, or confirms nothing new.
LEMMA ConfirmCommits ==
    ASSUME SettledInv, PollingTypeOK, NEW s \in Tasks,
           phase[s] = "confirming",
           \E n \in items[s]: Last(items[s], n) /\ MarkRead(NextSeq(n)),
           UNCHANGED <<tip, settled>>
    PROVE  [Promise!DeliveryNext]_(Promise!deliveryVars)
<1> PICK m \in items[s]: MarkRead(NextSeq(m))
  OBVIOUS
<1>1. CASE lastRead' = lastRead
  BY <1>1 DEF Promise!deliveryVars
<1>2. CASE lastRead' # lastRead
  <2> DEFINE p == NextSeq(m)
  <2>1. p > lastRead /\ lastRead' = p
    BY <1>2 DEF MarkRead
  <2>2. /\ p \in 1..tip + 1
        /\ p <= tip \/ (PastEnd /\ p = tip + 1)
        /\ \A n \in Keys: n <= p => Done(n)
    <3>1. tip \in Nat
      BY PollingAssumption DEF PollingTypeOK
    <3>2. QED
      BY <3>1, ConfirmableSettled, PollingAssumption DEF NextSeq
  <2> HIDE DEF p
  <2>3. Promise!Commit("polling", p)
    BY <2>1, <2>2 DEF Promise!Commit, Promise!Passable, Done
  <2>4. QED
    BY <2>2, <2>3 DEF Promise!DeliveryNext
<1>3. QED
  BY <1>1, <1>2

\* Every step of the pollers is one of the promise, or nothing it speaks of.
LEMMA PollingDelivers ==
    ASSUME ~Dedup, SettledInv, PollingTypeOK, [PollingNext]_pollingVars
    PROVE  [Promise!DeliveryNext]_(Promise!deliveryVars)
<1> USE DispatchAssumption, PollingAssumption
<1> USE DEF batchVars, dispatchVars, Promise!deliveryVars
<1>1. CASE Publish
  <2>1. Promise!PublishEvent
    BY <1>1 DEF Publish, First, Promise!PublishEvent
  <2>2. QED
    BY <2>1 DEF Promise!DeliveryNext
<1>2. ASSUME NEW s \in Tasks, Progress(s)
      PROVE [Promise!DeliveryNext]_(Promise!deliveryVars)
  <2>1. CASE Confirm(s)
    BY <2>1, ConfirmCommits DEF Confirm
  <2>2. ASSUME NEW outcome \in Outcomes, HandlerReturns(s, outcome)
        PROVE [Promise!DeliveryNext]_(Promise!deliveryVars)
    <3>1. /\ running[s] \in Keys
          /\ running[s] <= tip
          /\ UNCHANGED <<tip, lastRead>>
          /\ settled' = settled \/ settled' = settled \cup {running[s]}
      BY <2>2 DEF HandlerReturns, FeedReturn, PollingTypeOK, DispatchTypeOK,
         SettledInv, AtTip
    <3>2. CASE settled' = settled
      BY <3>1, <3>2
    <3>3. CASE settled' = settled \cup {running[s]}
      BY <3>1, <3>3 DEF Promise!Process, Promise!DeliveryNext
    <3>4. QED
      BY <3>1, <3>2, <3>3
  <2>3. ASSUME NEW n \in Keys, DispatchItem(s, n)
        PROVE UNCHANGED Promise!deliveryVars
    BY <2>3 DEF DispatchItem, FeedDuplicate, FeedStart
  <2>4. QED
    BY <1>2, <2>1, <2>2, <2>3 DEF Progress, Fetch, EndBatch, Wake, Rerun
<1>3. ASSUME NEW s \in Tasks, ConfirmLost(s)
      PROVE [Promise!DeliveryNext]_(Promise!deliveryVars)
  BY <1>3, ConfirmCommits DEF ConfirmLost
<1>4. ASSUME NEW s \in Tasks, Abort(s)
      PROVE UNCHANGED Promise!deliveryVars
  BY <1>4 DEF Abort, FeedAbort
<1>5. CASE ProcessRestart
  BY <1>5 DEF ProcessRestart, DispatchRestart
<1>6. ASSUME NEW n \in Keys, ForgetMark(n)
      PROVE UNCHANGED Promise!deliveryVars
  BY <1>6 DEF ForgetMark, MarkExpires
<1>7. CASE UNCHANGED pollingVars
  BY <1>7 DEF pollingVars
<1>8. QED
  BY <1>1, <1>2, <1>3, <1>4, <1>5, <1>6, <1>7 DEF PollingNext

\* Without dedup the pollers implement at-least-once delivery, wherever next_seq
\* is.  If it is the batch's last event, none is excused: an event with a failing
\* handler is never confirmed.  If it is one past that, an event is confirmed
\* unprocessed only right after one that was processed.
THEOREM PollingKeepsPromise ==
    ASSUME ~Dedup
    PROVE  PollingSpec => PromiseSpec
<1>1. PollingInit => Promise!DeliveryInit
  BY DEF PollingInit, DispatchInit, Promise!DeliveryInit
<1>2. SettledInv /\ PollingTypeOK /\ [PollingNext]_pollingVars
          => [Promise!DeliveryNext]_(Promise!deliveryVars)
  BY PollingDelivers
<1>3. QED
  BY <1>1, <1>2, SettledInvariant, PollingTyping, PTL
  DEF PollingSpec, PromiseSpec, Promise!DeliverySpec
==============================================================================
