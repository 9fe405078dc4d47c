--------------------------- MODULE DispatchProofs ---------------------------
(***************************************************************************)
(* What holds of the dispatcher for every set of tasks and keys: it is     *)
(* well typed, and an event whose mark is kept is neither run by two tasks *)
(* at once nor run again after it was dispatched without an error.         *)
(***************************************************************************)
EXTENDS Dispatch, TLAPS

\* DispatchTypeOK is inductive: every feed, return, expiry and restart keeps
\* the store, the handlers in flight and the history well typed.
THEOREM DispatchTyping == DispatchSpec => []DispatchTypeOK
<1> USE DispatchAssumption
<1>1. DispatchInit => DispatchTypeOK
  BY DEF DispatchInit, DispatchTypeOK
<1>2. DispatchTypeOK /\ [DispatchNext]_dispatchVars => DispatchTypeOK'
  <2> SUFFICES ASSUME DispatchTypeOK, [DispatchNext]_dispatchVars
               PROVE DispatchTypeOK'
    OBVIOUS
  <2> USE DEF DispatchTypeOK
  <2>1. ASSUME NEW t \in Tasks, NEW k \in Keys, FeedDuplicate(t, k)
        PROVE DispatchTypeOK'
    BY <2>1 DEF FeedDuplicate, dispatchVars
  <2>2. ASSUME NEW t \in Tasks, NEW k \in Keys, FeedStart(t, k)
        PROVE DispatchTypeOK'
    BY <2>2 DEF FeedStart
  <2>3. ASSUME NEW t \in Tasks, NEW outcome \in Outcomes, FeedReturn(t, outcome)
        PROVE DispatchTypeOK'
    BY <2>3 DEF FeedReturn
  <2>4. ASSUME NEW t \in Tasks, FeedAbort(t)
        PROVE DispatchTypeOK'
    BY <2>4 DEF FeedAbort
  <2>5. ASSUME NEW k \in Keys, MarkExpires(k)
        PROVE DispatchTypeOK'
    BY <2>5 DEF MarkExpires
  <2>6. CASE DispatchRestart
    BY <2>6 DEF DispatchRestart
  <2>7. CASE UNCHANGED dispatchVars
    BY <2>7 DEF dispatchVars
  <2>8. QED
    BY <2>1, <2>2, <2>3, <2>4, <2>5, <2>6, <2>7 DEF DispatchNext
<1>3. QED
  BY <1>1, <1>2, PTL DEF DispatchSpec

-----------------------------------------------------------------------------
(***************************************************************************)
(* Neither property is inductive alone: a second handler starts only for   *)
(* an unmarked key, so the invariant says that every event in flight and   *)
(* every settled event is marked, unless its mark may have expired.        *)
(***************************************************************************)
Marked ==
    /\ \A t \in Tasks: running[t] \in seen \cup Expiring \cup {None}
    /\ Durable => settled \ Expiring \subseteq seen

DispatchInv ==
    /\ DispatchTypeOK
    /\ Dedup => Marked
    /\ SingleFlight
    /\ NeverReprocessed

LEMMA DispatchInvInit == DispatchInit => DispatchInv
BY DispatchAssumption
DEF DispatchInit, DispatchInv, DispatchTypeOK, Marked, SingleFlight, NeverReprocessed

LEMMA DispatchInvNext ==
    DispatchInv /\ [DispatchNext]_dispatchVars => DispatchInv'
<1> USE DispatchAssumption
<1> SUFFICES ASSUME DispatchInv, [DispatchNext]_dispatchVars
             PROVE DispatchInv'
  OBVIOUS
<1> USE DEF DispatchInv, DispatchTypeOK, Marked, SingleFlight, NeverReprocessed
<1>1. ASSUME NEW t \in Tasks, NEW k \in Keys, FeedDuplicate(t, k)
      PROVE DispatchInv'
  BY <1>1 DEF FeedDuplicate, dispatchVars
<1>2. ASSUME NEW t \in Tasks, NEW k \in Keys, FeedStart(t, k)
      PROVE DispatchInv'
  BY <1>2 DEF FeedStart
<1>3. ASSUME NEW t \in Tasks, NEW outcome \in Outcomes, FeedReturn(t, outcome)
      PROVE DispatchInv'
  BY <1>3 DEF FeedReturn
<1>4. ASSUME NEW t \in Tasks, FeedAbort(t)
      PROVE DispatchInv'
  BY <1>4 DEF FeedAbort
<1>5. ASSUME NEW k \in Keys, MarkExpires(k)
      PROVE DispatchInv'
  BY <1>5 DEF MarkExpires
<1>6. CASE DispatchRestart
  BY <1>6 DEF DispatchRestart
<1>7. CASE UNCHANGED dispatchVars
  BY <1>7 DEF dispatchVars
<1>8. QED
  BY <1>1, <1>2, <1>3, <1>4, <1>5, <1>6, <1>7 DEF DispatchNext

LEMMA DispatchInvariant == DispatchSpec => []DispatchInv
BY DispatchInvInit, DispatchInvNext, PTL DEF DispatchSpec

\* Two concurrent redeliveries of one event never both reach a handler.
THEOREM DispatchSingleFlight == DispatchSpec => []SingleFlight
<1>1. DispatchInv => SingleFlight
  BY DEF DispatchInv
<1>2. QED
  BY <1>1, DispatchInvariant, PTL

\* What was dispatched without an error is never handed to a handler again.
THEOREM DispatchNeverReprocesses == DispatchSpec => []NeverReprocessed
<1>1. DispatchInv => NeverReprocessed
  BY DEF DispatchInv
<1>2. QED
  BY <1>1, DispatchInvariant, PTL
=============================================================================
