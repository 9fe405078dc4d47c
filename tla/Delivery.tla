------------------------------ MODULE Delivery ------------------------------
(***************************************************************************)
(* What a source promises, whatever its transport: at-least-once delivery  *)
(* of an ordered stream of events (docs/architecture.en.md, sections 4 and *)
(* 5).  A position is committed only when every published event up to it   *)
(* has been processed, or is excused; a committed position never moves     *)
(* back, unless the store that holds it is lost with the process.  A       *)
(* position that overshoots, by one, also passes the event right after a   *)
(* processed one.                                                          *)
(***************************************************************************)
EXTENDS Integers

CONSTANTS
    Events,       \* the sequence numbers of the events
    Consumers,    \* whoever has a committed position of its own
    Excused,      \* the events that may be passed without being processed
    Overshoot,    \* TRUE: a position may be one past what was processed
    Volatile      \* TRUE: committed positions can be lost

VARIABLES
    published,    \* the sequence number of the newest event
    processed,    \* the events some dispatch ended for without an error
    committed     \* per consumer, the position it will resume from

deliveryVars == <<published, processed, committed>>

DeliveryInit ==
    /\ published = 0
    /\ processed = {}
    /\ committed = [c \in Consumers |-> 0]

PublishEvent ==
    /\ published' \in {e \in Events: e > published}
    /\ UNCHANGED <<processed, committed>>

Process ==
    /\ \E e \in Events: e <= published /\ processed' = processed \cup {e}
    /\ UNCHANGED <<published, committed>>

Passable(e) == e \in processed \cup Excused \/ (Overshoot /\ e - 1 \in processed)

Commit(c, p) ==
    /\ p > committed[c]
    /\ p <= published \/ (Overshoot /\ p = published + 1)
    /\ \A e \in Events: e <= p => Passable(e)
    /\ committed' = [committed EXCEPT ![c] = p]
    /\ UNCHANGED <<published, processed>>

Forget ==
    /\ Volatile
    /\ committed' = [c \in Consumers |-> 0]
    /\ UNCHANGED <<published, processed>>

DeliveryNext ==
    \/ PublishEvent
    \/ Process
    \/ \E c \in Consumers, p \in 1..published + 1: Commit(c, p)
    \/ Forget

DeliverySpec == DeliveryInit /\ [][DeliveryNext]_deliveryVars
=============================================================================
