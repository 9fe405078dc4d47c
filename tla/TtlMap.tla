------------------------------- MODULE TtlMap -------------------------------
(***************************************************************************)
(* What a storage backend promises (storage/base.py): a map from keys to   *)
(* values in which an entry with a lifetime is gone the moment its time is *)
(* over, whether or not anybody looks, and set_if_not_exists writes exactly*)
(* when the key is not there.                                              *)
(***************************************************************************)
EXTENDS Naturals

CONSTANTS
    StoreKeys,
    Values,
    Lifetimes,    \* the ttl values in use: numbers, and Forever
    Forever,      \* no ttl
    Nothing,      \* no entry, no value
    MaxTime       \* bound: the clock stops here

VARIABLES
    entry,        \* [StoreKeys -> Entries \cup {Nothing}]
    now,          \* the clock
    answer        \* what the last call returned

ttlMapVars == <<entry, now, answer>>

Entries == [value: Values, until: Nat \cup {Forever}]

Until(ttl) == IF ttl = Forever THEN Forever ELSE now + ttl

\* The time of an entry is over after its last instant, not in it.
Expired(e, time) == e.until # Forever /\ e.until < time

TtlMapInit ==
    /\ entry = [k \in StoreKeys |-> Nothing]
    /\ now = 0
    /\ answer = "none"

Lookup(k) ==
    /\ answer' = IF entry[k] = Nothing THEN Nothing ELSE entry[k].value
    /\ UNCHANGED <<entry, now>>

Put(k, v, ttl) ==
    /\ entry' = [entry EXCEPT ![k] = [value |-> v, until |-> Until(ttl)]]
    /\ answer' = "done"
    /\ UNCHANGED now

PutIfAbsent(k, v, ttl) ==
    /\ entry[k] = Nothing
    /\ entry' = [entry EXCEPT ![k] = [value |-> v, until |-> Until(ttl)]]
    /\ answer' = "written"
    /\ UNCHANGED now

Refuse(k) ==
    /\ entry[k] # Nothing
    /\ answer' = "present"
    /\ UNCHANGED <<entry, now>>

Remove(k) ==
    /\ entry' = [entry EXCEPT ![k] = Nothing]
    /\ answer' = "done"
    /\ UNCHANGED now

\* The clock goes on, and what has expired is gone.
Pass ==
    /\ now < MaxTime
    /\ now' = now + 1
    /\ entry' = [k \in StoreKeys |->
                    IF entry[k] # Nothing /\ Expired(entry[k], now + 1)
                    THEN Nothing ELSE entry[k]]
    /\ UNCHANGED answer

TtlMapNext ==
    \/ \E k \in StoreKeys: Lookup(k) \/ Refuse(k) \/ Remove(k)
    \/ \E k \in StoreKeys, v \in Values, ttl \in Lifetimes:
          Put(k, v, ttl) \/ PutIfAbsent(k, v, ttl)
    \/ Pass

TtlMapSpec == TtlMapInit /\ [][TtlMapNext]_ttlMapVars
=============================================================================
