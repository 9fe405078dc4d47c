--------------------------- MODULE MemoryStorage ---------------------------
(***************************************************************************)
(* MemoryStorage (storage/memory.py): a dictionary whose expired entries   *)
(* stay until somebody asks for them, writes over them, or until the sweep *)
(* that comes with every SweepInterval-th write.                           *)
(*                                                                         *)
(* No operation suspends, so each is one step.  A write may read the clock *)
(* up to three times; here it reads it once.  An entry expired at the first*)
(* reading is expired at the later ones, and what a later one finds expired*)
(* besides is gone for every caller by then, swept or not.                 *)
(***************************************************************************)
EXTENDS Naturals

CONSTANTS
    StoreKeys, Values, Lifetimes, Forever, Nothing, MaxTime,   \* see TtlMap
    SweepInterval   \* _SWEEP_INTERVAL, 500 in the code

ASSUME MemoryStorageAssumption ==
    /\ SweepInterval \in Nat \ {0}
    /\ MaxTime \in Nat
    /\ Forever \notin Nat
    /\ Lifetimes \subseteq Nat \cup {Forever}
    /\ Nothing \notin [value: Values, until: Nat \cup {Forever}]

VARIABLES
    data,         \* _data; Nothing where the dictionary has no entry
    writes,       \* _writes, modulo SweepInterval
    now,          \* time.monotonic()
    answer,       \* what the last call returned
    swept         \* history: the time of the last sweep

storageVars == <<data, writes, now, answer, swept>>

Live(k) ==
    /\ data[k] # Nothing
    /\ data[k].until # Forever => data[k].until >= now

\* The dictionary as its callers see it.
Map == INSTANCE TtlMap WITH
          entry <- [k \in StoreKeys |-> IF Live(k) THEN data[k] ELSE Nothing]

StorageInit ==
    /\ data = [k \in StoreKeys |-> Nothing]
    /\ writes = 0
    /\ now = 0
    /\ answer = "none"
    /\ swept = 0

-----------------------------------------------------------------------------
\* Mutant of Get: an entry is dead already in its last instant.
GetEarly(k) ==
    LET live == Live(k) /\ data[k].until # now IN
    /\ answer' = IF live THEN data[k].value ELSE Nothing
    /\ data' = IF live THEN data ELSE [data EXCEPT ![k] = Nothing]
    /\ UNCHANGED <<writes, now, swept>>

\* An expired entry is deleted when it is asked for.
Get(k) ==
    /\ answer' = IF Live(k) THEN data[k].value ELSE Nothing
    /\ data' = IF Live(k) THEN data ELSE [data EXCEPT ![k] = Nothing]
    /\ UNCHANGED <<writes, now, swept>>

\* Mutant of MaybeSweep: the counter is not started again.
MaybeSweepUncounted(k, written) ==
    /\ writes' = writes + 1
    /\ data' = written
    /\ UNCHANGED swept

\* Mutant of MaybeSweep: the sweep looks at the entry just written only.
MaybeSweepOne(k, written) ==
    /\ writes' = (writes + 1) % SweepInterval
    /\ IF writes' = 0
       THEN /\ data' = IF written[k] # Nothing /\ Map!Expired(written[k], now)
                       THEN [written EXCEPT ![k] = Nothing] ELSE written
            /\ swept' = now
       ELSE data' = written /\ UNCHANGED swept

\* _maybe_sweep, after key k was written.
MaybeSweep(k, written) ==
    /\ writes' = (writes + 1) % SweepInterval
    /\ IF writes' = 0
       THEN /\ data' = [x \in StoreKeys |->
                          IF written[x] # Nothing /\ Map!Expired(written[x], now)
                          THEN Nothing ELSE written[x]]
            /\ swept' = now
       ELSE data' = written /\ UNCHANGED swept

Write(k, v, ttl) ==
    MaybeSweep(k, [data EXCEPT ![k] = [value |-> v, until |-> Map!Until(ttl)]])

Set(k, v, ttl) ==
    /\ Write(k, v, ttl)
    /\ answer' = "done"
    /\ UNCHANGED now

SetIfNotExists(k, v, ttl) ==
    /\ IF Live(k)
       THEN answer' = "present" /\ UNCHANGED <<data, writes, swept>>
       ELSE answer' = "written" /\ Write(k, v, ttl)
    /\ UNCHANGED now

Delete(k) ==
    /\ data' = [data EXCEPT ![k] = Nothing]
    /\ answer' = "done"
    /\ UNCHANGED <<writes, now, swept>>

\* Time passes; nobody looks at the dictionary.
Tick ==
    /\ now < MaxTime
    /\ now' = now + 1
    /\ UNCHANGED <<data, writes, answer, swept>>

StorageNext ==
    \/ \E k \in StoreKeys: Get(k) \/ Delete(k)
    \/ \E k \in StoreKeys, v \in Values, ttl \in Lifetimes:
          Set(k, v, ttl) \/ SetIfNotExists(k, v, ttl)
    \/ Tick

StorageSpec == StorageInit /\ [][StorageNext]_storageVars

-----------------------------------------------------------------------------
\* Every variable has the values the code can give it: the write counter stays
\* below the interval, since the sweep starts it again.
StorageTypeOK ==
    /\ data \in [StoreKeys -> Map!Entries \cup {Nothing}]
    /\ writes \in 0..SweepInterval - 1
    /\ now \in 0..MaxTime
    /\ swept \in 0..now
    /\ answer \in Values \cup {Nothing, "none", "done", "written", "present"}

\* get, set_if_not_exists and the sweep, which compare the clock each in its own
\* way (storage/memory.py:34, 50 and 67), agree at every instant on what is there: the
\* storage is a map whose entries vanish by themselves.
IsTtlMap == Map!TtlMapSpec

\* "So entries written once and never re-queried don't grow the dict unbounded"
\* (storage/memory.py:18-22): what had expired by the last sweep is not there any more.
SweptClean ==
    \A k \in StoreKeys:
        data[k] # Nothing => data[k].until = Forever \/ data[k].until >= swept
=============================================================================
