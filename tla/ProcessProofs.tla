---------------------------- MODULE ProcessProofs ---------------------------
(***************************************************************************)
(* What holds of two parts of a consumer's process that stand by           *)
(* themselves: the supervisor that keeps its sources running, and the      *)
(* in-memory storage that keeps its marks and cursors.  Neither refers to  *)
(* the other, and each section is about one of them alone.                 *)
(***************************************************************************)
EXTENDS Supervisor, MemoryStorage, TLAPS

-----------------------------------------------------------------------------
(***************************************************************************)
(* The supervisor, for every set of sources of every kind.                 *)
(***************************************************************************)
LEMMA SupervisorTypeInit == SupervisorInit => SupervisorTypeOK
<1> SUFFICES ASSUME SupervisorInit PROVE SupervisorTypeOK
  OBVIOUS
<1> USE DEF SupervisorInit
<1>1. sources = <<>> /\ Len(sources) = 0
  OBVIOUS
<1>2. IsInjective(sources)
  BY <1>1 DEF IsInjective
<1>3. sources \in Seq(Sources)
  BY <1>1
<1>4. task \in [Sources -> Tasks]
  BY DEF Tasks
<1>5. closing \in 0..Len(sources) + 1
  BY <1>1
<1>6. QED
  BY <1>2, <1>3, <1>4, <1>5, Zenon DEF SupervisorTypeOK, Runners

\* What a turn of a task's loop may do to the task.
LEMMA LoopTurns ==
    ASSUME NEW s \in Sources, Loop(s)
    PROVE  \/ stopping /\ task' = [task EXCEPT ![s] = "done"]
           \/ ~stopping /\ ReturnsAtOnce(s) /\ task' = [task EXCEPT ![s] = "spinning"]
           \/ ~stopping /\ ~ReturnsAtOnce(s) /\ task' = [task EXCEPT ![s] = "running"]
BY DEF Loop

LEMMA SupervisorTypeNext ==
    SupervisorTypeOK /\ [SupervisorNext]_supervisorVars => SupervisorTypeOK'
<1> USE SupervisorAssumption DEF SupervisorTypeOK, Runners, Tasks, IsInjective
<1> SUFFICES ASSUME SupervisorTypeOK, [SupervisorNext]_supervisorVars
             PROVE SupervisorTypeOK'
  OBVIOUS
\* Appending a source that is not yet there repeats none.
<1>1. ASSUME NEW s \in Sources, AddSource(s)
      PROVE SupervisorTypeOK'
  <2>1. /\ sources' \in Seq(Sources)
        /\ Len(sources') = Len(sources) + 1
        /\ sources'[Len(sources) + 1] = s
        /\ \A i \in 1..Len(sources): sources'[i] = sources[i] /\ sources[i] # s
    BY <1>1 DEF AddSource, ToSet
  <2>2. IsInjective(sources)'
    BY <2>1 DEF IsInjective
  <2>3. QED
    BY <1>1, <2>1, <2>2 DEF AddSource
<1>2. CASE CallRun
  BY <1>2 DEF CallRun
<1>3. CASE BeginRun
  BY <1>3 DEF BeginRun
<1>4. CASE EndRun
  BY <1>4 DEF EndRun
<1>5. CASE CancelRun
  BY <1>5 DEF CancelRun
<1>6. CASE CallStop
  BY <1>6 DEF CallStop
<1>7. CASE CloseNext \/ CloseRaises
  <2>1. closing \in 1..Len(sources) /\ sources[closing] \in Sources
    BY <1>7 DEF CloseNext, CloseRaises
  <2>2. sources' = sources /\ task' = task /\ runner' = runner
    BY <1>7 DEF CloseNext, CloseRaises
  <2>3. closing' \in 0..Len(sources') + 1 /\ closed' \subseteq Sources
    BY <1>7, <2>1, <2>2 DEF CloseNext, CloseRaises
  <2>4. QED
    BY <1>7, <2>2, <2>3 DEF CloseNext, CloseRaises
<1>8. CASE StopReturns
  BY <1>8 DEF StopReturns
<1>9. ASSUME NEW s \in Sources, Start(s) \/ Wake(s) \/ Return(s)
      PROVE SupervisorTypeOK'
  BY <1>9 DEF Start, Wake, Return, Loop
<1>10. ASSUME NEW s \in Sources, Crash(s)
       PROVE SupervisorTypeOK'
  BY <1>10 DEF Crash
<1>11. ASSUME NEW s \in Sources, Dropped(s)
       PROVE SupervisorTypeOK'
  BY <1>11 DEF Dropped, End
<1>12. ASSUME NEW s \in Sources, CloseSource(s)
       PROVE SupervisorTypeOK'
  BY <1>12 DEF CloseSource
<1>13. CASE UNCHANGED supervisorVars
  BY <1>13 DEF supervisorVars, IsInjective
<1>14. QED
  BY <1>1, <1>2, <1>3, <1>4, <1>5, <1>6, <1>7, <1>8, <1>9, <1>10, <1>11, <1>12,
     <1>13 DEF SupervisorNext, Spin

\* The supervisor is well typed, and no task outlives its call of run().
THEOREM SupervisorTyping == SupervisorSpec => []SupervisorTypeOK
BY SupervisorTypeInit, SupervisorTypeNext, PTL DEF SupervisorSpec

-----------------------------------------------------------------------------
\* Whatever crashes and whatever the consumer calls, also a stop() that run()
\* undoes, a task ends only when the supervisor is stopping or by a stray
\* CancelledError.
\* When stop() is undone, the tasks of the earlier run() are gone: this is
\* where the type invariant is needed.
THEOREM SupervisorAllSupervised == SupervisorSpec => []AllSupervised
<1>1. SupervisorInit => AllSupervised
  BY DEF SupervisorInit, AllSupervised
<1>2. SupervisorTypeOK /\ AllSupervised /\ [SupervisorNext]_supervisorVars => AllSupervised'
  <2> USE DEF AllSupervised, SupervisorTypeOK
  <2> SUFFICES ASSUME SupervisorTypeOK, AllSupervised, [SupervisorNext]_supervisorVars
               PROVE AllSupervised'
    OBVIOUS
  <2>1. CASE BeginRun
    BY <2>1 DEF BeginRun
  <2>2. ASSUME NEW s \in Sources, Start(s) \/ Wake(s) \/ Return(s)
        PROVE AllSupervised'
    BY <2>2 DEF Start, Wake, Return, Loop
  <2>3. ASSUME NEW s \in Sources, Crash(s) \/ Dropped(s)
        PROVE AllSupervised'
    BY <2>3 DEF Crash, Dropped, End
  <2>4. ASSUME NEW s \in Sources, AddSource(s)
        PROVE AllSupervised'
    BY <2>4 DEF AddSource
  <2>5. CASE CallRun \/ EndRun \/ CancelRun
    BY <2>5 DEF CallRun, EndRun, CancelRun
  <2>6. CASE CallStop \/ CloseNext \/ CloseRaises \/ StopReturns
    BY <2>6 DEF CallStop, CloseNext, CloseRaises, StopReturns
  <2>7. ASSUME NEW s \in Sources, CloseSource(s)
        PROVE AllSupervised'
    BY <2>7 DEF CloseSource
  <2>8. CASE UNCHANGED supervisorVars
    BY <2>8 DEF supervisorVars
  <2>9. QED
    BY <2>1, <2>2, <2>3, <2>4, <2>5, <2>6, <2>7, <2>8 DEF SupervisorNext, Spin
<1>3. QED
  BY <1>1, <1>2, SupervisorTyping, PTL DEF SupervisorSpec

-----------------------------------------------------------------------------
(***************************************************************************)
(* A source spins only if it is closed while the supervisor is not         *)
(* stopping.  stop() sets the flag before it closes anything, and only     *)
(* run() clears it; so while the consumer has neither closed a source      *)
(* itself nor begun to run() after a stop(), the flag is set whenever a    *)
(* source is closed or about to be.                                        *)
(***************************************************************************)
ClosedOnlyByStop == undone \/ (closed # {} \/ closing > 0 => stopping)

\* stop() by itself never makes a source spin, for every number of sources of
\* every kind, whatever their tasks are about when it closes them
\* (sources/base.py:72-91).
THEOREM SupervisorStopNeverSpins == SupervisorSpec => []StopNeverSpins
<1> DEFINE Inv == ClosedOnlyByStop /\ StopNeverSpins
<1>1. SupervisorInit => Inv
  BY DEF SupervisorInit, ClosedOnlyByStop, StopNeverSpins, Frozen
<1>2. SupervisorTypeOK /\ Inv /\ [SupervisorNext]_supervisorVars => Inv'
  <2> USE DEF SupervisorTypeOK, ClosedOnlyByStop, StopNeverSpins, Frozen
  <2> SUFFICES ASSUME SupervisorTypeOK, Inv, [SupervisorNext]_supervisorVars
               PROVE Inv'
    OBVIOUS
  <2>1. ASSUME NEW s \in Sources, AddSource(s) \/ CloseSource(s)
        PROVE Inv'
    BY <2>1 DEF AddSource, CloseSource
  <2>2. CASE CallRun \/ EndRun \/ CancelRun
    BY <2>2 DEF CallRun, EndRun, CancelRun
  \* If a source is closed when run() begins, stop() was called before it, or
  \* the consumer closed it.
  <2>3. CASE BeginRun
    <3>1. undone' \/ (closed = {} /\ closing = 0)
      BY <2>3 DEF BeginRun
    <3>2. QED
      BY <2>3, <3>1 DEF BeginRun
  <2>4. CASE CallStop
    BY <2>4 DEF CallStop
  <2>5. CASE CloseNext \/ CloseRaises \/ StopReturns
    BY <2>5 DEF CloseNext, CloseRaises, StopReturns
  <2>6. ASSUME NEW s \in Sources, Start(s) \/ Wake(s) \/ Return(s)
        PROVE Inv'
    <3>1. undone \/ stopping \/ ~ReturnsAtOnce(s)
      BY DEF ReturnsAtOnce
    <3>2. Loop(s) /\ UNCHANGED <<stopping, closed, closing, undone>>
      BY <2>6 DEF Start, Wake, Return, Loop
    <3>3. undone \/ task' \in {[task EXCEPT ![s] = "done"], [task EXCEPT ![s] = "running"]}
      BY <3>1, <3>2, LoopTurns
    <3>4. QED
      BY <3>2, <3>3
  <2>7. ASSUME NEW s \in Sources, Crash(s) \/ Dropped(s)
        PROVE Inv'
    BY <2>7 DEF Crash, Dropped, End
  <2>8. CASE UNCHANGED supervisorVars
    BY <2>8 DEF supervisorVars
  <2>9. QED
    BY <2>1, <2>2, <2>3, <2>4, <2>5, <2>6, <2>7, <2>8 DEF SupervisorNext, Spin
<1>3. QED
  BY <1>1, <1>2, SupervisorTyping, PTL DEF SupervisorSpec

-----------------------------------------------------------------------------
\* While the flag is set no source is run anew, even if run() can be called
\* again: run() has to clear the flag first.
THEOREM SupervisorNoneRunAnew == SupervisorSpec => NoneRunAnew
<1> DEFINE Step ==
        stopping /\ stopping' =>
            \A s \in Sources: task'[s] = "running" => task[s] = "running"
<1>1. SupervisorTypeOK /\ [SupervisorNext]_supervisorVars => [Step]_supervisorVars
  <2> SUFFICES ASSUME SupervisorTypeOK, SupervisorNext, stopping, stopping',
                      NEW s \in Sources, task'[s] = "running"
               PROVE task[s] = "running"
    OBVIOUS
  <2> USE DEF SupervisorTypeOK
  <2>1. CASE BeginRun
    BY <2>1 DEF BeginRun
  <2>2. ASSUME NEW u \in Sources, Start(u) \/ Wake(u) \/ Return(u)
        PROVE task[s] = "running"
    <3>1. task' = [task EXCEPT ![u] = "done"]
      BY <2>2, LoopTurns DEF Start, Wake, Return
    <3>2. QED
      BY <3>1
  <2>3. ASSUME NEW u \in Sources, Crash(u) \/ Dropped(u)
        PROVE task[s] = "running"
    BY <2>3 DEF Crash, Dropped, End
  <2>4. CASE EndRun \/ CancelRun
    BY <2>4 DEF EndRun, CancelRun
  <2>5. CASE UNCHANGED task
    BY <2>5
  <2>6. QED
    BY <2>1, <2>2, <2>3, <2>4, <2>5
    DEF SupervisorNext, AddSource, CallRun, CallStop, CloseNext, CloseRaises, StopReturns,
        CloseSource, Spin, supervisorVars
<1>2. QED
  BY <1>1, SupervisorTyping, PTL DEF SupervisorSpec, NoneRunAnew

-----------------------------------------------------------------------------
(***************************************************************************)
(* The in-memory storage, for every set of keys and values, every lifetime, *)
(* every length of the clock and every sweep interval.                     *)
(***************************************************************************)
\* What a write leaves behind, before the sweep.
LEMMA WriteTyping ==
    ASSUME StorageTypeOK,
           NEW k \in StoreKeys, NEW v \in Values, NEW ttl \in Lifetimes
    PROVE  LET written == [data EXCEPT ![k] = [value |-> v, until |-> Map!Until(ttl)]]
           IN  /\ written \in [StoreKeys -> Map!Entries \cup {Nothing}]
               /\ \A x \in StoreKeys: x # k => written[x] = data[x]
               /\ written[k] = [value |-> v, until |-> Map!Until(ttl)]
               /\ written[k] \in Map!Entries
               /\ written[k].until # Forever => written[k].until >= now
<1>1. Map!Until(ttl) \in Nat \cup {Forever}
  BY MemoryStorageAssumption DEF StorageTypeOK, Map!Until
<1>2. Map!Until(ttl) # Forever => Map!Until(ttl) >= now
  BY MemoryStorageAssumption DEF StorageTypeOK, Map!Until
<1>3. [value |-> v, until |-> Map!Until(ttl)] \in Map!Entries
  BY <1>1 DEF Map!Entries
<1>. QED
  BY <1>2, <1>3 DEF StorageTypeOK

\* The sweep takes nothing but what has expired, and all of it.
LEMMA SweepEffect ==
    ASSUME StorageTypeOK, NEW k \in StoreKeys,
           NEW written \in [StoreKeys -> Map!Entries \cup {Nothing}],
           MaybeSweep(k, written)
    PROVE  /\ writes' \in 0..SweepInterval - 1
           /\ data' \in [StoreKeys -> Map!Entries \cup {Nothing}]
           /\ \A x \in StoreKeys:
                 \/ data'[x] = written[x]
                 \/ /\ data'[x] = Nothing
                    /\ written[x] # Nothing
                    /\ Map!Expired(written[x], now)
           /\ \/ swept' = swept
              \/ /\ swept' = now
                 /\ \A x \in StoreKeys:
                       data'[x] # Nothing => ~ Map!Expired(data'[x], now)
<1>1. writes' \in 0..SweepInterval - 1
  BY MemoryStorageAssumption DEF StorageTypeOK, MaybeSweep
<1>2. CASE writes' = 0
  BY <1>1, <1>2 DEF MaybeSweep
<1>3. CASE writes' # 0
  BY <1>1, <1>3 DEF MaybeSweep
<1>. QED
  BY <1>2, <1>3

-----------------------------------------------------------------------------
StorageInv == StorageTypeOK /\ SweptClean

LEMMA StorageInvInit == StorageInit => StorageInv
  BY MemoryStorageAssumption DEF StorageInit, StorageInv, StorageTypeOK, SweptClean

LEMMA WriteInv ==
    ASSUME StorageInv, NEW k \in StoreKeys, NEW v \in Values, NEW ttl \in Lifetimes,
           Write(k, v, ttl), UNCHANGED now, answer' \in {"done", "written"}
    PROVE  StorageInv'
<1> DEFINE written == [data EXCEPT ![k] = [value |-> v, until |-> Map!Until(ttl)]]
<1>0. StorageTypeOK /\ SweptClean
  BY DEF StorageInv
<1>1. /\ written \in [StoreKeys -> Map!Entries \cup {Nothing}]
      /\ \A x \in StoreKeys: x # k => written[x] = data[x]
      /\ written[k] \in Map!Entries
      /\ written[k].until # Forever => written[k].until >= now
  BY <1>0, WriteTyping
<1>2. MaybeSweep(k, written)
  BY DEF Write
<1> HIDE DEF written
<1>3. /\ writes' \in 0..SweepInterval - 1
      /\ data' \in [StoreKeys -> Map!Entries \cup {Nothing}]
      /\ \A x \in StoreKeys:
            \/ data'[x] = written[x]
            \/ data'[x] = Nothing
      /\ \/ swept' = swept
         \/ /\ swept' = now
            /\ \A x \in StoreKeys:
                  data'[x] # Nothing => ~ Map!Expired(data'[x], now)
  BY <1>0, <1>1, <1>2, SweepEffect
<1>4. StorageTypeOK'
  BY <1>0, <1>3 DEF StorageTypeOK, Map!Entries
<1>5. CASE swept' = swept
  <2>1. \A x \in StoreKeys: written[x] # Nothing =>
            written[x].until = Forever \/ written[x].until >= swept
    BY <1>0, <1>1, MemoryStorageAssumption DEF StorageTypeOK, SweptClean, Map!Entries
  <2>. QED
    BY <1>3, <1>4, <1>5, <2>1 DEF StorageInv, SweptClean
<1>6. CASE /\ swept' = now
           /\ \A x \in StoreKeys: data'[x] # Nothing => ~ Map!Expired(data'[x], now)
  <2>1. \A x \in StoreKeys: data'[x] # Nothing =>
            data'[x].until = Forever \/ data'[x].until >= now
    BY <1>0, <1>3, <1>6 DEF Map!Expired, Map!Entries, StorageTypeOK
  <2>. QED
    BY <1>4, <1>6, <2>1 DEF StorageInv, SweptClean
<1>. QED
  BY <1>3, <1>5, <1>6

LEMMA StorageInvStep == StorageInv /\ [StorageNext]_storageVars => StorageInv'
<1> SUFFICES ASSUME StorageInv, [StorageNext]_storageVars
             PROVE  StorageInv'
  OBVIOUS
<1>1. ASSUME NEW k \in StoreKeys, Get(k)
      PROVE  StorageInv'
  BY <1>1 DEF StorageInv, StorageTypeOK, SweptClean, Get, Live, Map!Entries
<1>2. ASSUME NEW k \in StoreKeys, Delete(k)
      PROVE  StorageInv'
  BY <1>2 DEF StorageInv, StorageTypeOK, SweptClean, Delete
<1>3. ASSUME NEW k \in StoreKeys, NEW v \in Values, NEW ttl \in Lifetimes, Set(k, v, ttl)
      PROVE  StorageInv'
  BY <1>3, WriteInv DEF Set
<1>4. ASSUME NEW k \in StoreKeys, NEW v \in Values, NEW ttl \in Lifetimes,
             SetIfNotExists(k, v, ttl)
      PROVE  StorageInv'
  <2>1. CASE Live(k)
    BY <1>4, <2>1 DEF SetIfNotExists, StorageInv, StorageTypeOK, SweptClean
  <2>2. CASE ~ Live(k)
    BY <1>4, <2>2, WriteInv DEF SetIfNotExists
  <2>. QED
    BY <2>1, <2>2
<1>5. CASE Tick
  BY <1>5, MemoryStorageAssumption DEF Tick, StorageInv, StorageTypeOK, SweptClean
<1>6. CASE UNCHANGED storageVars
  BY <1>6 DEF storageVars, StorageInv, StorageTypeOK, SweptClean
<1>. QED
  BY <1>1, <1>2, <1>3, <1>4, <1>5, <1>6 DEF StorageNext

LEMMA StorageInvariant == StorageSpec => []StorageInv
  BY StorageInvInit, StorageInvStep, PTL DEF StorageSpec

\* The storage is well typed whatever is called (storage/memory.py).
THEOREM StorageTyping == StorageSpec => []StorageTypeOK
<1>1. StorageInv => StorageTypeOK
  BY DEF StorageInv
<1>. QED
  BY <1>1, StorageInvariant, PTL

\* After a sweep nothing is left that had expired by then, and no write brings
\* such an entry back (storage/memory.py:61-70).
THEOREM StorageSweptClean == StorageSpec => []SweptClean
<1>1. StorageInv => SweptClean
  BY DEF StorageInv
<1>. QED
  BY <1>1, StorageInvariant, PTL

-----------------------------------------------------------------------------
(* The refinement: what a caller sees of the dictionary is the map. *)

Shown == [k \in StoreKeys |-> IF Live(k) THEN data[k] ELSE Nothing]

\* An entry is there for its callers exactly until it has expired.
LEMMA LiveUnexpired ==
    ASSUME StorageTypeOK, NEW k \in StoreKeys
    PROVE  Live(k) <=> data[k] # Nothing /\ ~ Map!Expired(data[k], now)
  BY MemoryStorageAssumption DEF StorageTypeOK, Live, Map!Expired, Map!Entries

\* Shown, written with the expiry test of the map.
LEMMA ShownValue ==
    ASSUME StorageTypeOK, NEW k \in StoreKeys
    PROVE  Shown[k] = IF data[k] # Nothing /\ ~ Map!Expired(data[k], now)
                      THEN data[k] ELSE Nothing
  BY LiveUnexpired DEF Shown

\* The one key changes as the write says; what the sweep takes nobody saw.
LEMMA WriteShown ==
    ASSUME StorageInv, NEW k \in StoreKeys, NEW v \in Values, NEW ttl \in Lifetimes,
           Write(k, v, ttl), UNCHANGED now, answer' \in {"done", "written"}
    PROVE  Shown' = [Shown EXCEPT ![k] = [value |-> v, until |-> Map!Until(ttl)]]
<1> DEFINE written == [data EXCEPT ![k] = [value |-> v, until |-> Map!Until(ttl)]]
<1>0. StorageTypeOK /\ StorageTypeOK'
  BY WriteInv DEF StorageInv
<1>1. /\ written \in [StoreKeys -> Map!Entries \cup {Nothing}]
      /\ \A x \in StoreKeys: x # k => written[x] = data[x]
      /\ written[k] = [value |-> v, until |-> Map!Until(ttl)]
      /\ written[k] \in Map!Entries
      /\ written[k].until # Forever => written[k].until >= now
  BY <1>0, WriteTyping
<1>2. MaybeSweep(k, written)
  BY DEF Write
<1> HIDE DEF written
<1>3. \A x \in StoreKeys:
         \/ data'[x] = written[x]
         \/ /\ data'[x] = Nothing
            /\ written[x] # Nothing
            /\ Map!Expired(written[x], now)
  BY <1>0, <1>1, <1>2, SweepEffect
<1>4. \A x \in StoreKeys: Shown'[x] =
         IF data'[x] # Nothing /\ ~ Map!Expired(data'[x], now) THEN data'[x] ELSE Nothing
  <2>1. ASSUME NEW x \in StoreKeys
        PROVE  (Live(x) <=> data[x] # Nothing /\ ~ Map!Expired(data[x], now))'
    BY <1>0, MemoryStorageAssumption DEF StorageTypeOK, Live, Map!Expired, Map!Entries
  <2>. QED
    BY <2>1 DEF Shown, Map!Expired
<1>5. ASSUME NEW x \in StoreKeys, x # k
      PROVE  Shown'[x] = Shown[x]
  BY <1>0, <1>1, <1>3, <1>4, <1>5, ShownValue
<1>6. Shown'[k] = [value |-> v, until |-> Map!Until(ttl)]
  <2>1. ~ Map!Expired(written[k], now)
    BY <1>0, <1>1, MemoryStorageAssumption DEF Map!Expired, Map!Entries, StorageTypeOK
  <2>2. written[k] # Nothing
    BY <1>1, MemoryStorageAssumption DEF Map!Entries
  <2>. QED
    BY <1>1, <1>3, <1>4, <2>1, <2>2
<1>. QED
  BY <1>5, <1>6 DEF Shown

\* Every step of the storage is a step of the map.
LEMMA StepShown ==
    ASSUME StorageInv, StorageNext
    PROVE  Map!TtlMapNext
<1>0. StorageTypeOK
  BY DEF StorageInv
<1>. USE DEF Shown
<1>1. ASSUME NEW k \in StoreKeys, Get(k)
      PROVE  Map!Lookup(k)
  <2>1. Shown' = Shown
    BY <1>0, <1>1 DEF Get, Live, StorageTypeOK
  <2>2. answer' = IF Shown[k] = Nothing THEN Nothing ELSE Shown[k].value
    BY <1>1 DEF Get, Live
  <2>. QED
    BY <1>1, <2>1, <2>2 DEF Get, Map!Lookup
<1>2. ASSUME NEW k \in StoreKeys, Delete(k)
      PROVE  Map!Remove(k)
  <2>1. Shown' = [Shown EXCEPT ![k] = Nothing]
    BY <1>0, <1>2 DEF Delete, Live, StorageTypeOK
  <2>. QED
    BY <1>2, <2>1 DEF Delete, Map!Remove
<1>3. ASSUME NEW k \in StoreKeys, NEW v \in Values, NEW ttl \in Lifetimes, Set(k, v, ttl)
      PROVE  Map!Put(k, v, ttl)
  <2>1. Shown' = [Shown EXCEPT ![k] = [value |-> v, until |-> Map!Until(ttl)]]
    BY <1>3, WriteShown DEF Set
  <2>. QED
    BY <1>3, <2>1 DEF Set, Map!Put
<1>4. ASSUME NEW k \in StoreKeys, NEW v \in Values, NEW ttl \in Lifetimes,
             SetIfNotExists(k, v, ttl)
      PROVE  Map!Refuse(k) \/ Map!PutIfAbsent(k, v, ttl)
  <2>1. CASE Live(k)
    <3>1. Shown' = Shown
      BY <1>4, <2>1 DEF SetIfNotExists, Live
    <3>2. Shown[k] # Nothing
      BY <2>1 DEF Live
    <3>. QED
      BY <1>4, <2>1, <3>1, <3>2 DEF SetIfNotExists, Map!Refuse
  <2>2. CASE ~ Live(k)
    <3>1. Shown' = [Shown EXCEPT ![k] = [value |-> v, until |-> Map!Until(ttl)]]
      BY <1>4, <2>2, WriteShown DEF SetIfNotExists
    <3>2. Shown[k] = Nothing
      BY <2>2
    <3>. QED
      BY <1>4, <2>2, <3>1, <3>2 DEF SetIfNotExists, Map!PutIfAbsent
  <2>. QED
    BY <2>1, <2>2
<1>5. ASSUME Tick
      PROVE  Map!Pass
  <2>1. ASSUME NEW k \in StoreKeys
        PROVE  Shown'[k] = IF Shown[k] # Nothing /\ Map!Expired(Shown[k], now + 1)
                           THEN Nothing ELSE Shown[k]
    BY <1>0, <1>5, MemoryStorageAssumption
       DEF Tick, StorageTypeOK, Live, Map!Expired, Map!Entries
  <2>. QED
    BY <1>5, <2>1 DEF Tick, Map!Pass
<1>. QED
  BY <1>1, <1>2, <1>3, <1>4, <1>5 DEF StorageNext, Map!TtlMapNext

\* The storage, with entries that stay until somebody looks, implements the map
\* whose entries vanish by themselves (storage/memory.py, storage/base.py).
THEOREM StorageIsTtlMap == StorageSpec => IsTtlMap
<1>1. StorageInit => Map!TtlMapInit
  BY DEF StorageInit, Map!TtlMapInit, Live
<1>2. StorageInv /\ [StorageNext]_storageVars => [Map!TtlMapNext]_Map!ttlMapVars
  <2>1. ASSUME UNCHANGED storageVars
        PROVE  UNCHANGED Map!ttlMapVars
    BY <2>1 DEF storageVars, Map!ttlMapVars, Live
  <2>. QED
    BY <2>1, StepShown
<1>. QED
  BY <1>1, <1>2, StorageInvariant, PTL DEF StorageSpec, IsTtlMap, Map!TtlMapSpec
=============================================================================
