----------------------------- MODULE Supervisor -----------------------------
(***************************************************************************)
(* SourceSupervisor (sources/base.py): run() starts a task per source in a *)
(* TaskGroup, each task runs its source again and again until stop() is    *)
(* called, and stop() closes the sources one after the other.              *)
(*                                                                         *)
(* All of it shares one event loop with the rest of the process.  A task   *)
(* that goes round its loop without ever being suspended keeps the loop    *)
(* for itself: it is "spinning", and nothing else happens any more.        *)
(*                                                                         *)
(* A source is the supervised coroutine's view of it: run() is under way,  *)
(* returns, or raises.  What it does meanwhile is in the sources' modules. *)
(* There is one call of run() and one of stop() at a time.                 *)
(***************************************************************************)
EXTENDS Naturals, Sequences, SequencesExt

CONSTANTS
    Sources,
    Kind,         \* [Sources -> Kinds]
    Unclosable    \* the sources whose aclose() may raise

\* sse: aclose() ends the stream and run() returns.  ws: aclose() sets a flag,
\* which run() looks at once its connection has ended.  polling: aclose() is
\* the inherited one, which does nothing.
Kinds == {"sse", "ws", "polling"}

ASSUME SupervisorAssumption ==
    /\ Kind \in [Sources -> Kinds]
    /\ Unclosable \subseteq Sources

VARIABLES
    sources,      \* _sources, in the order they were added
    stopping,     \* _stopping
    runner,       \* the call of run(): none, scheduled, or in its TaskGroup
    task,         \* per source, what its task in the TaskGroup does
    closed,       \* the sources that had their aclose() called
    closing,      \* the position of stop() in _sources; 0 if there is no call
    raised,       \* history: a stop() was left by an exception
    undone,       \* history: a source was closed by the consumer, not by stop(),
                  \* or run() began when stop() had been called
    dropped       \* history: the tasks of this run() that a CancelledError ended

supervisorVars ==
    <<sources, stopping, runner, task, closed, closing, raised, undone, dropped>>

Runners == {"none", "called", "waiting"}

\* none: there is no task.  ready: created, and not yet run for the first time.
Tasks == {"none", "ready", "running", "sleeping", "spinning", "done"}

SupervisorInit ==
    /\ sources = <<>>
    /\ stopping = FALSE
    /\ runner = "none"
    /\ task = [s \in Sources |-> "none"]
    /\ closed = {}
    /\ closing = 0
    /\ raised = FALSE
    /\ undone = FALSE
    /\ dropped = {}

Frozen == \E s \in Sources: task[s] = "spinning"

-----------------------------------------------------------------------------
(* The consumer's calls. *)

AddSource(s) ==
    /\ s \notin ToSet(sources)
    /\ sources' = Append(sources, s)
    /\ UNCHANGED <<stopping, runner, task, closed, closing, raised, undone, dropped>>

\* The consumer makes a task of run().
CallRun ==
    /\ runner = "none"
    /\ runner' = "called"
    /\ UNCHANGED <<sources, stopping, task, closed, closing, raised, undone, dropped>>

\* run() begins: it clears the flag and creates a task per source.
BeginRun ==
    /\ runner = "called"
    /\ stopping' = FALSE
    /\ task' = [s \in Sources |-> IF s \in ToSet(sources) THEN "ready" ELSE "none"]
    /\ runner' = "waiting"
    /\ dropped' = {}
    /\ undone' = (undone \/ stopping)
    /\ UNCHANGED <<sources, closed, closing, raised>>

\* The TaskGroup is left once every task has ended.
EndRun ==
    /\ runner = "waiting"
    /\ \A s \in Sources: task[s] \in {"none", "done"}
    /\ runner' = "none"
    /\ task' = [s \in Sources |-> "none"]
    /\ UNCHANGED <<sources, stopping, closed, closing, raised, undone, dropped>>

\* Mutant of CancelRun: the tasks outlive the group.
CancelRunLeavingTasks ==
    /\ runner # "none"
    /\ runner' = "none"
    /\ UNCHANGED <<sources, stopping, task, closed, closing, raised, undone, dropped>>

\* The consumer cancels run(): the TaskGroup cancels its tasks and awaits them.
CancelRun ==
    /\ runner # "none"
    /\ runner' = "none"
    /\ task' = [s \in Sources |-> "none"]
    /\ UNCHANGED <<sources, stopping, closed, closing, raised, undone, dropped>>

\* Mutant of CallStop: the flag is set when the sources are closed.
CallStopWithoutFlag ==
    /\ closing = 0
    /\ closing' = 1
    /\ UNCHANGED <<sources, stopping, runner, task, closed, raised, undone, dropped>>

CallStop ==
    /\ closing = 0
    /\ stopping' = TRUE
    /\ closing' = 1
    /\ UNCHANGED <<sources, runner, task, closed, raised, undone, dropped>>

\* Mutant of CloseNext: one aclose() is enough.
CloseNextOnly ==
    /\ closing \in DOMAIN sources
    /\ closed' = closed \cup {sources[closing]}
    /\ closing' = 0
    /\ UNCHANGED <<sources, stopping, runner, task, raised, undone, dropped>>

\* stop() comes to its next source, whose aclose() returns.
CloseNext ==
    /\ closing \in DOMAIN sources
    /\ closed' = closed \cup {sources[closing]}
    /\ closing' = closing + 1
    /\ UNCHANGED <<sources, stopping, runner, task, raised, undone, dropped>>

\* aclose() raises, after it has closed its own source: the rest is left open.
CloseRaises ==
    /\ closing \in DOMAIN sources
    /\ sources[closing] \in Unclosable
    /\ closed' = closed \cup {sources[closing]}
    /\ closing' = 0
    /\ raised' = TRUE
    /\ UNCHANGED <<sources, stopping, runner, task, undone, dropped>>

StopReturns ==
    /\ closing > Len(sources)
    /\ closing' = 0
    /\ UNCHANGED <<sources, stopping, runner, task, closed, raised, undone, dropped>>

\* The consumer calls aclose() of a source itself.  stop() calls it again.
CloseSource(s) ==
    /\ s \notin closed
    /\ closed' = closed \cup {s}
    /\ undone' = TRUE
    /\ UNCHANGED <<sources, stopping, runner, task, closing, raised, dropped>>

-----------------------------------------------------------------------------
(* _supervise, the task of a source. *)

\* A source whose run() returns at once, without being suspended.
ReturnsAtOnce(s) == s \in closed /\ Kind[s] # "polling"

\* The head of the loop: the source is run unless the supervisor is stopping.
\* If its run() returns at once, so does the next one, and the next.
Loop(s) ==
    /\ task' = [task EXCEPT ![s] = IF stopping THEN "done"
                                   ELSE IF ReturnsAtOnce(s) THEN "spinning"
                                   ELSE "running"]
    /\ UNCHANGED <<sources, stopping, runner, closed, closing, raised, undone, dropped>>

End(s) ==
    /\ task' = [task EXCEPT ![s] = "done"]
    /\ UNCHANGED <<sources, stopping, runner, closed, closing, raised, undone>>

Start(s) ==
    /\ task[s] = "ready"
    /\ Loop(s)

\* Mutant of Crash: the task ends with the exception's first occurrence.
CrashOnce(s) ==
    /\ task[s] = "running"
    /\ End(s)
    /\ UNCHANGED dropped

\* run() of the source raises: the task sleeps before it runs it again.
Crash(s) ==
    /\ task[s] = "running"
    /\ task' = [task EXCEPT ![s] = "sleeping"]
    /\ UNCHANGED <<sources, stopping, runner, closed, closing, raised, undone, dropped>>

\* Mutant of Wake: the flag is not looked at after the sleep.
WakeAnyhow(s) ==
    /\ task[s] = "sleeping"
    /\ task' = [task EXCEPT ![s] = "running"]
    /\ UNCHANGED <<sources, stopping, runner, closed, closing, raised, undone, dropped>>

\* The backoff is over.  stop() does not cut it short.
Wake(s) ==
    /\ task[s] = "sleeping"
    /\ Loop(s)

\* run() of a closed source returns.
Return(s) ==
    /\ task[s] = "running"
    /\ ReturnsAtOnce(s)
    /\ Loop(s)

\* A spinning task goes round its loop, and nothing changes.
Spin(s) ==
    /\ task[s] = "spinning"
    /\ UNCHANGED supervisorVars

\* run() of the source raises a CancelledError that nobody sent to the task:
\* it is passed on, the task is over, and the TaskGroup thinks nothing of it.
Dropped(s) ==
    /\ task[s] = "running"
    /\ End(s)
    /\ dropped' = dropped \cup {s}

-----------------------------------------------------------------------------
SupervisorNext ==
    \/ /\ ~Frozen
       /\ \/ \E s \in Sources: AddSource(s) \/ CloseSource(s)
          \/ CallRun \/ BeginRun \/ EndRun \/ CancelRun
          \/ CallStop \/ CloseNext \/ CloseRaises \/ StopReturns
          \/ \E s \in Sources: Start(s) \/ Crash(s) \/ Wake(s) \/ Return(s) \/ Dropped(s)
    \/ \E s \in Sources: Spin(s)

SupervisorSpec == SupervisorInit /\ [][SupervisorNext]_supervisorVars

\* The event loop runs what is ready: a task that was created, the end of a
\* sleep, stop() and its aclose() calls, and a closed stream's return.  That the
\* server ends a WebSocket is not taken for granted.
FairSupervisorSpec ==
    /\ SupervisorSpec
    /\ WF_supervisorVars(~Frozen /\ (CloseNext \/ CloseRaises \/ StopReturns))
    /\ \A s \in Sources: WF_supervisorVars(~Frozen /\ (Start(s) \/ Wake(s)))
    /\ \A s \in Sources: Kind[s] = "sse" => WF_supervisorVars(~Frozen /\ Return(s))

-----------------------------------------------------------------------------
\* Every variable has the values the code can give it, and no task outlives the
\* call of run() that created it.
SupervisorTypeOK ==
    /\ sources \in Seq(Sources)
    /\ IsInjective(sources)
    /\ stopping \in BOOLEAN
    /\ runner \in Runners
    /\ task \in [Sources -> Tasks]
    /\ closed \subseteq Sources
    /\ closing \in 0..Len(sources) + 1
    /\ raised \in BOOLEAN
    /\ undone \in BOOLEAN
    /\ dropped \subseteq Sources
    /\ runner # "waiting" => \A s \in Sources: task[s] = "none"

\* "One crashing source never takes down its siblings", nor itself (base.py:42-44):
\* while nobody has called stop(), every task of run() is alive, but for one
\* that was ended by a stray CancelledError.
AllSupervised ==
    ~stopping => \A s \in Sources: task[s] = "done" => s \in dropped

\* stop() by itself never makes a source spin: whatever is asleep, starting or
\* returning while it closes one source after the other, each task sees the flag
\* before it sees its source closed.  "A source task that exits/raises is restarted
\* with exp backoff" (base.py:42) is more than the code does: it restarts one that
\* exits at once, and a source that the consumer closed, or that stop() closed
\* before run() began, exits at once every time.
StopNeverSpins == Frozen => undone

\* Once stop() was called no source is run anew, not even one that was asleep
\* in its backoff, unless run() is called again.
NoneRunAnew ==
    [][stopping /\ stopping' =>
        \A s \in Sources: task'[s] = "running" => task[s] = "running"]_supervisorVars

\* stop() ends every source that closes when it is asked to, also one that is in
\* its backoff or not yet started, if no other source's aclose() raises and
\* run(), which clears the flag, does not begin again before.
StopEndsSources ==
    \A s \in Sources:
        Kind[s] = "sse" /\ stopping ~>
            task[s] \in {"none", "done"} \/ raised \/ ~stopping
=============================================================================
