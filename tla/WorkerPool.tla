----------------------------- MODULE WorkerPool -----------------------------
(***************************************************************************)
(* internal/pool: workers that take tasks from a channel, Submit, and Stop,  *)
(* which closes the channel while others may be sending on it.              *)
(***************************************************************************)
EXTENDS Naturals, FiniteSets

CONSTANTS
    Workers,   \* maxWorkers of them
    PoolTasks  \* the tasks that are submitted, each by a goroutine of its own

ASSUME PoolAssumption ==
    PoolTasks \cap {"waits", "returned"} = {} /\ IsFiniteSet(Workers)

VARIABLES
    task,      \* of each task: how far it is; first about to be submitted
    doing,     \* of each worker: its task, or "waits" or "returned"
    stopChan, tasksClosed,
    stop       \* where Stop is

poolVars == <<task, doing, stopChan, tasksClosed, stop>>

Buffer == 2 * Cardinality(Workers)
\* What is in the channel; its order is left out.
Queued == {t \in PoolTasks : task[t] = "queued"}

PoolInit ==
    /\ task = [t \in PoolTasks |-> "select"]
    /\ doing = [w \in Workers |-> "waits"]
    /\ stopChan = FALSE /\ tasksClosed = FALSE /\ stop = "uncalled"

\* A panic ends the process.
Alive == \A t \in PoolTasks : task[t] # "panic"

Set(t, from, to) == Alive /\ task[t] = from /\ task' = [task EXCEPT ![t] = to]

-----------------------------------------------------------------------------

\* The three ways out of Submit's select; with both channels closed it takes either
\* of the last two.
SubmitSends(t) ==
    /\ ~tasksClosed /\ Cardinality(Queued) < Buffer
    /\ Set(t, "select", "queued")
    /\ UNCHANGED <<doing, stopChan, tasksClosed, stop>>

SubmitSeesStop(t) ==
    /\ stopChan
    /\ Set(t, "select", "refused")
    /\ UNCHANGED <<doing, stopChan, tasksClosed, stop>>

SubmitPanics(t) ==
    /\ tasksClosed
    /\ Set(t, "select", "panic")
    /\ UNCHANGED <<doing, stopChan, tasksClosed, stop>>

WorkerTakes(w) ==
    /\ doing[w] = "waits"
    /\ \E t \in Queued : Set(t, "queued", "runs") /\ doing' = [doing EXCEPT ![w] = t]
    /\ UNCHANGED <<stopChan, tasksClosed, stop>>

TaskEnds(w) ==
    /\ doing[w] \in PoolTasks
    /\ Set(doing[w], "runs", "done")
    /\ doing' = [doing EXCEPT ![w] = "waits"]
    /\ UNCHANGED <<stopChan, tasksClosed, stop>>

\* Either channel lets the worker go, stopChan also with tasks in the other.
WorkerReturns(w) ==
    /\ Alive /\ doing[w] = "waits"
    /\ stopChan \/ (tasksClosed /\ Queued = {})
    /\ doing' = [doing EXCEPT ![w] = "returned"]
    /\ UNCHANGED <<task, stopChan, tasksClosed, stop>>

\* Mutant: stopChan is not closed, and the channel of tasks neither.
ClosesNothing ==
    /\ Alive /\ stop = "uncalled"
    /\ stop' = "closed"
    /\ UNCHANGED <<task, doing, stopChan, tasksClosed>>

CloseStopChan ==
    /\ Alive /\ stop = "uncalled"
    /\ stopChan' = TRUE /\ stop' = "closing"
    /\ UNCHANGED <<task, doing, tasksClosed>>

CloseTasks ==
    /\ Alive /\ stop = "closing"
    /\ tasksClosed' = TRUE /\ stop' = "closed"
    /\ UNCHANGED <<task, doing, stopChan>>

\* Mutant: Stop waits for an idle worker and not for all of them.
StopReturnsEarly ==
    /\ Alive /\ stop = "closed" /\ \E w \in Workers : doing[w] = "returned"
    /\ stop' = "returned"
    /\ UNCHANGED <<task, doing, stopChan, tasksClosed>>

StopReturns ==
    /\ Alive /\ stop = "closed" /\ \A w \in Workers : doing[w] = "returned"
    /\ stop' = "returned"
    /\ UNCHANGED <<task, doing, stopChan, tasksClosed>>

-----------------------------------------------------------------------------

WorkerSteps(w) == WorkerTakes(w) \/ TaskEnds(w) \/ WorkerReturns(w)

PoolNext ==
    \/ \E t \in PoolTasks : SubmitSends(t) \/ SubmitSeesStop(t) \/ SubmitPanics(t)
    \/ \E w \in Workers : WorkerSteps(w)
    \/ CloseStopChan \/ CloseTasks \/ StopReturns

PoolSpec == PoolInit /\ [][PoolNext]_poolVars

\* A task comes to an end.
PoolFairness ==
    /\ \A w \in Workers : WF_poolVars(WorkerSteps(w))
    /\ WF_poolVars(CloseTasks) /\ WF_poolVars(StopReturns)

-----------------------------------------------------------------------------

\* Every variable has its type.
PoolTypeOK ==
    /\ task \in [PoolTasks -> {"select", "queued", "runs", "done", "refused", "panic"}]
    /\ doing \in [Workers -> PoolTasks \cup {"waits", "returned"}]
    /\ stopChan \in BOOLEAN /\ tasksClosed \in BOOLEAN
    /\ stop \in {"uncalled", "closing", "closed", "returned"}

\* When Stop has returned no task runs and none will: what a worker had taken is
\* done, and what was left in the channel stays there.
NoneRunsAfterStop ==
    stop = "returned" => \A t \in PoolTasks : task[t] # "runs"

\* No more than maxWorkers tasks run at a time, each in the hands of one worker, and
\* the channel holds no more than its capacity, however many submit and stop.
Running == {t \in PoolTasks : task[t] = "runs"}

PoolIsBounded ==
    /\ Cardinality(Running) <= Cardinality(Workers)
    /\ Cardinality(Queued) <= Buffer
    /\ \A v, w \in Workers : doing[v] = doing[w] /\ doing[v] \in PoolTasks => v = w

\* Stop returns, however many tasks are in the channel or on their way to it,
\* unless one of these was sending when the channel was closed and panics.
StopEnds == stop # "uncalled" ~> (stop = "returned" \/ ~Alive)

=============================================================================
