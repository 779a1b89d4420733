------------------------------ MODULE Scheduler ------------------------------
(***************************************************************************)
(* TScheduler: one event-loop thread that runs periodic tasks.  Any thread *)
(* adds and removes tasks; one owner calls run, stop and stopAsync.  The   *)
(* loop holds the mutex while it looks at the queue and while it puts a    *)
(* task back, and gives it up while it waits and while a job runs, so      *)
(* tasks come and go between any two of its steps.                         *)
(*                                                                         *)
(* TimePoint::min() is 0; no task that ran has a time so early.            *)
(***************************************************************************)
EXTENDS Integers, FiniteSets

CONSTANTS
    MaxHandle,  \* bound: how many tasks are ever added
    Interval,   \* the period of each of them
    MaxTime,    \* bound: the clock stops there
    MaxStarts   \* bound: how many event loops run() starts

Handles == 1..MaxHandle

ASSUME SchedulerAssumption ==
    /\ MaxHandle \in Nat
    /\ Interval \in [Handles -> Nat \ {0}]
    /\ MaxTime \in Nat
    /\ MaxStarts \in Nat

VARIABLES
    now,
    globHndlCount,  \* handles are never used again
    tasks,          \* the handles in the map
    task,           \* the Task objects
    taskQueue,      \* a set, for no entry is pushed while another is there for its handle
    loop,           \* where the event loop is, and the entry nextTid it has taken
    stopRequested,
    starts,
    call,           \* the call the owner is in
    turns           \* history: turns of each task at this instant that were due

taskVars == <<globHndlCount, tasks, task, taskQueue>>
vars == <<now, taskVars, loop, stopRequested, starts, call, turns>>

\* next: startTime + execCount * interval, which doJob copies to tid.nextRun.
TaskType == [next : Nat, started : BOOLEAN, cancelled : BOOLEAN]

Entry == [hndl : Handles, nextRun : Nat]

\* The places where the loop has an entry it took out of the queue.
Holding == {"lookup", "fetched", "checked", "job", "rearm"}

Places == {"none", "top", "waitAny", "waitUntil", "exited"} \cup Holding

\* jthread::joinable: a loop that ended is joinable until it is joined.
Joinable == loop.at # "none"

Running == loop.at \notin {"none", "exited"}

Nothing == [hndl |-> 0, nextRun |-> 0]

Init ==
    /\ now = 1
    /\ globHndlCount = 1
    /\ tasks = {}
    /\ task = [h \in Handles |-> [next |-> 0, started |-> FALSE, cancelled |-> FALSE]]
    /\ taskQueue = {}
    /\ loop = [at |-> "none", tid |-> Nothing]
    /\ stopRequested = FALSE
    /\ starts = 0
    /\ call = "none"
    /\ turns = [h \in Handles |-> 0]

-----------------------------------------------------------------------------
\* addTask and removeTask, by any thread.

AddTask ==
    /\ globHndlCount \in Handles
    /\ globHndlCount' = globHndlCount + 1
    /\ tasks' = tasks \cup {globHndlCount}
    /\ taskQueue' = taskQueue \cup {[hndl |-> globHndlCount, nextRun |-> task[globHndlCount].next]}
    /\ UNCHANGED <<now, task, loop, stopRequested, starts, call, turns>>

\* The map forgets the task and its object does not know.
RemoveTaskOnly(h) ==
    /\ h \in tasks
    /\ tasks' = tasks \ {h}
    /\ UNCHANGED <<now, globHndlCount, task, taskQueue, loop, stopRequested, starts, call, turns>>

\* The entry stays in the queue.
RemoveTask(h) ==
    /\ h \in tasks
    /\ tasks' = tasks \ {h}
    /\ task' = [task EXCEPT ![h].cancelled = TRUE]
    /\ UNCHANGED <<now, globHndlCount, taskQueue, loop, stopRequested, starts, call, turns>>

-----------------------------------------------------------------------------
\* The event loop.

\* The queue's order: the time, then the handle.
Earlier(a, b) ==
    \/ a.nextRun < b.nextRun
    \/ a.nextRun = b.nextRun /\ a.hndl < b.hndl

IsTop(e) == e \in taskQueue /\ \A f \in taskQueue : f = e \/ Earlier(e, f)

Goto(at, tid) == loop' = [at |-> at, tid |-> tid]

LoopStops ==
    /\ loop.at = "top"
    /\ stopRequested
    /\ Goto("exited", Nothing)
    /\ UNCHANGED <<now, taskVars, stopRequested, starts, call, turns>>

LoopFindsNothing ==
    /\ loop.at = "top"
    /\ ~stopRequested
    /\ taskQueue = {}
    /\ Goto("waitAny", Nothing)
    /\ UNCHANGED <<now, taskVars, stopRequested, starts, call, turns>>

\* The mutex is held from the look at the queue to the pop, or to the wait.
LoopTakesTop ==
    /\ loop.at = "top"
    /\ ~stopRequested
    /\ \E e \in taskQueue :
         /\ IsTop(e)
         /\ IF e.nextRun > now
            THEN Goto("waitUntil", e) /\ UNCHANGED taskQueue
            ELSE Goto("lookup", e) /\ taskQueue' = taskQueue \ {e}
    /\ UNCHANGED <<now, globHndlCount, tasks, task, stopRequested, starts, call, turns>>

\* No one notifies the loop of a task that was added.
WakesForStop == stopRequested

\* The wait does not hear of a stop.
WakesForTask == taskQueue # {}

WakesForAny == taskQueue # {} \/ stopRequested

LoopWakesForAny ==
    /\ loop.at = "waitAny"
    /\ WakesForAny
    /\ Goto("top", Nothing)
    /\ UNCHANGED <<now, taskVars, stopRequested, starts, call, turns>>

\* The deadline, a stop, or the predicate: an earlier task came.
Wakes ==
    \/ now >= loop.tid.nextRun
    \/ stopRequested
    \/ \E e \in taskQueue : IsTop(e) /\ Earlier(e, loop.tid)

\* Entries are compared by their handles.
LoopWakes ==
    /\ loop.at = "waitUntil"
    /\ Wakes
    /\ \E e \in taskQueue :
         /\ IsTop(e)
         /\ IF e.hndl = loop.tid.hndl
            THEN Goto("lookup", loop.tid) /\ taskQueue' = taskQueue \ {e}
            ELSE Goto("top", Nothing) /\ UNCHANGED taskQueue
    /\ UNCHANGED <<now, globHndlCount, tasks, task, stopRequested, starts, call, turns>>

Lookup ==
    /\ loop.at = "lookup"
    /\ IF loop.tid.hndl \in tasks THEN Goto("fetched", loop.tid) ELSE Goto("top", Nothing)
    /\ UNCHANGED <<now, taskVars, stopRequested, starts, call, turns>>

\* doJob finds the task cancelled.
SkipJob ==
    /\ loop.at = "fetched"
    /\ task[loop.tid.hndl].cancelled
    /\ Goto("rearm", loop.tid)
    /\ UNCHANGED <<now, taskVars, stopRequested, starts, call, turns>>

\* Or it does not, and reads the clock for the first turn.
BeginTurn ==
    LET h == loop.tid.hndl
    IN  /\ loop.at = "fetched"
        /\ ~task[h].cancelled
        /\ Goto("checked", loop.tid)
        /\ task' = IF task[h].started THEN task
                   ELSE [task EXCEPT ![h].next = now, ![h].started = TRUE]
        /\ UNCHANGED <<now, globHndlCount, tasks, taskQueue, stopRequested, starts, call, turns>>

\* The task is not looked at again: removeTask may have returned since.
StartJob ==
    LET h == loop.tid.hndl
    IN  /\ loop.at = "checked"
        /\ Goto("job", loop.tid)
        /\ turns' = IF task[h].next <= now THEN [turns EXCEPT ![h] = @ + 1] ELSE turns
        /\ UNCHANGED <<now, taskVars, stopRequested, starts, call>>

\* Without the test for a task that is far behind.
NextRunNoSkip(h) == task[h].next + Interval[h]

\* timeGap is unsigned, as it would be if execCount were.
NextRunUnsigned(h) ==
    LET ideal == task[h].next + Interval[h]
        gap   == (now - ideal) % (2 ^ 8)
    IN  IF gap > Interval[h] THEN ideal + Interval[h] * (gap \div Interval[h] + 1) ELSE ideal

\* Counted from the end of the job.
NextRunDrifts(h) == now + Interval[h]

\* The time of the next turn, when a job ends.  A task more than an interval
\* behind skips the turns it missed: the next one is after now, at a multiple
\* of the interval.
NextRun(h) ==
    LET ideal == task[h].next + Interval[h]
        gap   == now - ideal
    IN  IF gap > Interval[h] THEN now + Interval[h] - (gap % Interval[h]) ELSE ideal

JobEnds ==
    /\ loop.at = "job"
    /\ task' = [task EXCEPT ![loop.tid.hndl].next = NextRun(loop.tid.hndl)]
    /\ Goto("rearm", loop.tid)
    /\ UNCHANGED <<now, globHndlCount, tasks, taskQueue, stopRequested, starts, call, turns>>

\* The loop stops without putting the task back.
RearmedUnlessStopped ==
    IF stopRequested THEN {}
    ELSE {[hndl |-> h, nextRun |-> task[h].next] : h \in {loop.tid.hndl} \cap tasks}

\* The entry that goes back into the queue, if the task was not removed.
Rearmed == {[hndl |-> h, nextRun |-> task[h].next] : h \in {loop.tid.hndl} \cap tasks}

Rearm ==
    /\ loop.at = "rearm"
    /\ taskQueue' = taskQueue \cup Rearmed
    /\ Goto("top", Nothing)
    /\ UNCHANGED <<now, globHndlCount, tasks, task, stopRequested, starts, call, turns>>

LoopStep ==
    \/ LoopStops
    \/ LoopFindsNothing
    \/ LoopTakesTop
    \/ LoopWakesForAny
    \/ LoopWakes
    \/ Lookup
    \/ SkipJob
    \/ BeginTurn
    \/ StartJob
    \/ JobEnds
    \/ Rearm

-----------------------------------------------------------------------------
\* The owner's calls.

Run ==
    /\ call = "none"
    /\ Joinable \/ starts < MaxStarts
    /\ call' = "run"
    /\ UNCHANGED <<now, taskVars, loop, stopRequested, starts, turns>>

RunAlreadyStarted ==
    /\ call = "run"
    /\ Joinable
    /\ call' = "none"
    /\ UNCHANGED <<now, taskVars, loop, stopRequested, starts, turns>>

RunStarts ==
    /\ call = "run"
    /\ ~Joinable
    /\ call' = "none"
    /\ Goto("top", Nothing)
    /\ stopRequested' = FALSE
    /\ starts' = starts + 1
    /\ UNCHANGED <<now, taskVars, turns>>

StopAsync ==
    /\ call = "none"
    /\ stopRequested' = Joinable
    /\ UNCHANGED <<now, taskVars, loop, starts, call, turns>>

Stop ==
    /\ call = "none"
    /\ stopRequested' = Joinable
    /\ call' = "stop"
    /\ UNCHANGED <<now, taskVars, loop, starts, turns>>

StopReturns ==
    /\ call = "stop"
    /\ ~Running
    /\ Goto("none", Nothing)
    /\ call' = "none"
    /\ UNCHANGED <<now, taskVars, stopRequested, starts, turns>>

Tick ==
    /\ now < MaxTime
    /\ now' = now + 1
    /\ turns' = [h \in Handles |-> 0]
    /\ UNCHANGED <<taskVars, loop, stopRequested, starts, call>>

Next ==
    \/ AddTask
    \/ \E h \in Handles : RemoveTask(h)
    \/ LoopStep
    \/ Run \/ RunAlreadyStarted \/ RunStarts
    \/ StopAsync \/ Stop \/ StopReturns
    \/ Tick

Spec == Init /\ [][Next]_vars

\* The loop is scheduled and the condition variable wakes it; jobs end, as the
\* comment of the class asks of them; calls that can return do; time passes.
FairSpec ==
    /\ Spec
    /\ WF_vars(LoopStep)
    /\ WF_vars(RunAlreadyStarted \/ RunStarts \/ StopReturns)
    /\ WF_vars(Tick)

-----------------------------------------------------------------------------
\* Correctness.

\* Every variable has its type; the loop has an entry where it should.
TypeOK ==
    /\ now \in Nat
    /\ globHndlCount \in 1..(MaxHandle + 1)
    /\ tasks \subseteq Handles
    /\ task \in [Handles -> TaskType]
    /\ taskQueue \subseteq Entry
    /\ loop \in [at : Places, tid : Entry \cup {Nothing}]
    /\ loop.at \in Holding \cup {"waitUntil"} => loop.tid \in Entry
    /\ stopRequested \in BOOLEAN
    /\ starts \in Nat
    /\ call \in {"none", "run", "stop"}
    /\ turns \in [Handles -> Nat]

Held == {loop.tid.hndl : at \in {loop.at} \cap Holding}

QueuedHandles == {e.hndl : e \in taskQueue}

\* A task in the map is once in the queue or once with the loop, never both:
\* a task that is lost never runs again, one queued twice runs twice as often.
\* A stop, a removal or an addition between two steps of the loop changes
\* nothing of it.
EachTaskQueuedOnce ==
    /\ \A a, b \in taskQueue : a.hndl = b.hndl => a = b
    /\ Held \cap QueuedHandles = {}
    /\ tasks \subseteq Held \cup QueuedHandles

\* What is in the queue is the time the task was last given: a task is never
\* scheduled by an old time.
QueueIsCurrent == \A e \in taskQueue : e.nextRun = task[e.hndl].next

\* The task that has its turn: from the test of cancelled to the job's end.
Turn == IF loop.at \in {"checked", "job"} THEN loop.tid.hndl ELSE 0

\* When removeTask has returned and the turn that had begun is over, there is
\* no other, although the task's entry stays in the queue and the loop may
\* already have fetched the task.  The turn that had begun is not called off:
\* its job may even be entered after removeTask returned.
Gone(h) == h < globHndlCount /\ h \notin tasks /\ Turn # h

RemovedStaysAway == [][\A h \in Handles : Gone(h) => Gone(h)']_vars

\* The next turn is never more than an interval away, but for the turns that
\* were run early: at most one for each loop that was stopped.
NextTurnIsNear ==
    \A h \in tasks : task[h].next <= now + Interval[h] * (1 + starts)

\* The comment of doJob: bursts are prevented.  However late the loop is, a
\* task has at most three turns at one instant.
NoBurst == \A h \in Handles : turns[h] <= 3

\* A task that is due is run, unless it is removed or the loop is stopped:
\* the loop does not sleep through the arrival of an earlier task, and no
\* task starves another.
Due(h) == h \in tasks /\ task[h].next <= now /\ Running /\ ~stopRequested

DueTasksRun == \A h \in Handles : Due(h) ~> ~Due(h)

\* run and stop return: a stop wakes the loop wherever it waits.
CallsReturn == call # "none" ~> call = "none"

\* A loop that waits for a task, or has taken it, gives it its turn although it
\* was asked to stop.
Mode ==
    IF ~Running THEN "off"
    ELSE IF ~stopRequested THEN "on"
    ELSE IF loop.at \in {"waitUntil", "lookup", "fetched"} THEN "lastTurn"
    ELSE "off"

\* Users get what PeriodicTasks says: turns at multiples of the period, never
\* before their time, none that begins after the removal, one at most after a stop.
PeriodicTasks == INSTANCE PeriodicTasks WITH
    known <- {h \in Handles : h < globHndlCount},
    live <- tasks,
    begun <- {h \in Handles : task[h].started},
    plan <- [h \in Handles |-> task[h].next],
    turn <- Turn,
    mode <- Mode
PeriodsAreKept == PeriodicTasks!Spec
=============================================================================
