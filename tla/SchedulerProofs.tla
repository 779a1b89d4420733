--------------------------- MODULE SchedulerProofs ---------------------------
(***************************************************************************)
(* Proofs about Scheduler.  Queued is the invariant of the queue: who has  *)
(* the entry of a task, and that it is current.  Timed is the invariant of *)
(* the times, which are only right while the queue is.                     *)
(***************************************************************************)
EXTENDS Scheduler, TLAPS

\* What the invariants of Scheduler need to be inductive.

\* A handle that was not given out yet has a fresh task and no entry.
FreshHandles ==
    \A h \in Handles : h >= globHndlCount =>
      /\ h \notin tasks
      /\ h \notin QueuedHandles
      /\ h \notin Held
      /\ task[h] = [next |-> 0, started |-> FALSE, cancelled |-> FALSE]

\* A task knows that it was removed.
CancelledIsRemoved == \A h \in Handles : h < globHndlCount => (task[h].cancelled <=> h \notin tasks)

\* The entry the loop has is current until its task's turn begins, and the one
\* it waits for is still in the queue.
TakenIsCurrent ==
    /\ loop.at = "waitUntil" => loop.tid \in taskQueue
    /\ loop.at \in {"lookup", "fetched"} => loop.tid.nextRun = task[loop.tid.hndl].next
    /\ loop.at = "checked" => task[loop.tid.hndl].started

Queued ==
    /\ TypeOK
    /\ EachTaskQueuedOnce
    /\ QueueIsCurrent
    /\ FreshHandles
    /\ CancelledIsRemoved
    /\ TakenIsCurrent

LEMMA HandlesAreNumbers == Handles \subseteq Nat /\ 0 \notin Handles
  BY SchedulerAssumption DEF Handles

LEMMA InitQueued == Init => Queued
<1> SUFFICES ASSUME Init
             PROVE  Queued
  OBVIOUS
<1>1. TypeOK
  <2>1. loop \in [at : Places, tid : Entry \cup {Nothing}] /\ loop.at \notin Holding \cup {"waitUntil"}
    BY DEF Init, Places, Holding
  <2>2. [next |-> 0, started |-> FALSE, cancelled |-> FALSE] \in TaskType
    BY DEF TaskType
  <2>3. globHndlCount \in 1..(MaxHandle + 1)
    BY SchedulerAssumption DEF Init
  <2> QED
    BY <2>1, <2>2, <2>3 DEF Init, TypeOK
<1>2. EachTaskQueuedOnce /\ QueueIsCurrent /\ TakenIsCurrent
  BY DEF Init, EachTaskQueuedOnce, QueueIsCurrent, TakenIsCurrent, Held, QueuedHandles, Holding
<1>3. FreshHandles /\ CancelledIsRemoved
  BY HandlesAreNumbers, SchedulerAssumption
     DEF Init, FreshHandles, CancelledIsRemoved, Held, QueuedHandles, Holding, Handles
<1> QED
  BY <1>1, <1>2, <1>3 DEF Queued

\* The loop moves and the tasks stay: it keeps the entry it has, unless the
\* task was removed.
LEMMA MovesKeepQueued ==
    ASSUME Queued,
           TypeOK',
           UNCHANGED taskVars,
           loop'.at \in Holding => loop.at \in Holding /\ loop'.tid = loop.tid,
           loop'.at \notin Holding => Held \cap tasks = {},
           loop'.at = "waitUntil" => loop'.tid \in taskQueue,
           loop'.at \in {"lookup", "fetched"} => loop.at \in {"lookup", "fetched"},
           loop'.at = "checked" => loop.at = "checked"
    PROVE  Queued'
<1>1. Held' \subseteq Held /\ tasks \cap Held \subseteq Held' /\ QueuedHandles' = QueuedHandles
  BY DEF taskVars, Held, QueuedHandles
<1>2. EachTaskQueuedOnce' /\ QueueIsCurrent'
  BY <1>1 DEF Queued, EachTaskQueuedOnce, QueueIsCurrent, taskVars
<1>3. FreshHandles' /\ CancelledIsRemoved'
  BY <1>1 DEF Queued, FreshHandles, CancelledIsRemoved, taskVars
<1>4. TakenIsCurrent'
  BY DEF Queued, TakenIsCurrent, taskVars, Holding
<1> QED
  BY <1>2, <1>3, <1>4 DEF Queued

\* The loop takes the entry e out of the queue.
LEMMA TakingKeepsQueued ==
    ASSUME NEW e \in taskQueue,
           Queued,
           loop.at \notin Holding,
           Goto("lookup", e),
           taskQueue' = taskQueue \ {e},
           UNCHANGED <<now, globHndlCount, tasks, task, stopRequested, starts, call, turns>>
    PROVE  Queued'
<1>1. TypeOK'
  BY DEF Queued, TypeOK, Goto, Places, Holding
<1>2. Held = {} /\ Held' = {e.hndl} /\ QueuedHandles' = QueuedHandles \ {e.hndl}
  BY DEF Held, QueuedHandles, Goto, Holding, Queued, EachTaskQueuedOnce
<1>3. e.hndl \in QueuedHandles /\ e.nextRun = task[e.hndl].next
  BY DEF QueuedHandles, Queued, QueueIsCurrent
<1>4. EachTaskQueuedOnce' /\ QueueIsCurrent'
  BY <1>2 DEF Queued, EachTaskQueuedOnce, QueueIsCurrent
<1>5. FreshHandles' /\ CancelledIsRemoved'
  BY <1>2, <1>3 DEF Queued, FreshHandles, CancelledIsRemoved
<1>6. TakenIsCurrent'
  BY <1>3 DEF TakenIsCurrent, Goto
<1> QED
  BY <1>1, <1>4, <1>5, <1>6 DEF Queued

LEMMA AddTaskQueued == Queued /\ AddTask => Queued'
<1> SUFFICES ASSUME Queued, AddTask
             PROVE  Queued'
  OBVIOUS
<1> DEFINE h == globHndlCount
<1> DEFINE new == [hndl |-> h, nextRun |-> task[h].next]
<1>1. /\ h \in Handles /\ globHndlCount' = h + 1
      /\ tasks' = tasks \cup {h} /\ taskQueue' = taskQueue \cup {new}
      /\ task' = task /\ loop' = loop
  BY DEF AddTask
<1>2. /\ h \notin tasks /\ h \notin QueuedHandles /\ h \notin Held
      /\ task[h].next = 0 /\ ~task[h].cancelled
  BY <1>1, HandlesAreNumbers DEF Queued, FreshHandles
<1>3. new \in Entry /\ new.hndl = h /\ new.nextRun = task[h].next
  BY <1>1, <1>2 DEF Entry
<1> HIDE DEF new
<1>4. TypeOK'
  <2>1. globHndlCount' \in 1..(MaxHandle + 1)
    BY <1>1, SchedulerAssumption DEF Handles
  <2> QED
    BY <1>1, <1>3, <2>1 DEF Queued, TypeOK, AddTask
<1>5. QueuedHandles' = QueuedHandles \cup {h} /\ Held' = Held
  BY <1>1, <1>3 DEF QueuedHandles, Held
<1>6. EachTaskQueuedOnce'
  <2>1. \A a \in taskQueue : a.hndl # h
    BY <1>2 DEF QueuedHandles
  <2> QED
    BY <1>1, <1>2, <1>3, <1>5, <2>1 DEF Queued, EachTaskQueuedOnce
<1>7. QueueIsCurrent'
  BY <1>1, <1>3 DEF Queued, QueueIsCurrent
<1>8. FreshHandles' /\ CancelledIsRemoved'
  BY <1>1, <1>2, <1>5, HandlesAreNumbers DEF Queued, FreshHandles, CancelledIsRemoved
<1>9. TakenIsCurrent'
  BY <1>1 DEF Queued, TakenIsCurrent
<1> QED
  BY <1>4, <1>6, <1>7, <1>8, <1>9 DEF Queued

LEMMA RemoveTaskQueued == ASSUME NEW h \in Handles PROVE Queued /\ RemoveTask(h) => Queued'
<1> SUFFICES ASSUME Queued, RemoveTask(h)
             PROVE  Queued'
  OBVIOUS
<1>1. /\ h \in tasks /\ tasks' = tasks \ {h} /\ task' = [task EXCEPT ![h].cancelled = TRUE]
      /\ UNCHANGED <<now, globHndlCount, taskQueue, loop, stopRequested, starts, call, turns>>
  BY DEF RemoveTask
<1>2. task' \in [Handles -> TaskType]
  BY <1>1 DEF Queued, TypeOK, TaskType
<1>3. \A k \in Handles : /\ task'[k].next = task[k].next /\ task'[k].started = task[k].started
                         /\ k # h => task'[k] = task[k]
                         /\ task'[h].cancelled
  BY <1>1 DEF Queued, TypeOK, TaskType
<1>4. globHndlCount > h
  BY <1>1, HandlesAreNumbers DEF Queued, FreshHandles, TypeOK
<1>5. TypeOK'
  BY <1>1, <1>2 DEF Queued, TypeOK
<1>6. Held' = Held /\ QueuedHandles' = QueuedHandles
  BY <1>1 DEF Held, QueuedHandles
<1>7. EachTaskQueuedOnce'
  BY <1>1, <1>6 DEF Queued, EachTaskQueuedOnce
<1>8. QueueIsCurrent'
  BY <1>1, <1>3 DEF Queued, QueueIsCurrent, TypeOK, Entry
<1>9. FreshHandles' /\ CancelledIsRemoved'
  BY <1>1, <1>3, <1>4, <1>6, HandlesAreNumbers DEF Queued, FreshHandles, CancelledIsRemoved, TypeOK
<1>10. TakenIsCurrent'
  BY <1>1, <1>3 DEF Queued, TakenIsCurrent, TypeOK, Entry, Holding
<1> QED
  BY <1>5, <1>7, <1>8, <1>9, <1>10 DEF Queued

\* The turn begins or the job ends: only the task the loop holds changes.
LEMMA JobKeepsQueued ==
    ASSUME NEW r \in TaskType,
           Queued,
           TypeOK',
           loop.at \in {"fetched", "job"},
           loop'.at \in {"checked", "rearm"},
           loop'.tid = loop.tid,
           task' = [task EXCEPT ![loop.tid.hndl] = r],
           r.cancelled = task[loop.tid.hndl].cancelled,
           loop'.at = "checked" => r.started,
           UNCHANGED <<globHndlCount, tasks, taskQueue>>
    PROVE  Queued'
<1> DEFINE h == loop.tid.hndl
<1>1. h \in Handles /\ Held = {h} /\ Held' = {h} /\ QueuedHandles' = QueuedHandles
  <2>1. loop.tid \in Entry
    BY DEF Queued, TypeOK, Holding
  <2>2. h \in Handles
    BY <2>1 DEF Entry
  <2>3. loop.at \in Holding /\ loop'.at \in Holding
    BY DEF Holding
  <2>4. Held = {h}
    BY <2>3 DEF Held
  <2>5. Held' = {h}
    BY <2>3 DEF Held
  <2>6. QueuedHandles' = QueuedHandles
    BY DEF QueuedHandles
  <2> QED
    BY <2>2, <2>4, <2>5, <2>6
<1>2. h \notin QueuedHandles
  BY <1>1 DEF Queued, EachTaskQueuedOnce
<1>3. task'[h] = r /\ \A k \in Handles : k # h => task'[k] = task[k]
  BY <1>1 DEF Queued, TypeOK
<1>4. h < globHndlCount
  <2>1. h \in Held /\ h \in Nat
    BY <1>1, HandlesAreNumbers
  <2>2. globHndlCount \in Nat
    BY SchedulerAssumption DEF Queued, TypeOK
  <2> QED
    BY <1>1, <2>1, <2>2 DEF Queued, FreshHandles
<1>5. EachTaskQueuedOnce'
  BY <1>1 DEF Queued, EachTaskQueuedOnce
<1>6. QueueIsCurrent'
  <2> SUFFICES ASSUME NEW e \in taskQueue
               PROVE  e.nextRun = task'[e.hndl].next
    BY DEF QueueIsCurrent
  <2>1. e.hndl \in Handles /\ e.hndl # h
    BY <1>2 DEF Queued, TypeOK, Entry, QueuedHandles
  <2> QED
    BY <2>1, <1>3 DEF Queued, QueueIsCurrent
<1>7. FreshHandles' /\ CancelledIsRemoved'
  BY <1>1, <1>3, <1>4, HandlesAreNumbers DEF Queued, FreshHandles, CancelledIsRemoved, TypeOK
<1>8. TakenIsCurrent'
  BY <1>3 DEF TakenIsCurrent
<1> QED
  BY <1>5, <1>6, <1>7, <1>8 DEF Queued

\* What a task looks like once its turn has begun.
Started(h) == IF task[h].started THEN task[h] ELSE [task[h] EXCEPT !.next = now, !.started = TRUE]

\* How the beginning of a turn changes the task.
LEMMA BeginTurnChanges ==
    ASSUME Queued, BeginTurn
    PROVE  LET h == loop.tid.hndl
           IN  /\ h \in Handles
               /\ Started(h) \in TaskType
               /\ Started(h).cancelled = task[h].cancelled /\ Started(h).started
               /\ task' = [task EXCEPT ![h] = Started(h)]
<1> DEFINE h == loop.tid.hndl
<1>1. h \in Handles /\ task \in [Handles -> TaskType] /\ task[h] \in TaskType /\ now \in Nat
  BY DEF Queued, TypeOK, BeginTurn, Holding, Entry
<1>2. task' = IF task[h].started THEN task ELSE [task EXCEPT ![h].next = now, ![h].started = TRUE]
  BY DEF BeginTurn
<1>3. Started(h) \in TaskType /\ Started(h).cancelled = task[h].cancelled /\ Started(h).started
  BY <1>1 DEF Started, TaskType
<1>4. task' = [task EXCEPT ![h] = Started(h)]
  <2>1. CASE task[h].started
    BY <2>1, <1>1, <1>2 DEF Started
  <2>2. CASE ~task[h].started
    BY <2>2, <1>1, <1>2 DEF Started
  <2> QED
    BY <2>1, <2>2
<1> QED
  BY <1>1, <1>3, <1>4

\* The next turn is one interval on, if that is at most one interval ago;
\* else it is the first of its multiples that is to come.
LEMMA NextRunIsOneIntervalOn ==
    ASSUME Queued, NEW h \in Handles
    PROVE  LET inv  == Interval[h]
               next == task[h].next
           IN  /\ inv \in Nat \ {0} /\ next \in Nat
               /\ NextRun(h) \in Nat
               /\ \/ NextRun(h) = next + inv /\ next + inv >= now - inv
                  \/ NextRun(h) > now /\ NextRun(h) <= now + inv /\ next + inv < now - inv
<1> DEFINE inv == Interval[h]
<1> DEFINE next == task[h].next
<1> DEFINE gap == now - (next + inv)
<1> DEFINE rest == gap % inv
<1>1. inv \in Nat \ {0}
  BY SchedulerAssumption
<1>2. now \in Nat /\ next \in Nat
  BY DEF Queued, TypeOK, TaskType
<1>3. NextRun(h) = IF gap > inv THEN now + inv - rest ELSE next + inv
  BY DEF NextRun
<1> HIDE DEF inv, next
<1>4. gap \in Int
  BY <1>1, <1>2
<1> HIDE DEF gap
<1>5. rest \in 0..(inv - 1)
  BY <1>1, <1>4
<1> HIDE DEF rest
<1>6. gap = now - (next + inv)
  BY DEF gap
<1>7. CASE gap > inv
  BY <1>7, <1>1, <1>2, <1>3, <1>5, <1>6 DEF inv, next
<1>8. CASE ~(gap > inv)
  BY <1>8, <1>1, <1>2, <1>3, <1>4, <1>6 DEF inv, next
<1> QED
  BY <1>7, <1>8

LEMMA RearmQueued == Queued /\ Rearm => Queued'
<1> SUFFICES ASSUME Queued, Rearm
             PROVE  Queued'
  OBVIOUS
<1> DEFINE h == loop.tid.hndl
<1> DEFINE new == [hndl |-> h, nextRun |-> task[h].next]
<1>1. /\ loop.at = "rearm" /\ h \in Handles /\ task[h].next \in Nat
      /\ Goto("top", Nothing)
      /\ UNCHANGED <<now, globHndlCount, tasks, task, stopRequested, starts, call, turns>>
  BY DEF Rearm, Queued, TypeOK, TaskType, Holding, Entry
<1>2. new \in Entry /\ new.hndl = h /\ new.nextRun = task[h].next
  BY <1>1 DEF Entry
<1>3. Held = {h} /\ Held' = {} /\ h \notin QueuedHandles
  BY <1>1 DEF Held, Holding, Goto, Queued, EachTaskQueuedOnce
<1>4. TakenIsCurrent'
  BY <1>1 DEF TakenIsCurrent, Goto
<1>5. CASE h \in tasks
  <2>1. taskQueue' = taskQueue \cup {new}
    BY <1>5 DEF Rearm, Rearmed
  <2> HIDE DEF new
  <2>2. QueuedHandles' = QueuedHandles \cup {h}
    BY <2>1, <1>2 DEF QueuedHandles
  <2>3. TypeOK'
    BY <1>1, <1>2, <2>1 DEF Queued, TypeOK, Goto, Places, Holding
  <2>4. EachTaskQueuedOnce'
    <3>1. \A a \in taskQueue : a.hndl # h
      BY <1>3 DEF QueuedHandles
    <3> QED
      BY <1>1, <1>2, <1>3, <2>1, <2>2, <3>1 DEF Queued, EachTaskQueuedOnce
  <2>5. QueueIsCurrent'
    BY <1>1, <1>2, <2>1 DEF Queued, QueueIsCurrent
  <2>6. FreshHandles' /\ CancelledIsRemoved'
    BY <1>1, <1>3, <2>2 DEF Queued, FreshHandles, CancelledIsRemoved
  <2> QED
    BY <1>4, <2>3, <2>4, <2>5, <2>6 DEF Queued
<1>6. CASE h \notin tasks
  <2>1. UNCHANGED taskVars
    BY <1>6 DEF Rearm, Rearmed, taskVars
  <2>2. TypeOK'
    BY <1>1, <2>1 DEF Queued, TypeOK, Goto, taskVars, Places, Holding
  <2> QED
    BY <1>1, <1>3, <1>6, <2>1, <2>2, MovesKeepQueued DEF Goto, Holding
<1> QED
  BY <1>5, <1>6

\* Every step keeps Queued.
LEMMA StepKeepsQueued == Queued /\ [Next]_vars => Queued'
<1> SUFFICES ASSUME Queued, [Next]_vars
             PROVE  Queued'
  OBVIOUS
<1> USE DEF Queued
<1>1. CASE AddTask
  BY <1>1, AddTaskQueued
<1>2. CASE \E h \in Handles : RemoveTask(h)
  BY <1>2, RemoveTaskQueued
<1>3. CASE LoopStops
  <2>1. TypeOK'
    BY <1>3 DEF LoopStops, TypeOK, Goto, taskVars, Places, Holding
  <2> QED
    BY <1>3, <2>1, MovesKeepQueued DEF LoopStops, Goto, Holding, Held
<1>4. CASE LoopFindsNothing
  <2>1. TypeOK'
    BY <1>4 DEF LoopFindsNothing, TypeOK, Goto, taskVars, Places, Holding
  <2> QED
    BY <1>4, <2>1, MovesKeepQueued DEF LoopFindsNothing, Goto, Holding, Held
<1>5. CASE LoopTakesTop
  <2>1. PICK e \in taskQueue :
            IF e.nextRun > now
            THEN Goto("waitUntil", e) /\ UNCHANGED taskQueue
            ELSE Goto("lookup", e) /\ taskQueue' = taskQueue \ {e}
    BY <1>5 DEF LoopTakesTop
  <2>2. CASE e.nextRun > now
    <3>1. /\ Goto("waitUntil", e)
          /\ UNCHANGED <<now, taskVars, stopRequested, starts, call, turns>>
      BY <1>5, <2>1, <2>2 DEF LoopTakesTop, taskVars
    <3>2. TypeOK'
      BY <3>1 DEF TypeOK, Goto, taskVars, Places, Holding
    <3> QED
      BY <1>5, <3>1, <3>2, MovesKeepQueued DEF LoopTakesTop, Goto, Holding, Held
  <2>3. CASE ~(e.nextRun > now)
    BY <1>5, <2>1, <2>3, TakingKeepsQueued DEF LoopTakesTop, Holding
  <2> QED
    BY <2>2, <2>3
<1>6. CASE LoopWakesForAny
  <2>1. TypeOK'
    BY <1>6 DEF LoopWakesForAny, TypeOK, Goto, taskVars, Places, Holding
  <2> QED
    BY <1>6, <2>1, MovesKeepQueued DEF LoopWakesForAny, Goto, Holding, Held
<1>7. CASE LoopWakes
  <2>1. PICK e \in taskQueue :
            IF e.hndl = loop.tid.hndl
            THEN Goto("lookup", loop.tid) /\ taskQueue' = taskQueue \ {e}
            ELSE Goto("top", Nothing) /\ UNCHANGED taskQueue
    BY <1>7 DEF LoopWakes
  <2>2. CASE e.hndl = loop.tid.hndl
    <3>1. loop.tid = e
      BY <1>7, <2>2 DEF LoopWakes, TakenIsCurrent, EachTaskQueuedOnce
    <3> QED
      BY <1>7, <2>1, <2>2, <3>1, TakingKeepsQueued DEF LoopWakes, Holding
  <2>3. CASE e.hndl # loop.tid.hndl
    <3>1. /\ Goto("top", Nothing)
          /\ UNCHANGED <<now, taskVars, stopRequested, starts, call, turns>>
      BY <1>7, <2>1, <2>3 DEF LoopWakes, taskVars
    <3>2. TypeOK'
      BY <3>1 DEF TypeOK, Goto, taskVars, Places, Holding
    <3> QED
      BY <1>7, <3>1, <3>2, MovesKeepQueued DEF LoopWakes, Goto, Holding, Held
  <2> QED
    BY <2>2, <2>3
<1>8. CASE Lookup
  <2>1. CASE loop.tid.hndl \in tasks
    <3>1. Goto("fetched", loop.tid)
      BY <1>8, <2>1 DEF Lookup
    <3>2. TypeOK'
      BY <1>8, <3>1 DEF Lookup, TypeOK, Goto, taskVars, Places, Holding
    <3> QED
      BY <1>8, <3>1, <3>2, MovesKeepQueued DEF Lookup, Goto, Holding, Held
  <2>2. CASE loop.tid.hndl \notin tasks
    <3>1. Goto("top", Nothing)
      BY <1>8, <2>2 DEF Lookup
    <3>2. TypeOK'
      BY <1>8, <3>1 DEF Lookup, TypeOK, Goto, taskVars, Places, Holding
    <3> QED
      BY <1>8, <2>2, <3>1, <3>2, MovesKeepQueued DEF Lookup, Goto, Holding, Held
  <2> QED
    BY <2>1, <2>2
<1>9. CASE SkipJob
  <2>1. TypeOK'
    BY <1>9 DEF SkipJob, TypeOK, Goto, taskVars, Places, Holding
  <2> QED
    BY <1>9, <2>1, MovesKeepQueued DEF SkipJob, Goto, Holding, Held
<1>10. CASE BeginTurn
  <2> DEFINE h == loop.tid.hndl
  <2>1. /\ h \in Handles /\ Started(h) \in TaskType
        /\ Started(h).cancelled = task[h].cancelled /\ Started(h).started
        /\ task' = [task EXCEPT ![h] = Started(h)]
    BY <1>10, BeginTurnChanges
  <2>2. TypeOK'
    BY <1>10, <2>1 DEF BeginTurn, TypeOK, Goto, Places, Holding
  <2> QED
    BY <1>10, <2>1, <2>2, JobKeepsQueued DEF BeginTurn, Goto
<1>17. CASE StartJob
  <2>1. loop.tid.hndl \in Handles
    BY <1>17 DEF StartJob, TypeOK, Holding, Entry
  <2>2. turns' \in [Handles -> Nat]
    BY <1>17, <2>1 DEF StartJob, TypeOK
  <2>3. TypeOK'
    BY <1>17, <2>2 DEF StartJob, TypeOK, Goto, taskVars, Places, Holding
  <2> QED
    BY <1>17, <2>3, MovesKeepQueued DEF StartJob, Goto, Holding, Held
<1>11. CASE JobEnds
  <2> DEFINE h == loop.tid.hndl
  <2> DEFINE r == [task[h] EXCEPT !.next = NextRun(h)]
  <2>1. h \in Handles /\ task[h] \in TaskType
    BY <1>11 DEF JobEnds, TypeOK, Holding, Entry
  <2>2. r \in TaskType /\ r.cancelled = task[h].cancelled /\ task' = [task EXCEPT ![h] = r]
    BY <1>11, <2>1, NextRunIsOneIntervalOn DEF JobEnds, TypeOK, TaskType
  <2> HIDE DEF r
  <2>3. TypeOK'
    BY <1>11, <2>1, <2>2 DEF JobEnds, TypeOK, Goto, Places, Holding
  <2> QED
    BY <1>11, <2>2, <2>3, JobKeepsQueued DEF JobEnds, Goto
<1>12. CASE Rearm
  BY <1>12, RearmQueued
<1>13. CASE Run \/ RunAlreadyStarted \/ StopAsync \/ Stop \/ Tick
  <2>1. UNCHANGED <<taskVars, loop, starts>>
    BY <1>13 DEF Run, RunAlreadyStarted, StopAsync, Stop, Tick
  <2>2. TypeOK'
    <3>1. stopRequested' \in BOOLEAN
      BY <1>13 DEF Run, RunAlreadyStarted, StopAsync, Stop, Tick, TypeOK, Joinable
    <3>2. call' \in {"none", "run", "stop"}
      BY <1>13 DEF Run, RunAlreadyStarted, StopAsync, Stop, Tick, TypeOK
    <3>3. now' \in Nat /\ turns' \in [Handles -> Nat]
      BY <1>13 DEF Run, RunAlreadyStarted, StopAsync, Stop, Tick, TypeOK
    <3> QED
      BY <2>1, <3>1, <3>2, <3>3 DEF TypeOK, taskVars
  <2> QED
    BY <2>1, <2>2, MovesKeepQueued DEF Holding, Held, TakenIsCurrent
<1>14. CASE RunStarts
  <2>1. TypeOK'
    <3>1. starts' = starts + 1 /\ stopRequested' = FALSE /\ call' = "none"
      BY <1>14 DEF RunStarts
    <3>2. UNCHANGED <<now, taskVars, turns>> /\ Goto("top", Nothing)
      BY <1>14 DEF RunStarts
    <3>3. starts' \in Nat
      BY <3>1 DEF TypeOK
    <3>4. stopRequested' \in BOOLEAN /\ call' \in {"none", "run", "stop"}
      BY <3>1
    <3> QED
      BY <3>2, <3>3, <3>4 DEF TypeOK, Goto, taskVars, Places, Holding
  <2> QED
    BY <1>14, <2>1, MovesKeepQueued DEF RunStarts, Joinable, Goto, Holding, Held
<1>15. CASE StopReturns
  <2>1. TypeOK'
    BY <1>15 DEF StopReturns, TypeOK, Goto, taskVars, Places, Holding
  <2> QED
    BY <1>15, <2>1, MovesKeepQueued DEF StopReturns, Running, Goto, Holding, Held
<1>16. CASE UNCHANGED vars
  <2>1. TypeOK'
    BY <1>16 DEF vars, taskVars, TypeOK
  <2> QED
    BY <1>16, <2>1, MovesKeepQueued DEF vars, Holding, Held, TakenIsCurrent
<1> QED
  BY <1>1, <1>2, <1>3, <1>4, <1>5, <1>6, <1>7, <1>8, <1>9, <1>10, <1>11, <1>12, <1>13,
     <1>14, <1>15, <1>16, <1>17 DEF Next, LoopStep

\* Unless the loop was asked to stop, what it has taken is due.
TakenIsDue ==
    loop.at \in {"lookup", "fetched", "checked", "job"} /\ ~stopRequested
      => task[loop.tid.hndl].next <= now

\* A loop may run one turn early: the one it takes when it is stopped.
MayRunEarly == Running /\ ~(stopRequested /\ loop.at \in {"top", "rearm"})

\* How many turns may have run early.
Early == IF MayRunEarly THEN starts - 1 ELSE starts

RunningIsCounted == Running => starts > 0

NearEnough ==
    /\ RunningIsCounted
    /\ \A h \in Handles : task[h].next <= now + Interval[h] * (1 + Early)

\* The more turns a task had at this instant, the later its next one.  While
\* the job of the last turn runs, that turn does not count yet.
Behind(h) == IF loop.at = "job" /\ loop.tid.hndl = h THEN 3 ELSE 2

CatchesUpBy(h, n, b) ==
    /\ n <= 3
    /\ n = 1 /\ b = 2 => task[h].next >= now - Interval[h]
    /\ n = 2 /\ b = 2 => task[h].next >= now
    /\ n = 2 /\ b = 3 => task[h].next >= now - Interval[h]
    /\ n = 3 /\ b = 2 => task[h].next >= now + Interval[h]
    /\ n = 3 /\ b = 3 => task[h].next >= now

CatchesUp(h) ==
    /\ CatchesUpBy(h, turns[h], Behind(h))
    /\ ~task[h].started => turns[h] = 0

TurnsCatchUp == \A h \in Handles : CatchesUp(h)

Timed ==
    /\ TakenIsDue
    /\ NearEnough
    /\ TurnsCatchUp

\* The steps that are no step of a turn: they change neither the times nor whose
\* turn it is, a stop that was asked of a loop stays, and the turns are
\* forgotten when time passes.
Calm ==
    /\ \A h \in Handles : task'[h].next = task[h].next /\ task'[h].started = task[h].started
    /\ loop.at \in {"checked", "job"} => loop' = loop
    /\ loop'.at \in {"checked", "job"} => loop' = loop
    /\ loop.at \in {"lookup", "fetched", "checked", "job"} /\ stopRequested => stopRequested'
    /\ \/ now' = now /\ turns' = turns
       \/ now' > now /\ turns' = [h \in Handles |-> 0]

LEMMA OtherStepsAreCalm ==
    ASSUME Queued, [Next]_vars, ~BeginTurn, ~StartJob, ~JobEnds
    PROVE  Calm
<1>1. now \in Nat /\ task \in [Handles -> TaskType]
  BY DEF Queued, TypeOK
<1>2. CASE \E h \in Handles : RemoveTask(h)
  <2>1. PICK h \in Handles : RemoveTask(h)
    BY <1>2
  <2> QED
    BY <1>1, <2>1 DEF RemoveTask, Calm, TaskType
<1>3. CASE AddTask \/ UNCHANGED vars
  BY <1>3 DEF AddTask, vars, taskVars, Calm
<1>4. CASE LoopStops \/ LoopFindsNothing \/ LoopWakesForAny \/ SkipJob \/ Rearm
  BY <1>4 DEF LoopStops, LoopFindsNothing, LoopWakesForAny, SkipJob, Rearm, Goto, taskVars, Calm
<1>5. CASE LoopTakesTop
  BY <1>5 DEF LoopTakesTop, Goto, Calm
<1>6. CASE LoopWakes
  BY <1>6 DEF LoopWakes, Goto, Calm
<1>7. CASE Lookup
  BY <1>7 DEF Lookup, Goto, taskVars, Calm
<1>8. CASE Run \/ RunAlreadyStarted \/ StopAsync \/ Stop
  <2>1. UNCHANGED <<now, taskVars, loop, turns>>
    BY <1>8 DEF Run, RunAlreadyStarted, StopAsync, Stop
  <2>2. loop.at \in {"lookup", "fetched", "checked", "job"} /\ stopRequested => stopRequested'
    BY <1>8 DEF Run, RunAlreadyStarted, StopAsync, Stop, Joinable
  <2> QED
    BY <2>1, <2>2 DEF taskVars, Calm
<1>9. CASE RunStarts
  BY <1>9 DEF RunStarts, Joinable, Goto, taskVars, Calm
<1>10. CASE StopReturns
  BY <1>10 DEF StopReturns, Running, Goto, taskVars, Calm
<1>11. CASE Tick
  BY <1>1, <1>11 DEF Tick, taskVars, Calm
<1> QED
  BY <1>2, <1>3, <1>4, <1>5, <1>6, <1>7, <1>8, <1>9, <1>10, <1>11 DEF Next, LoopStep

LEMMA StepKeepsTakenIsDue == Queued /\ TakenIsDue /\ [Next]_vars => TakenIsDue'
<1> SUFFICES ASSUME Queued, TakenIsDue, [Next]_vars,
                    loop'.at \in {"lookup", "fetched", "checked", "job"},
                    ~stopRequested'
             PROVE  task'[loop'.tid.hndl].next <= now'
  BY DEF TakenIsDue
<1>1. now \in Nat /\ task \in [Handles -> TaskType] /\ taskQueue \subseteq Entry
  BY DEF Queued, TypeOK
<1>2. CASE BeginTurn
  <2> DEFINE h == loop.tid.hndl
  <2>1. /\ loop.at = "fetched" /\ loop'.tid = loop.tid
        /\ now' = now /\ stopRequested' = stopRequested
    BY <1>2 DEF BeginTurn, Goto
  <2>2. h \in Handles /\ task' = [task EXCEPT ![h] = Started(h)]
    BY <1>2, BeginTurnChanges
  <2>3. task'[h] = Started(h)
    BY <1>1, <2>2
  <2>4. Started(h).next <= now
    BY <1>1, <2>1, <2>2 DEF Started, TakenIsDue, TaskType
  <2> QED
    BY <2>1, <2>3, <2>4
<1>7. CASE StartJob
  BY <1>7 DEF StartJob, Goto, taskVars, TakenIsDue
<1>3. CASE JobEnds
  BY <1>3 DEF JobEnds, Goto
<1>4. CASE LoopTakesTop
  <2>1. PICK e \in taskQueue :
            IF e.nextRun > now
            THEN Goto("waitUntil", e) /\ UNCHANGED taskQueue
            ELSE Goto("lookup", e) /\ taskQueue' = taskQueue \ {e}
    BY <1>4 DEF LoopTakesTop
  <2>2. ~(e.nextRun > now) /\ loop'.tid = e
    BY <2>1 DEF Goto
  <2>3. e.nextRun = task[e.hndl].next /\ e.nextRun \in Nat
    BY <1>1 DEF Queued, QueueIsCurrent, Entry
  <2> QED
    BY <1>1, <1>4, <2>2, <2>3 DEF LoopTakesTop
<1>5. CASE LoopWakes
  <2>1. PICK e \in taskQueue :
            /\ IsTop(e)
            /\ IF e.hndl = loop.tid.hndl
               THEN Goto("lookup", loop.tid) /\ taskQueue' = taskQueue \ {e}
               ELSE Goto("top", Nothing) /\ UNCHANGED taskQueue
    BY <1>5 DEF LoopWakes
  <2>2. e.hndl = loop.tid.hndl /\ loop'.tid = loop.tid
    BY <2>1 DEF Goto
  <2>3. e = loop.tid
    BY <1>5, <2>2 DEF LoopWakes, Queued, TakenIsCurrent, EachTaskQueuedOnce
  <2>4. e.nextRun = task[e.hndl].next /\ e.nextRun \in Nat /\ e.hndl \in Nat
    BY <1>1, HandlesAreNumbers DEF Queued, QueueIsCurrent, Entry
  <2>5. ~ \E f \in taskQueue : IsTop(f) /\ Earlier(f, e)
    <3> SUFFICES ASSUME NEW f \in taskQueue, IsTop(f), Earlier(f, e)
                 PROVE  FALSE
      OBVIOUS
    <3>1. f.nextRun \in Nat /\ f.hndl \in Nat
      BY <1>1, HandlesAreNumbers DEF Entry
    <3>2. e = f \/ Earlier(e, f)
      BY <2>1 DEF IsTop
    <3> QED
      BY <2>4, <3>1, <3>2 DEF Earlier
  <2>6. now >= e.nextRun
    BY <1>5, <2>3, <2>5 DEF LoopWakes, Wakes
  <2> QED
    BY <1>1, <1>5, <2>2, <2>3, <2>4, <2>6 DEF LoopWakes
<1>6. CASE ~BeginTurn /\ ~StartJob /\ ~JobEnds /\ ~LoopTakesTop /\ ~LoopWakes
  <2>1. Calm
    BY <1>6, OtherStepsAreCalm
  <2>2. loop.at \in {"lookup", "fetched", "checked", "job"} /\ loop'.tid = loop.tid
    BY <1>6 DEF Next, LoopStep, AddTask, RemoveTask, LoopStops, LoopFindsNothing, LoopWakesForAny,
          Lookup, SkipJob, Rearm, Run, RunAlreadyStarted, RunStarts, StopAsync, Stop, StopReturns,
          Tick, Goto, vars, taskVars
  <2>3. loop.tid.hndl \in Handles
    BY <2>2 DEF Queued, TypeOK, Holding, Entry
  <2>4. task'[loop.tid.hndl].next <= now
    BY <2>1, <2>2, <2>3 DEF Calm, TakenIsDue
  <2>5. now' >= now /\ now' \in Nat /\ task'[loop.tid.hndl].next \in Nat
    BY <1>1, <2>1, <2>3, StepKeepsQueued DEF Calm, Queued, TypeOK, TaskType
  <2> QED
    BY <1>1, <2>2, <2>4, <2>5
<1> QED
  BY <1>2, <1>3, <1>4, <1>5, <1>6, <1>7

LEMMA MoreIntervals ==
    ASSUME NEW i \in Nat, NEW a \in Nat, NEW b \in Nat, a <= b
    PROVE  /\ i * (1 + a) \in Nat
           /\ i * (1 + a) >= i
           /\ i * (1 + a) <= i * (1 + b)
           /\ i * (1 + (a + 1)) = i * (1 + a) + i
<1> DEFINE d == b - a
<1>1. d \in Nat /\ b = a + d
  OBVIOUS
<1>2. i * a \in Nat /\ i * d \in Nat
  BY <1>1
<1>3. i * (1 + a) = i + i * a /\ i * (1 + (a + 1)) = i + i * a + i
  OBVIOUS
<1>4. i * (1 + b) = i + i * a + i * d
  BY <1>1
<1> QED
  BY <1>2, <1>3, <1>4

\* A loop that may not run a task early never may again; the next one may.
LEMMA EarlyTurnsAreSpent ==
    ASSUME Queued, [Next]_vars
    PROVE  \/ starts' = starts /\ (MayRunEarly' => MayRunEarly) /\ (Running' => Running)
           \/ starts' = starts + 1
<1>1. CASE AddTask \/ Tick \/ Run \/ RunAlreadyStarted \/ UNCHANGED vars
  BY <1>1 DEF AddTask, Tick, Run, RunAlreadyStarted, vars, MayRunEarly, Running
<1>2. CASE \E h \in Handles : RemoveTask(h)
  BY <1>2 DEF RemoveTask, MayRunEarly, Running
<1>3. CASE LoopStops \/ LoopFindsNothing \/ LoopWakesForAny \/ SkipJob \/ Rearm
  BY <1>3 DEF LoopStops, LoopFindsNothing, LoopWakesForAny, SkipJob, Rearm, Goto, MayRunEarly, Running
<1>4. CASE LoopTakesTop
  BY <1>4 DEF LoopTakesTop, Goto, MayRunEarly, Running
<1>5. CASE LoopWakes
  BY <1>5 DEF LoopWakes, Goto, MayRunEarly, Running
<1>6. CASE Lookup
  BY <1>6 DEF Lookup, Goto, MayRunEarly, Running
<1>7. CASE BeginTurn \/ StartJob \/ JobEnds
  BY <1>7 DEF BeginTurn, StartJob, JobEnds, Goto, MayRunEarly, Running
<1>8. CASE StopAsync \/ Stop
  BY <1>8 DEF StopAsync, Stop, Joinable, MayRunEarly, Running
<1>9. CASE RunStarts
  BY <1>9 DEF RunStarts
<1>10. CASE StopReturns
  BY <1>10 DEF StopReturns, Goto, MayRunEarly, Running
<1> QED
  BY <1>1, <1>2, <1>3, <1>4, <1>5, <1>6, <1>7, <1>8, <1>9, <1>10 DEF Next, LoopStep

LEMMA EarlyGrows ==
    ASSUME Queued, RunningIsCounted, [Next]_vars
    PROVE  /\ RunningIsCounted'
           /\ Early \in Nat /\ Early' \in Nat
           /\ Early' >= Early
           /\ JobEnds /\ stopRequested => Early' = Early + 1
<1>1. starts \in Nat
  BY DEF Queued, TypeOK
<1>2. MayRunEarly => Running
  BY DEF MayRunEarly
<1>3. MayRunEarly' => Running'
  BY DEF MayRunEarly
<1>4. RunningIsCounted'
  BY <1>1, EarlyTurnsAreSpent DEF RunningIsCounted
<1>5. Early \in Nat /\ Early' \in Nat /\ Early' >= Early
  BY <1>1, <1>2, <1>3, <1>4, EarlyTurnsAreSpent DEF RunningIsCounted, Early
<1>6. ASSUME JobEnds, stopRequested
      PROVE  Early' = Early + 1
  <2>1. MayRunEarly /\ ~MayRunEarly' /\ starts' = starts
    BY <1>6 DEF JobEnds, Goto, MayRunEarly, Running
  <2> QED
    BY <1>1, <2>1 DEF Early
<1> QED
  BY <1>4, <1>5, <1>6

LEMMA StepKeepsNearEnough == Queued /\ TakenIsDue /\ NearEnough /\ [Next]_vars => NearEnough'
<1> SUFFICES ASSUME Queued, TakenIsDue, NearEnough, [Next]_vars
             PROVE  NearEnough'
  OBVIOUS
<1>1. /\ RunningIsCounted'
      /\ Early \in Nat /\ Early' \in Nat
      /\ Early' >= Early
      /\ JobEnds /\ stopRequested => Early' = Early + 1
  BY EarlyGrows DEF NearEnough
<1>2. Queued'
  BY StepKeepsQueued
<1> SUFFICES ASSUME NEW h \in Handles
             PROVE  task'[h].next <= now' + Interval[h] * (1 + Early')
  BY <1>1 DEF NearEnough
<1> DEFINE inv == Interval[h]
<1> DEFINE allowed == inv * (1 + Early)
<1> DEFINE allowed2 == inv * (1 + Early')
<1>3. inv \in Nat
  BY SchedulerAssumption
<1>4. /\ allowed \in Nat /\ allowed >= inv /\ allowed <= allowed2
      /\ inv * (1 + (Early + 1)) = allowed + inv
  BY <1>1, <1>3, MoreIntervals
<1>5. allowed2 \in Nat
  BY <1>1, <1>3, MoreIntervals
<1>6. JobEnds /\ stopRequested => allowed2 = allowed + inv
  BY <1>1, <1>4
<1>7. task[h].next <= now + allowed
  BY DEF NearEnough
<1> HIDE DEF allowed, allowed2, inv
<1>8. /\ now \in Nat /\ now' \in Nat /\ task \in [Handles -> TaskType]
      /\ task[h].next \in Nat /\ task'[h].next \in Nat
  BY <1>2 DEF Queued, TypeOK, TaskType
<1>9. CASE Calm
  BY <1>3, <1>4, <1>5, <1>7, <1>8, <1>9 DEF Calm, allowed2, inv
<1>13. CASE StartJob
  BY <1>4, <1>5, <1>7, <1>8, <1>13 DEF StartJob, taskVars, allowed2, inv
<1>10. CASE BeginTurn
  <2>1. now' = now /\ loop.tid.hndl \in Handles /\ task' = [task EXCEPT ![loop.tid.hndl] = Started(loop.tid.hndl)]
    BY <1>10, BeginTurnChanges DEF BeginTurn
  <2>2. task'[h].next \in {now, task[h].next}
    BY <1>8, <2>1 DEF Started, TaskType
  <2> QED
    BY <1>4, <1>5, <1>7, <1>8, <2>1, <2>2 DEF allowed2, inv
<1>11. CASE JobEnds /\ h = loop.tid.hndl
  <2>1. now' = now /\ task'[h].next = NextRun(h)
    BY <1>8, <1>11 DEF JobEnds, TaskType
  <2>2. NextRun(h) \in Nat /\ (NextRun(h) = task[h].next + inv \/ NextRun(h) <= now + inv)
    BY NextRunIsOneIntervalOn DEF inv
  <2>3. CASE stopRequested
    BY <1>3, <1>4, <1>5, <1>6, <1>7, <1>8, <1>11, <2>1, <2>2, <2>3 DEF allowed2, inv
  <2>4. CASE ~stopRequested
    <3>1. task[h].next <= now
      BY <1>11, <2>4 DEF TakenIsDue, JobEnds
    <3> QED
      BY <1>3, <1>4, <1>5, <1>8, <2>1, <2>2, <3>1 DEF allowed2, inv
  <2> QED
    BY <2>3, <2>4
<1>12. CASE JobEnds /\ h # loop.tid.hndl
  <2>1. now' = now /\ task'[h] = task[h]
    BY <1>8, <1>12 DEF JobEnds
  <2> QED
    BY <1>4, <1>5, <1>7, <1>8, <2>1 DEF allowed2, inv
<1> QED
  BY <1>9, <1>10, <1>11, <1>12, <1>13, OtherStepsAreCalm

LEMMA StepKeepsTurnsCatchUp == Queued /\ TurnsCatchUp /\ [Next]_vars => TurnsCatchUp'
<1> SUFFICES ASSUME Queued, TurnsCatchUp, [Next]_vars
             PROVE  TurnsCatchUp'
  OBVIOUS
<1>1. Queued'
  BY StepKeepsQueued
<1> SUFFICES ASSUME NEW h \in Handles
             PROVE  CatchesUp(h)'
  BY DEF TurnsCatchUp
<1>2. CatchesUp(h)
  BY DEF TurnsCatchUp
<1> DEFINE inv == Interval[h]
<1>3. inv \in Nat \ {0}
  BY SchedulerAssumption
<1>4. /\ now \in Nat /\ task \in [Handles -> TaskType] /\ turns \in [Handles -> Nat]
      /\ task[h].next \in Nat /\ task'[h].next \in Nat /\ turns[h] \in Nat
  BY <1>1 DEF Queued, TypeOK, TaskType
<1> HIDE DEF inv
<1>5. CASE Calm
  <2>1. Behind(h)' = Behind(h)
    BY <1>5 DEF Calm, Behind
  <2>2. CASE now' = now /\ turns' = turns
    BY <1>2, <1>5, <2>1, <2>2 DEF Calm, CatchesUp, CatchesUpBy
  <2>3. CASE turns' = [k \in Handles |-> 0]
    <3>1. turns'[h] = 0
      BY <2>3
    <3> QED
      BY <3>1 DEF CatchesUp, CatchesUpBy
  <2> QED
    BY <1>5, <2>2, <2>3 DEF Calm
<1>6. CASE (BeginTurn \/ StartJob) /\ h # loop.tid.hndl
  <2>1. Behind(h) = 2 /\ Behind(h)' = 2
    BY <1>6 DEF BeginTurn, StartJob, Goto, Behind
  <2>2. now' = now /\ task'[h] = task[h] /\ turns'[h] = turns[h]
    BY <1>4, <1>6, BeginTurnChanges DEF BeginTurn, StartJob, taskVars
  <2> QED
    BY <1>2, <2>1, <2>2 DEF CatchesUp, CatchesUpBy
<1>7. CASE BeginTurn /\ h = loop.tid.hndl
  <2>1. Behind(h) = 2 /\ Behind(h)' = 2 /\ now' = now /\ turns' = turns
    BY <1>7 DEF BeginTurn, Goto, Behind
  <2>2. task'[h] = Started(h)
    BY <1>4, <1>7, BeginTurnChanges
  <2>3. CASE ~task[h].started
    <3>1. turns[h] = 0 /\ turns'[h] = 0
      BY <1>2, <2>1, <2>3 DEF CatchesUp
    <3> QED
      BY <3>1 DEF CatchesUp, CatchesUpBy
  <2>4. CASE task[h].started
    <3>1. task'[h] = task[h]
      BY <2>2, <2>4 DEF Started
    <3> QED
      BY <1>2, <2>1, <3>1 DEF CatchesUp, CatchesUpBy
  <2> QED
    BY <2>3, <2>4
<1>10. CASE StartJob /\ h = loop.tid.hndl
  <2>1. Behind(h) = 2 /\ Behind(h)' = 3 /\ now' = now /\ task' = task
    BY <1>10 DEF StartJob, Goto, taskVars, Behind
  <2>2. turns'[h] = IF task[h].next <= now THEN turns[h] + 1 ELSE turns[h]
    BY <1>4, <1>10 DEF StartJob
  <2>3. task[h].started
    BY <1>10 DEF StartJob, Queued, TakenIsCurrent
  <2>4. CatchesUpBy(h, turns[h], 2)
    BY <1>2, <2>1 DEF CatchesUp
  <2>5. CatchesUpBy(h, turns'[h], 3)
    BY <1>3, <1>4, <2>2, <2>4 DEF CatchesUpBy, inv
  <2> QED
    BY <2>1, <2>3, <2>5 DEF CatchesUp, CatchesUpBy
<1>8. CASE JobEnds /\ h # loop.tid.hndl
  <2>1. Behind(h) = 2 /\ Behind(h)' = 2
    BY <1>8 DEF JobEnds, Goto, Behind
  <2>2. now' = now /\ task'[h] = task[h] /\ turns'[h] = turns[h]
    BY <1>4, <1>8 DEF JobEnds
  <2> QED
    BY <1>2, <2>1, <2>2 DEF CatchesUp, CatchesUpBy
<1>9. CASE JobEnds /\ h = loop.tid.hndl
  <2>1. Behind(h) = 3 /\ Behind(h)' = 2 /\ now' = now /\ turns' = turns
    BY <1>9 DEF JobEnds, Goto, Behind
  <2>2. task'[h].next = NextRun(h) /\ task'[h].started = task[h].started
    BY <1>4, <1>9 DEF JobEnds, TaskType
  <2>3. /\ NextRun(h) \in Nat
        /\ \/ NextRun(h) = task[h].next + inv /\ task[h].next + inv >= now - inv
           \/ NextRun(h) > now /\ task[h].next < now - inv
    BY <1>3, <1>4, NextRunIsOneIntervalOn DEF inv
  <2>4. CatchesUpBy(h, turns[h], 3)
    BY <1>2, <2>1 DEF CatchesUp
  <2>5. CatchesUpBy(h, turns[h], 2)'
    BY <1>3, <1>4, <2>1, <2>2, <2>3, <2>4 DEF CatchesUpBy, inv
  <2> QED
    BY <1>2, <2>1, <2>2, <2>5 DEF CatchesUp, CatchesUpBy
<1> QED
  BY <1>5, <1>6, <1>7, <1>8, <1>9, <1>10, OtherStepsAreCalm

LEMMA InitTimed == Init => Timed
<1> SUFFICES ASSUME Init
             PROVE  Timed
  OBVIOUS
<1>1. Early = 0 /\ RunningIsCounted /\ \A h \in Handles : Behind(h) = 2
  BY DEF Init, Early, MayRunEarly, RunningIsCounted, Running, Behind
<1>2. TakenIsDue
  BY DEF Init, TakenIsDue
<1>3. NearEnough
  <2>1. \A h \in Handles : Interval[h] \in Nat /\ Interval[h] * (1 + 0) = Interval[h]
    BY SchedulerAssumption
  <2> QED
    BY <1>1, <2>1 DEF Init, NearEnough
<1>4. TurnsCatchUp
  BY DEF Init, TurnsCatchUp, CatchesUp, CatchesUpBy
<1> QED
  BY <1>2, <1>3, <1>4 DEF Timed

LEMMA QueuedAndTimed == Spec => [](Queued /\ Timed)
<1>1. Queued /\ Timed /\ [Next]_vars => (Queued /\ Timed)'
  BY StepKeepsQueued, StepKeepsTakenIsDue, StepKeepsNearEnough, StepKeepsTurnsCatchUp
     DEF Timed
<1> QED
  BY InitQueued, InitTimed, <1>1, PTL DEF Spec

\* Every reachable state has the types of the variables, whatever the tasks
\* and their periods.
THEOREM TypeCorrect == Spec => []TypeOK
<1>1. Queued => TypeOK
  BY DEF Queued
<1> QED
  BY QueuedAndTimed, <1>1, PTL

\* No task is lost or queued twice, whoever adds, removes and stops between
\* the steps of the loop: a task in the map is once in the queue or once with
\* the loop.
THEOREM TasksAreKept == Spec => []EachTaskQueuedOnce
<1>1. Queued => EachTaskQueuedOnce
  BY DEF Queued
<1> QED
  BY QueuedAndTimed, <1>1, PTL

\* The queue never holds an old time of a task.
THEOREM QueueNotStale == Spec => []QueueIsCurrent
<1>1. Queued => QueueIsCurrent
  BY DEF Queued
<1> QED
  BY QueuedAndTimed, <1>1, PTL

\* A task that was removed is cancelled, and no turn of it begins.
LEMMA BeginsLiveOnly ==
    ASSUME Queued, BeginTurn
    PROVE  loop.tid.hndl \in tasks
<1>1. loop.tid.hndl \in Handles /\ loop.tid.hndl \in Held
  BY DEF BeginTurn, Queued, TypeOK, Holding, Entry, Held
<1>2. loop.tid.hndl < globHndlCount
  <2>1. loop.tid.hndl \in Nat
    BY <1>1, HandlesAreNumbers
  <2>2. globHndlCount \in Nat
    BY SchedulerAssumption DEF Queued, TypeOK
  <2> QED
    BY <1>1, <2>1, <2>2 DEF Queued, FreshHandles
<1> QED
  BY <1>1, <1>2 DEF BeginTurn, Queued, CancelledIsRemoved

\* Only a turn that begins changes whose turn it is to another task.
LEMMA TurnsBeginOrEnd ==
    ASSUME Queued, [Next]_vars, ~BeginTurn
    PROVE  Turn' \in {Turn, 0}
<1>1. CASE StartJob
  BY <1>1 DEF StartJob, Goto, Turn
<1>2. CASE JobEnds
  BY <1>2 DEF JobEnds, Goto, Turn
<1>3. CASE ~StartJob /\ ~JobEnds
  BY <1>3, OtherStepsAreCalm DEF Calm, Turn
<1> QED
  BY <1>1, <1>2, <1>3

\* After removeTask returned there is no turn of the task but the one that had
\* begun, even if the loop has fetched the task.
THEOREM RemovalHolds == Spec => RemovedStaysAway
<1>1. ASSUME Queued, [Next]_vars, NEW h \in Handles, Gone(h)
      PROVE  Gone(h)'
  <2>1. h \in Nat \ {0} /\ globHndlCount \in Nat /\ h < globHndlCount
    BY <1>1, HandlesAreNumbers, SchedulerAssumption DEF Queued, TypeOK, Gone
  <2>2. CASE BeginTurn
    <3>1. loop.tid.hndl \in tasks /\ h \notin tasks
      BY <1>1, <2>2, BeginsLiveOnly DEF Gone
    <3> QED
      BY <2>1, <2>2, <3>1 DEF BeginTurn, Goto, Turn, Gone
  <2>3. CASE ~BeginTurn
    <3>1. Turn' # h
      BY <1>1, <2>1, <2>3, TurnsBeginOrEnd DEF Gone
    <3>2. /\ tasks' \subseteq tasks \cup {globHndlCount}
          /\ globHndlCount' \in {globHndlCount, globHndlCount + 1}
      BY <1>1 DEF Next, vars, taskVars, AddTask, RemoveTask, LoopStep, LoopStops, LoopFindsNothing,
                  LoopTakesTop, LoopWakesForAny, LoopWakes, Lookup, SkipJob, BeginTurn, StartJob, JobEnds,
                  Rearm, Run, RunAlreadyStarted, RunStarts, StopAsync, Stop, StopReturns, Tick
    <3> QED
      BY <1>1, <2>1, <3>1, <3>2 DEF Gone
  <2> QED
    BY <2>2, <2>3
<1>2. Queued /\ [Next]_vars => [\A h \in Handles : Gone(h) => Gone(h)']_vars
  BY <1>1
<1> QED
  BY QueuedAndTimed, <1>2, PTL DEF Spec, RemovedStaysAway

\* A task's next turn is at most one interval off, and one more for each loop
\* that was stopped.
THEOREM TurnsStayNear == Spec => []NextTurnIsNear
<1>1. Queued /\ Timed => NextTurnIsNear
  <2> SUFFICES ASSUME Queued, Timed, NEW h \in tasks
               PROVE  task[h].next <= now + Interval[h] * (1 + starts)
    BY DEF NextTurnIsNear
  <2>1. h \in Handles /\ starts \in Nat /\ now \in Nat /\ task[h].next \in Nat
    BY DEF Queued, TypeOK, TaskType
  <2>2. Early \in Nat /\ Early <= starts
    BY <2>1 DEF Timed, NearEnough, RunningIsCounted, Early, MayRunEarly
  <2>3. Interval[h] \in Nat
    BY <2>1, SchedulerAssumption
  <2>4. /\ Interval[h] * (1 + Early) \in Nat /\ Interval[h] * (1 + starts) \in Nat
        /\ Interval[h] * (1 + Early) <= Interval[h] * (1 + starts)
    BY <2>1, <2>2, <2>3, MoreIntervals
  <2>5. task[h].next <= now + Interval[h] * (1 + Early)
    BY <2>1 DEF Timed, NearEnough
  <2> QED
    BY <2>1, <2>4, <2>5
<1> QED
  BY QueuedAndTimed, <1>1, PTL

\* However late the loop is, no task has more than three turns at one instant.
THEOREM BurstsArePrevented == Spec => []NoBurst
<1>1. Timed => NoBurst
  BY DEF Timed, TurnsCatchUp, CatchesUp, CatchesUpBy, NoBurst
<1> QED
  BY QueuedAndTimed, <1>1, PTL
-----------------------------------------------------------------------------
\* What users are promised.

LEMMA MultiplesLeaveNothing ==
    ASSUME NEW i \in Nat \ {0}, NEW k \in Int
    PROVE  (i * k) % i = 0
<1> DEFINE p == i * k
           q == p \div i
           r == p % i
           d == k - q
<1>1. p \in Int
  OBVIOUS
<1> HIDE DEF p
<1>2. q \in Int /\ r \in 0..(i - 1) /\ p = i * q + r
  BY <1>1
<1> HIDE DEF q, r
<1>3. d \in Int /\ k = q + d
  BY <1>2
<1> HIDE DEF d
<1>4. p = i * q + i * d
  BY <1>2, <1>3 DEF p
<1>5. i * d \in Int /\ i * q \in Int
  BY <1>2, <1>3
<1>6. i * d = r
  BY <1>2, <1>4, <1>5
<1>7. CASE d = 0
  <2>1. r = 0
    BY <1>6, <1>7
  <2> QED
    BY <2>1 DEF p, r
<1>8. CASE d >= 1
  <2>1. d - 1 \in Nat /\ i * d = i + i * (d - 1) /\ i * (d - 1) \in Nat
    BY <1>3, <1>8
  <2> QED
    BY <1>2, <1>6, <2>1
<1>9. CASE d <= -1
  <2>1. -d \in Nat /\ -d - 1 \in Nat
    BY <1>3, <1>9
  <2>2. i * (-d - 1) \in Nat /\ i * d = -(i + i * (-d - 1))
    BY <1>3, <2>1
  <2> QED
    BY <1>2, <1>6, <2>2
<1> QED
  BY <1>3, <1>7, <1>8, <1>9

\* The plan of a task moves by multiples of its period.
LEMMA NextRunIsMultiple ==
    ASSUME Queued, NEW h \in Handles
    PROVE  (NextRun(h) - task[h].next) % Interval[h] = 0
<1> DEFINE inv == Interval[h]
           next == task[h].next
           gap == now - (next + inv)
           q == gap \div inv
           rest == gap % inv
<1>1. inv \in Nat \ {0}
  BY SchedulerAssumption
<1>2. now \in Nat /\ next \in Nat
  BY DEF Queued, TypeOK, TaskType
<1>3. NextRun(h) = IF gap > inv THEN now + inv - rest ELSE next + inv
  BY DEF NextRun
<1> HIDE DEF inv, next
<1>4. gap \in Int
  BY <1>1, <1>2
<1>5. now = gap + next + inv
  BY <1>1, <1>2
<1> HIDE DEF gap
<1>6. q \in Int /\ rest \in Int /\ gap = inv * q + rest
  BY <1>1, <1>4
<1> HIDE DEF q, rest
<1>7. inv * q \in Int /\ inv * (q + 2) = inv * q + inv + inv /\ inv * 1 = inv
  BY <1>1, <1>6
<1>8. NextRun(h) - next = inv * (q + 2) \/ NextRun(h) - next = inv * 1
  BY <1>1, <1>2, <1>3, <1>4, <1>5, <1>6, <1>7
<1>9. (inv * (q + 2)) % inv = 0 /\ (inv * 1) % inv = 0
  <2>1. q + 2 \in Int
    BY <1>6
  <2> QED
    BY <1>1, <2>1, MultiplesLeaveNothing
<1>10. (NextRun(h) - next) % inv = 0
  BY <1>8, <1>9
<1> QED
  BY <1>10 DEF inv, next

Plan == [h \in Handles |-> task[h].next]
Known == {h \in Handles : h < globHndlCount}
Begun == {h \in Handles : task[h].started}

LEMMA InitIsPromised == Init => PeriodicTasks!Init
<1> SUFFICES ASSUME Init
             PROVE  PeriodicTasks!Init
  OBVIOUS
<1>1. now = 1 /\ globHndlCount = 1 /\ tasks = {} /\ loop.at = "none" /\ \A h \in Handles : task[h].next = 0 /\ ~task[h].started
  BY DEF Init
<1>2. Known = {}
  BY <1>1, HandlesAreNumbers, SchedulerAssumption DEF Known, Handles
<1>3. Begun = {} /\ Plan = [h \in Handles |-> 0]
  BY <1>1 DEF Begun, Plan
<1>4. Turn = 0 /\ Mode = "off"
  BY <1>1 DEF Turn, Mode, Running
<1> QED
  BY <1>1, <1>2, <1>3, <1>4 DEF PeriodicTasks!Init, Known, Begun, Plan

\* The turn of a task begins, as users see it.
LEMMA BeginningIsPromised ==
    ASSUME Queued, TakenIsDue, BeginTurn
    PROVE  /\ loop.tid.hndl \in tasks
           /\ PeriodicTasks!TurnBegins(loop.tid.hndl)
<1> DEFINE h == loop.tid.hndl
<1>1. h \in Handles /\ h \in Held /\ now \in Nat /\ task \in [Handles -> TaskType]
  BY DEF BeginTurn, Queued, TypeOK, Holding, Entry, Held
<1>2. h \in tasks
  BY BeginsLiveOnly
<1>3. Plan' = IF h \in Begun THEN Plan ELSE [Plan EXCEPT ![h] = now]
  <2>1. CASE task[h].started
    BY <1>1, <2>1 DEF BeginTurn, Plan, Begun
  <2>2. CASE ~task[h].started
    BY <1>1, <2>2 DEF BeginTurn, Plan, Begun, TaskType
  <2> QED
    BY <2>1, <2>2
<1>4. Begun' = Begun \cup {h}
  BY <1>1 DEF BeginTurn, Begun, TaskType
<1>5. loop.at = "fetched" /\ loop'.at = "checked" /\ loop'.tid = loop.tid /\ stopRequested' = stopRequested
  BY DEF BeginTurn, Goto
<1>6. h # 0
  BY <1>1, HandlesAreNumbers
<1>7. Turn = 0 /\ Turn' = h
  BY <1>5 DEF Turn
<1>8. \/ Mode = "on" /\ Plan[h] <= now /\ Mode' = "on"
      \/ Mode = "lastTurn" /\ Mode' = "off"
  <2>1. CASE stopRequested
    BY <2>1, <1>5 DEF Mode, Running
  <2>2. CASE ~stopRequested
    BY <2>2, <1>1, <1>5 DEF Mode, Running, TakenIsDue, Plan
  <2> QED
    BY <2>1, <2>2
<1>9. UNCHANGED <<now, Known, tasks>>
  BY DEF BeginTurn, Known
<1> QED
  BY <1>2, <1>3, <1>4, <1>7, <1>8, <1>9 DEF PeriodicTasks!TurnBegins, Plan, Begun, Known

\* It ends, and the next one is planned.
LEMMA EndIsPromised ==
    ASSUME Queued, JobEnds
    PROVE  PeriodicTasks!TurnEnds
<1> DEFINE h == loop.tid.hndl
<1>1. h \in Handles /\ now \in Nat /\ task \in [Handles -> TaskType] /\ task[h].next \in Nat
  BY DEF JobEnds, Queued, TypeOK, Holding, Entry, TaskType
<1>2. loop.at = "job" /\ loop'.at = "rearm" /\ stopRequested' = stopRequested
  BY DEF JobEnds, Goto
<1>3. h # 0 /\ Turn = h /\ Turn' = 0
  BY <1>1, <1>2, HandlesAreNumbers DEF Turn
<1>4. Mode' = Mode
  BY <1>2 DEF Mode, Running
<1>5. Plan' = [Plan EXCEPT ![h] = NextRun(h)] /\ Begun' = Begun
  BY <1>1 DEF JobEnds, Plan, Begun, TaskType
<1>6. Plan'[h] = NextRun(h) /\ Plan[h] = task[h].next
  BY <1>1, <1>5 DEF Plan
<1>7. UNCHANGED <<now, Known, tasks>>
  BY DEF JobEnds, Known
<1>8. PeriodicTasks!NextTurnAt(h, NextRun(h))
  <2> DEFINE inv == Interval[h]
             next == task[h].next
  <2>1. /\ inv \in Nat \ {0} /\ next \in Nat /\ now \in Nat
        /\ NextRun(h) \in Nat
        /\ \/ NextRun(h) = next + inv /\ next + inv >= now - inv
           \/ NextRun(h) > now /\ NextRun(h) <= now + inv /\ next + inv < now - inv
    BY <1>1, NextRunIsOneIntervalOn
  <2>2. (NextRun(h) - next) % inv = 0
    BY <1>1, NextRunIsMultiple
  <2>3. Plan[h] = next
    BY <1>6
  <2> HIDE DEF inv, next
  <2> QED
    BY <2>1, <2>2, <2>3 DEF PeriodicTasks!NextTurnAt, Plan, inv
<1> QED
  BY <1>3, <1>4, <1>5, <1>6, <1>7, <1>8 DEF PeriodicTasks!TurnEnds, Plan, Begun, Known

\* Steps that neither begin nor end a turn: a loop that is asked to stop has one
\* turn left, where it waits for a task or has taken one.
LEMMA OthersArePromised ==
    ASSUME Queued, [Next]_vars, ~BeginTurn, ~JobEnds
    PROVE  [PeriodicTasks!Next]_<<now, Known, tasks, Begun, Plan, Turn, Mode>>
<1> DEFINE same == UNCHANGED <<Begun, Plan, Turn>>
<1>1. same
  <2>5. CASE StartJob
    BY <2>5 DEF StartJob, Goto, taskVars, Turn, Begun, Plan
  <2> SUFFICES ASSUME ~StartJob
               PROVE  same
    BY <2>5
  <2>1. task \in [Handles -> TaskType] /\ task' \in [Handles -> TaskType]
    BY StepKeepsQueued DEF Queued, TypeOK
  <2>2. Calm
    BY OtherStepsAreCalm
  <2>3. Begun' = Begun /\ Plan' = Plan
    BY <2>1, <2>2 DEF Calm, Begun, Plan
  <2>4. Turn' = Turn
    BY <2>2 DEF Calm, Turn
  <2> QED
    BY <2>3, <2>4
<1> HIDE DEF same
<1>2. CASE AddTask
  <2> DEFINE h == globHndlCount
  <2>1. h \in Handles /\ h \notin Known /\ Known' = Known \cup {h}
    BY <1>2, SchedulerAssumption DEF AddTask, Known, Handles
  <2>2. tasks' = tasks \cup {h} /\ UNCHANGED <<now, Mode>>
    BY <1>2 DEF AddTask, Mode, Running
  <2> QED
    BY <1>1, <2>1, <2>2 DEF same, PeriodicTasks!Next, PeriodicTasks!Add, Known, Plan, Begun
<1>3. CASE \E h \in Handles : RemoveTask(h)
  <2>1. PICK h \in Handles : RemoveTask(h)
    BY <1>3
  <2>2. h \in tasks /\ tasks' = tasks \ {h} /\ UNCHANGED <<now, Known, Mode>>
    BY <2>1 DEF RemoveTask, Known, Mode, Running
  <2> QED
    BY <1>1, <2>2 DEF same, PeriodicTasks!Next, PeriodicTasks!Remove, Known, Plan, Begun
<1>4. CASE UNCHANGED <<now, Known, tasks>> /\ Turn = 0 /\ Mode = "off" /\ Mode' = "on"
  BY <1>1, <1>4 DEF same, PeriodicTasks!Next, PeriodicTasks!Start, Known, Plan, Begun
<1>5. CASE UNCHANGED <<now, Known, tasks>> /\ Mode # "off" /\ Mode' \in {"lastTurn", "off"}
  BY <1>1, <1>5 DEF same, PeriodicTasks!Next, PeriodicTasks!StopAsked, Known, Plan, Begun
<1>6. CASE UNCHANGED <<now, Known, tasks, Mode>>
  BY <1>1, <1>6 DEF same, Known, Plan, Begun
<1>7. CASE Tick
  <2>1. now' > now /\ UNCHANGED <<Known, tasks, Mode>>
    BY <1>7 DEF Tick, taskVars, Known, Mode, Running, Queued, TypeOK
  <2> QED
    BY <1>1, <2>1 DEF same, PeriodicTasks!Next, PeriodicTasks!TimePasses, Known, Plan, Begun
<1>8. CASE LoopStep
  <2>1. UNCHANGED <<now, Known, tasks>> /\ stopRequested' = stopRequested
    BY <1>8 DEF LoopStep, LoopStops, LoopFindsNothing, LoopTakesTop, LoopWakesForAny, LoopWakes,
                Lookup, SkipJob, StartJob, JobEnds, Rearm, taskVars, Known
  <2>2. Running
    BY <1>8 DEF LoopStep, LoopStops, LoopFindsNothing, LoopTakesTop, LoopWakesForAny, LoopWakes,
                Lookup, SkipJob, StartJob, JobEnds, Rearm, Running
  <2>3. ~stopRequested => Running'
    BY <1>8 DEF LoopStep, LoopStops, LoopFindsNothing, LoopTakesTop, LoopWakesForAny, LoopWakes,
                Lookup, SkipJob, StartJob, JobEnds, Rearm, Running, Goto
  <2>4. stopRequested /\ loop.at \notin {"waitUntil", "lookup", "fetched"}
          => loop'.at \notin {"waitUntil", "lookup", "fetched"}
    <3>1. CASE LoopStops \/ LoopFindsNothing \/ LoopWakesForAny \/ Rearm
      <4>1. loop'.at \in {"exited", "waitAny", "top"}
        BY <3>1 DEF LoopStops, LoopFindsNothing, LoopWakesForAny, Rearm, Goto
      <4> QED
        BY <4>1
    <3>2. CASE LoopTakesTop
      BY <3>2 DEF LoopTakesTop
    <3>3. CASE LoopWakes \/ Lookup \/ SkipJob
      BY <3>3 DEF LoopWakes, Lookup, SkipJob
    <3>4. CASE StartJob
      BY <3>4 DEF StartJob, Goto
    <3> QED
      BY <1>8, <3>1, <3>2, <3>3, <3>4 DEF LoopStep
  <2>5. Mode' = Mode \/ (Mode # "off" /\ Mode' \in {"lastTurn", "off"})
    BY <2>1, <2>2, <2>3, <2>4 DEF Mode
  <2> QED
    BY <1>5, <1>6, <2>1, <2>5
<1>9. CASE Run \/ RunAlreadyStarted
  BY <1>6, <1>9 DEF Run, RunAlreadyStarted, taskVars, Known, Mode, Running
<1>10. CASE RunStarts
  <2>1. UNCHANGED <<now, Known, tasks>>
    BY <1>10 DEF RunStarts, taskVars, Known
  <2>2. loop.at = "none" /\ loop'.at = "top" /\ stopRequested' = FALSE
    BY <1>10 DEF RunStarts, Joinable, Goto
  <2>3. Turn = 0 /\ Mode = "off" /\ Mode' = "on"
    BY <2>2 DEF Turn, Mode, Running
  <2> QED
    BY <1>4, <2>1, <2>3
<1>11. CASE StopAsync \/ Stop
  <2>1. UNCHANGED <<now, Known, tasks, loop>> /\ stopRequested' = Joinable
    BY <1>11 DEF StopAsync, Stop, taskVars, Known
  <2>2. CASE ~Running
    BY <1>6, <2>1, <2>2 DEF Mode, Running
  <2>3. CASE Running
    <3>1. stopRequested' /\ Mode' \in {"lastTurn", "off"}
      BY <2>1, <2>3 DEF Joinable, Mode, Running
    <3>2. Mode' = Mode \/ Mode # "off"
      BY <2>1, <2>3, <3>1 DEF Mode, Running
    <3> QED
      BY <1>5, <1>6, <2>1, <3>1, <3>2
  <2> QED
    BY <2>2, <2>3
<1>12. CASE StopReturns
  <2>1. UNCHANGED <<now, Known, tasks>> /\ ~Running /\ ~Running'
    BY <1>12 DEF StopReturns, taskVars, Known, Running, Goto
  <2> QED
    BY <1>6, <2>1 DEF Mode
<1>13. CASE UNCHANGED vars
  BY <1>6, <1>13 DEF vars, taskVars, Known, Mode, Running
<1> QED
  BY <1>2, <1>3, <1>7, <1>8, <1>9, <1>10, <1>11, <1>12, <1>13 DEF Next

\* Whoever adds a task gets what PeriodicTasks says, for any number of tasks, all
\* periods, all delays of the loop and any number of stops and starts.
THEOREM ImplementsPeriodicTasks == Spec => PeriodsAreKept
<1>1. Init => PeriodicTasks!Init
  BY InitIsPromised
<1>2. Queued /\ Timed /\ [Next]_vars
        => [PeriodicTasks!Next]_<<now, Known, tasks, Begun, Plan, Turn, Mode>>
  <2> SUFFICES ASSUME Queued, Timed, [Next]_vars
               PROVE  [PeriodicTasks!Next]_<<now, Known, tasks, Begun, Plan, Turn, Mode>>
    OBVIOUS
  <2>1. CASE BeginTurn
    <3>1. PeriodicTasks!TurnBegins(loop.tid.hndl) /\ loop.tid.hndl \in tasks
      BY <2>1, BeginningIsPromised DEF Timed
    <3>2. \E h \in tasks : PeriodicTasks!TurnBegins(h)
      BY <3>1 DEF PeriodicTasks!TurnBegins
    <3> QED
      BY <3>2 DEF PeriodicTasks!Next
  <2>2. CASE JobEnds
    <3>1. PeriodicTasks!TurnEnds
      BY <2>2, EndIsPromised
    <3> QED
      BY <3>1 DEF PeriodicTasks!Next
  <2> QED
    BY <2>1, <2>2, OthersArePromised
<1> QED
  BY <1>1, <1>2, QueuedAndTimed, PTL
     DEF Spec, PeriodsAreKept, PeriodicTasks!Spec, PeriodicTasks!vars, Known, Begun, Plan
=============================================================================
