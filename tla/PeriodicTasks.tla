---------------------------- MODULE PeriodicTasks ----------------------------
(***************************************************************************)
(* What TScheduler promises to those who add tasks.  Jobs run one at a     *)
(* time.  No turn of a task begins after it was removed; one that has      *)
(* begun goes on, and its job may not even have been entered yet.  The     *)
(* turns of a task are planned at multiples of its period from its first   *)
(* turn, and none begins before its time, with one exception: after a stop *)
(* was asked one more turn may begin, due or not, and then none until the  *)
(* next start.  A task that is late catches up or skips the turns it       *)
(* missed, but no other.                                                   *)
(***************************************************************************)
EXTENDS Integers

CONSTANTS
    Handles,
    Interval    \* the period of each task

VARIABLES
    now,
    known,      \* the tasks that were ever added
    live,       \* those that were not removed
    begun,      \* those that had a turn
    plan,       \* the time of each task's next turn, and while it has it, of this one
    turn,       \* the task whose turn it is, or 0
    mode        \* "on", "lastTurn" when a stop was asked, "off"

vars == <<now, known, live, begun, plan, turn, mode>>

Init ==
    /\ now = 1
    /\ known = {}
    /\ live = {}
    /\ begun = {}
    /\ plan = [h \in Handles |-> 0]
    /\ turn = 0
    /\ mode = "off"

Add ==
    /\ \E h \in Handles \ known : known' = known \cup {h} /\ live' = live \cup {h}
    /\ UNCHANGED <<now, begun, plan, turn, mode>>

Remove ==
    /\ \E h \in live : live' = live \ {h}
    /\ UNCHANGED <<now, known, begun, plan, turn, mode>>

\* The first turn is where the multiples are counted from.
TurnBegins(h) ==
    /\ turn = 0
    /\ \/ mode = "on" /\ plan[h] <= now /\ mode' = "on"
       \/ mode = "lastTurn" /\ mode' = "off"
    /\ turn' = h
    /\ plan' = IF h \in begun THEN plan ELSE [plan EXCEPT ![h] = now]
    /\ begun' = begun \cup {h}
    /\ UNCHANGED <<now, known, live>>

\* t is on the same multiples as the plan of h and later; it leaves out only
\* turns that are over an interval late, and up to now.
NextTurnAt(h, t) ==
    /\ t > plan[h]
    /\ (t - plan[h]) % Interval[h] = 0
    /\ t = plan[h] + Interval[h] \/ (plan[h] + Interval[h] < now - Interval[h] /\ t <= now + Interval[h])
    /\ t >= now - Interval[h]

TurnEnds ==
    /\ turn # 0
    /\ turn' = 0
    /\ plan' = [plan EXCEPT ![turn] = plan'[turn]]
    /\ NextTurnAt(turn, plan'[turn])
    /\ UNCHANGED <<now, known, live, begun, mode>>

Start ==
    /\ mode = "off"
    /\ turn = 0
    /\ mode' = "on"
    /\ UNCHANGED <<now, known, live, begun, plan, turn>>

\* A stop is asked, or the loop has seen it.
StopAsked ==
    /\ mode # "off"
    /\ mode' \in {"lastTurn", "off"}
    /\ UNCHANGED <<now, known, live, begun, plan, turn>>

TimePasses ==
    /\ now' > now
    /\ UNCHANGED <<known, live, begun, plan, turn, mode>>

Next ==
    \/ Add
    \/ Remove
    \/ \E h \in live : TurnBegins(h)
    \/ TurnEnds
    \/ Start
    \/ StopAsked
    \/ TimePasses

Spec == Init /\ [][Next]_vars
=============================================================================
