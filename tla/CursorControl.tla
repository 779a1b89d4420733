---------------------------- MODULE CursorControl ----------------------------
(***************************************************************************)
(* GCursorControl and its Wayland backend: the lock of the pointer.  The   *)
(* program asks the compositor for a lock object; the compositor says      *)
(* locked and unlocked in its own time, may take its protocols away, and   *)
(* the pointer and the window's surface may be replaced.  All of it runs   *)
(* on the GUI thread, except that another thread collects the movement.    *)
(***************************************************************************)

VARIABLES
    supported,      \* the compositor offers both extensions
    seat,           \* there is a pointer
    native,         \* the window has a surface
    cursor          \* GCursorControl and its backend

envVars == <<supported, seat, native>>

NoLock == [
    lockState |-> "Unsupported",
    object |-> FALSE,       \* the lock object of the compositor
    fits |-> FALSE,         \* ... is of the pointer and the surface there are
    pending |-> FALSE,      \* _lockPending
    record |-> FALSE,       \* _recordRelativeMotion; the relative pointer exists
    moved |-> FALSE,        \* movement that was not collected
    changed |-> FALSE]      \* lockStateChanged is queued, once or more

CursorType == [
    lockState : {"Unsupported", "Unlocked", "Pending", "Locked"},
    object : BOOLEAN, fits : BOOLEAN, pending : BOOLEAN, record : BOOLEAN,
    moved : BOOLEAN, changed : BOOLEAN]

CursorTypeOK ==
    /\ supported \in BOOLEAN /\ seat \in BOOLEAN /\ native \in BOOLEAN
    /\ cursor \in CursorType

\* The control of a window that was just attached.
NewControl == [NoLock EXCEPT !.lockState = IF supported THEN "Unlocked" ELSE "Unsupported"]

-----------------------------------------------------------------------------
\* The calls, as what they make of the control c.

UpdateLockState(c, state) ==
    [c EXCEPT !.lockState = state, !.changed = @ \/ c.lockState # state]

ClearDeltaMovement(c) == [c EXCEPT !.moved = FALSE]

BackendUnlock(c) ==
    ClearDeltaMovement([c EXCEPT !.pending = FALSE, !.record = FALSE, !.object = FALSE])

Unlock(c) ==
    IF c.lockState = "Unsupported" THEN c
    ELSE UpdateLockState(BackendUnlock(c), "Unlocked")

IsStale(c) == c.object /\ (~c.fits \/ ~(c.pending \/ c.record))

Request(c) ==
    UpdateLockState(ClearDeltaMovement([c EXCEPT !.object = TRUE, !.fits = TRUE, !.pending = TRUE]),
                    "Pending")

\* An object is not replaced, even if the compositor has unlocked it.
LockKeepsObject(c) ==
    IF ~supported \/ ~seat \/ ~native \/ c.object THEN c ELSE Request(c)

\* A stale object goes; a good one stays; without pointer or surface nothing
\* is asked for.
Lock(c) ==
    LET rest == IF supported /\ IsStale(c) THEN BackendUnlock(c) ELSE c IN
    IF ~supported \/ ~seat \/ ~native \/ rest.object THEN rest ELSE Request(rest)

-----------------------------------------------------------------------------
\* What the compositor does, for a control there is.

HandleProtocolAvailabilityChanged ==
    /\ supported' = ~supported
    /\ cursor' = IF supported' THEN UpdateLockState(cursor, "Unlocked")
                 ELSE UpdateLockState(BackendUnlock(cursor), "Unsupported")
    /\ UNCHANGED <<seat, native>>

\* Nobody is told of it, and another pointer is not the one of before.
SeatChanges ==
    /\ seat' = ~seat
    /\ cursor' = [cursor EXCEPT !.fits = FALSE]
    /\ UNCHANGED <<supported, native>>

LockedEvent ==
    /\ cursor.object
    /\ ~cursor.record
    /\ cursor' = UpdateLockState(ClearDeltaMovement([cursor EXCEPT !.pending = FALSE, !.record = TRUE]),
                                 "Locked")
    /\ UNCHANGED envVars

\* The lock is persistent: the object stays and may be locked again.
UnlockedEvent ==
    /\ cursor.record
    /\ cursor' = UpdateLockState(ClearDeltaMovement([cursor EXCEPT !.pending = FALSE, !.record = FALSE]),
                                 "Unlocked")
    /\ UNCHANGED envVars

RelativeMotion ==
    /\ cursor.record
    /\ ~cursor.moved
    /\ cursor' = [cursor EXCEPT !.moved = TRUE]
    /\ UNCHANGED envVars

Compositor ==
    \/ HandleProtocolAvailabilityChanged
    \/ SeatChanges
    \/ LockedEvent
    \/ UnlockedEvent
    \/ RelativeMotion
=============================================================================
