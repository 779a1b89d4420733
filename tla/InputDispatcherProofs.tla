------------------------ MODULE InputDispatcherProofs ------------------------
(***************************************************************************)
(* The dispatcher, for all keys, all owners of blocks and any number of    *)
(* bindings, signals and wheel steps.  The invariant has three parts that  *)
(* do not need one another: the cursor, what is pressed, and the task.     *)
(***************************************************************************)
EXTENDS InputDispatcher, TLAPS

\* A control whose parts agree, for a surface and protocols there are or not.
CursorOk(c, surface, protocols) ==
    /\ c \in CursorType
    /\ c.object => surface /\ protocols
    /\ c.moved \/ c.record => c.lockState = "Locked"
    /\ c.lockState = "Locked" => c.record /\ c.object
    /\ c.lockState = "Pending" => c.pending /\ c.object
    /\ c.lockState = "Unsupported" => ~c.object

StatusTypeOK ==
    /\ attached \in {"no", "yes", "destroyed", "gone"}
    /\ inputStatus \in {"Unbound", "Suspended", "Captured"}
    /\ native \in BOOLEAN /\ supported \in BOOLEAN /\ savedCursor \in BOOLEAN
    /\ attached \in {"no", "destroyed"} => inputStatus = "Unbound"

CursorInv ==
    /\ StatusTypeOK
    /\ CursorOk(cursor, native, supported)
    /\ attached = "yes" => (savedCursor <=> inputStatus = "Captured")
    /\ inputStatus # "Captured" \/ attached = "gone" => ~cursor.object /\ ~savedCursor

\* While the input is captured, an inactive window is about to be noticed, and
\* in an active one every release was seen.
KeysInv ==
    /\ inputStatus # "Captured" => down = {} /\ mouseZ = 0
    /\ inputStatus = "Captured" /\ attached # "gone" /\ "active" \notin window => statusCalls
    /\ attached # "gone" /\ "active" \in window /\ ~quickReturn => down \subseteq fingers

-----------------------------------------------------------------------------
\* The calls of the control.

LEMMA NewControlOk ==
    ASSUME supported \in BOOLEAN, NEW called \in BOOLEAN
    PROVE  LET c == [NewControl EXCEPT !.changed = called] IN
           /\ CursorOk(c, native, supported) /\ ~c.object
           /\ c.lockState \in {"Unsupported", "Unlocked"}
BY DEF CursorOk, CursorType, NewControl, NoLock

LEMMA ResetMovementOk ==
    ASSUME NEW c, NEW surface, NEW protocols, CursorOk(c, surface, protocols), NEW status
    PROVE  LET r == ResetMovement(status, c) IN
           /\ CursorOk(r, surface, protocols)
           /\ r.object = c.object /\ r.lockState = c.lockState
BY DEF CursorOk, CursorType, ResetMovement, ClearDeltaMovement

LEMMA BackendUnlockOk ==
    ASSUME NEW c \in CursorType
    PROVE  LET b == BackendUnlock(c) IN
           /\ b \in CursorType /\ ~b.object /\ ~b.record /\ ~b.moved /\ b.lockState = c.lockState
BY DEF CursorType, BackendUnlock, ClearDeltaMovement

LEMMA UnlockOk ==
    ASSUME NEW c, NEW surface, NEW protocols, CursorOk(c, surface, protocols), NEW any
    PROVE  LET u == Unlock(c) IN
           /\ CursorOk(u, any, protocols) /\ ~u.object
           /\ u.lockState \in {"Unsupported", "Unlocked"}
<1>1. CASE c.lockState = "Unsupported"
  BY <1>1 DEF CursorOk, Unlock
<1>2. CASE c.lockState # "Unsupported"
  <2> DEFINE b == BackendUnlock(c)
  <2>1. b \in CursorType /\ ~b.object /\ ~b.record /\ ~b.moved
    BY BackendUnlockOk DEF CursorOk
  <2>2. Unlock(c) = UpdateLockState(b, "Unlocked")
    BY <1>2 DEF Unlock
  <2> HIDE DEF b
  <2> QED
    BY <2>1, <2>2 DEF CursorOk, CursorType, UpdateLockState
<1> QED
  BY <1>1, <1>2

\* Whatever is done about a stale object, a lock is only asked for with a surface
\* and the protocols.
LEMMA LockOk ==
    ASSUME NEW c, CursorOk(c, native, supported), c.lockState = "Unlocked"
    PROVE  CursorOk(Lock(c), native, supported)
<1> DEFINE rest == IF supported /\ IsStale(c) THEN BackendUnlock(c) ELSE c
<1>1. CursorOk(rest, native, supported) /\ rest.lockState = "Unlocked"
  BY BackendUnlockOk DEF CursorOk
<1>2. Lock(c) = IF ~supported \/ ~seat \/ ~native \/ rest.object THEN rest ELSE Request(rest)
  BY DEF Lock
<1> HIDE DEF rest
<1>3. CASE ~supported \/ ~seat \/ ~native \/ rest.object
  BY <1>1, <1>2, <1>3
<1>4. CASE supported /\ native /\ ~rest.object
  <2> DEFINE r == Request(rest)
  <2>1. /\ r \in CursorType /\ r.object /\ r.pending /\ r.lockState = "Pending" /\ ~r.moved
        /\ r.record = rest.record
    BY <1>1 DEF CursorOk, CursorType, Request, UpdateLockState, ClearDeltaMovement
  <2> HIDE DEF r
  <2>2. CursorOk(r, native, supported)
    BY <1>1, <1>4, <2>1 DEF CursorOk
  <2> QED
    BY <1>1, <1>2, <2>2 DEF r
<1> QED
  BY <1>3, <1>4

\* The cursor follows the status.
LEMMA UpdateCursorStateOk ==
    ASSUME NEW c, CursorOk(c, native, supported), NEW status, savedCursor \in BOOLEAN,
           c.lockState \in {"Pending", "Locked"} => savedCursor,
           UpdateCursorState(status, c)
    PROVE  /\ CursorOk(cursor', native, supported)
           /\ savedCursor' = (status = "Captured")
           /\ status # "Captured" => ~cursor'.object /\ \A any : CursorOk(cursor', any, supported)
<1>1. CASE status # "Captured"
  BY <1>1, UnlockOk DEF UpdateCursorState
<1>2. CASE status = "Captured"
  <2>1. cursor' = IF c.lockState = "Unlocked" THEN Lock(c) ELSE c
    BY <1>2 DEF UpdateCursorState
  <2>2. savedCursor' = TRUE
    BY <1>2 DEF UpdateCursorState, CursorOk, CursorType
  <2> QED
    BY <1>2, <2>1, <2>2, LockOk
<1> QED
  BY <1>1, <1>2

-----------------------------------------------------------------------------
\* The cursor.

\* A window's status and cursor are brought up to date.
LEMMA UpdateAttachedOk ==
    ASSUME NEW c, CursorOk(c, native, supported), NEW flags, NEW owners, savedCursor \in BOOLEAN,
           c.lockState \in {"Pending", "Locked"} => savedCursor,
           UpdateAttached(flags, owners, c)
    PROVE  /\ inputStatus' \in {"Suspended", "Captured"}
           /\ CursorOk(cursor', native, supported)
           /\ savedCursor' = (inputStatus' = "Captured")
           /\ inputStatus' # "Captured" => ~cursor'.object
<1> DEFINE status == IF owners = {} /\ flags = Flags THEN "Captured" ELSE "Suspended"
           r == ResetMovement(status, c)
<1>1. /\ SetInputStatus(status) /\ UpdateCursorState(status, r)
      /\ status \in {"Suspended", "Captured"}
  BY DEF UpdateAttached
<1>2. inputStatus' = status
  BY <1>1 DEF SetInputStatus
<1> HIDE DEF status
<1>3. CursorOk(r, native, supported) /\ r.lockState = c.lockState
  BY ResetMovementOk
<1> HIDE DEF r
<1>4. /\ CursorOk(cursor', native, supported) /\ savedCursor' = (status = "Captured")
      /\ status # "Captured" => ~cursor'.object
  BY <1>1, <1>3, UpdateCursorStateOk
<1> QED
  BY <1>1, <1>2, <1>4

LEMMA LockedIsSaved ==
    ASSUME CursorInv, attached # "gone"
    PROVE  /\ cursor.lockState \in {"Pending", "Locked"} => savedCursor
           /\ savedCursor \in BOOLEAN
BY DEF CursorInv, StatusTypeOK, CursorOk

LEMMA UpdateInputStatusKeepsCursor ==
    ASSUME CursorInv, attached # "gone", NEW flags, NEW owners, UpdateInputStatus(flags, owners),
           attached' = attached, supported' = supported, native' \in BOOLEAN, native => native'
    PROVE  CursorInv'
<1>1. CASE attached = "yes"
  <2>1. UpdateAttached(flags, owners, cursor)
    BY <1>1 DEF UpdateInputStatus
  <2>2. CursorOk(cursor, native, supported)
    BY DEF CursorInv
  <2>3. /\ inputStatus' \in {"Suspended", "Captured"}
        /\ CursorOk(cursor', native, supported)
        /\ savedCursor' = (inputStatus' = "Captured")
        /\ inputStatus' # "Captured" => ~cursor'.object
    BY <2>1, <2>2, LockedIsSaved, UpdateAttachedOk
  <2>4. CursorOk(cursor', native', supported)
    BY <2>3 DEF CursorOk
  <2>5. savedCursor' \in BOOLEAN
    BY <2>3
  <2> QED
    BY <1>1, <2>3, <2>4, <2>5 DEF CursorInv, StatusTypeOK
<1>2. CASE attached # "yes"
  <2>1. /\ inputStatus' = "Unbound" /\ savedCursor' = savedCursor
        /\ cursor' = ResetMovement("Unbound", cursor)
    BY <1>2 DEF UpdateInputStatus, SetInputStatus
  <2>2. CursorOk(cursor', native, supported) /\ cursor'.object = cursor.object
    BY <2>1, ResetMovementOk DEF CursorInv
  <2>3. CursorOk(cursor', native', supported)
    BY <2>2 DEF CursorOk
  <2> QED
    BY <1>2, <2>1, <2>2, <2>3 DEF CursorInv, StatusTypeOK
<1> QED
  BY <1>1, <1>2

LEMMA AttachWindowKeepsCursor ==
    ASSUME CursorInv, NEW flags \in SUBSET Flags, AttachWindow(flags)
    PROVE  CursorInv'
<1> DEFINE c == [NewControl EXCEPT !.changed = cursor.changed]
<1>1. /\ attached' = "yes" /\ UpdateAttached(flags, blocks, c)
      /\ native' = native /\ supported' = supported
  BY DEF AttachWindow, envVars
<1>2. /\ CursorOk(c, native, supported) /\ savedCursor \in BOOLEAN
      /\ c.lockState \notin {"Pending", "Locked"}
  BY NewControlOk DEF CursorInv, StatusTypeOK, CursorOk, CursorType
<1> HIDE DEF c
<1>3. /\ inputStatus' \in {"Suspended", "Captured"}
      /\ CursorOk(cursor', native, supported)
      /\ savedCursor' = (inputStatus' = "Captured")
      /\ inputStatus' # "Captured" => ~cursor'.object
  BY <1>1, <1>2, UpdateAttachedOk
<1>4. savedCursor' \in BOOLEAN
  BY <1>3
<1> QED
  BY <1>1, <1>3, <1>4 DEF CursorInv, StatusTypeOK

LEMMA SurfaceGoesKeepsCursor ==
    ASSUME CursorInv, SurfaceAboutToBeDestroyed
    PROVE  CursorInv'
<1> DEFINE r == ResetMovement("Suspended", cursor)
<1>1. /\ attached = "yes" /\ attached' = attached /\ native' = FALSE /\ supported' = supported
      /\ inputStatus' = "Suspended" /\ UpdateCursorState("Suspended", r)
  BY DEF SurfaceAboutToBeDestroyed, SetInputStatus
<1>2. CursorOk(r, native, supported) /\ r.lockState = cursor.lockState
  BY ResetMovementOk DEF CursorInv
<1>3. savedCursor \in BOOLEAN /\ (r.lockState \in {"Pending", "Locked"} => savedCursor)
  BY <1>1, <1>2, LockedIsSaved
<1> HIDE DEF r
<1>4. /\ savedCursor' = FALSE /\ ~cursor'.object /\ CursorOk(cursor', FALSE, supported)
  <2> DEFINE status == "Suspended"
  <2>1. UpdateCursorState(status, r) /\ status # "Captured"
    BY <1>1
  <2> HIDE DEF status
  <2>2. /\ savedCursor' = (status = "Captured")
        /\ status # "Captured" => ~cursor'.object /\ \A any : CursorOk(cursor', any, supported)
    BY <1>2, <1>3, <2>1, UpdateCursorStateOk
  <2> QED
    BY <2>1, <2>2
<1> QED
  BY <1>1, <1>4 DEF CursorInv, StatusTypeOK

LEMMA WindowDestroyedKeepsCursor ==
    ASSUME CursorInv, WindowDestroyed
    PROVE  CursorInv'
<1>1. /\ ~native /\ native' \in BOOLEAN /\ supported' = supported /\ attached' = "destroyed"
      /\ inputStatus' = "Unbound" /\ savedCursor' = FALSE
      /\ cursor' = ResetMovement("Unbound", cursor)
  BY DEF WindowDestroyed, SetInputStatus
<1>2. CursorOk(cursor', native, supported) /\ ~cursor'.object
  BY <1>1, ResetMovementOk DEF CursorInv, CursorOk
<1>3. CursorOk(cursor', native', supported)
  BY <1>2 DEF CursorOk
<1> QED
  BY <1>1, <1>2, <1>3 DEF CursorInv, StatusTypeOK

LEMMA LockStateChangedKeepsCursor ==
    ASSUME CursorInv, attached # "gone", HandleLockStateChanged
    PROVE  CursorInv'
<1> DEFINE c == [cursor EXCEPT !.changed = FALSE]
<1>1. /\ UpdateCursorState(inputStatus, c) /\ inputStatus' = inputStatus
      /\ attached' = attached /\ native' = native /\ supported' = supported
  BY DEF HandleLockStateChanged, guiVars, envVars
<1>2. CursorOk(c, native, supported) /\ c.lockState = cursor.lockState
  BY DEF CursorInv, CursorOk, CursorType
<1> HIDE DEF c
<1>3. savedCursor \in BOOLEAN /\ (c.lockState \in {"Pending", "Locked"} => savedCursor)
  BY <1>2, LockedIsSaved
<1>4. /\ CursorOk(cursor', native, supported) /\ savedCursor' = (inputStatus = "Captured")
      /\ inputStatus # "Captured" => ~cursor'.object
  BY <1>1, <1>2, <1>3, UpdateCursorStateOk
<1>5. savedCursor' \in BOOLEAN
  BY <1>4
<1> QED
  BY <1>1, <1>4, <1>5 DEF CursorInv, StatusTypeOK

LEMMA CompositorKeepsCursor ==
    ASSUME CursorInv, CompositorActs
    PROVE  CursorInv'
<1>1. /\ attached = "yes" /\ attached' = attached /\ inputStatus' = inputStatus
      /\ savedCursor' = savedCursor /\ native' = native
  BY DEF CompositorActs, guiVars, statusVars, Compositor, HandleProtocolAvailabilityChanged,
         SeatChanges, LockedEvent, UnlockedEvent, RelativeMotion, envVars
<1>2. CursorOk(cursor, native, supported) /\ cursor \in CursorType /\ supported \in BOOLEAN
  BY DEF CursorInv, CursorOk, StatusTypeOK
<1>3. /\ CursorOk(cursor', native, supported') /\ supported' \in BOOLEAN
      /\ cursor'.object => cursor.object
  <2>1. CASE HandleProtocolAvailabilityChanged
    <3>1. CASE supported
      <4> DEFINE b == BackendUnlock(cursor)
      <4>1. b \in CursorType /\ ~b.object /\ ~b.record /\ ~b.moved
        BY <1>2, BackendUnlockOk
      <4>2. supported' = FALSE /\ cursor' = UpdateLockState(b, "Unsupported")
        BY <2>1, <3>1 DEF HandleProtocolAvailabilityChanged
      <4> HIDE DEF b
      <4> QED
        BY <4>1, <4>2 DEF CursorOk, CursorType, UpdateLockState
    <3>2. CASE ~supported
      <4>1. supported' = TRUE /\ cursor' = UpdateLockState(cursor, "Unlocked")
        BY <2>1, <3>2 DEF HandleProtocolAvailabilityChanged
      <4>2. ~cursor.object /\ ~cursor.record /\ ~cursor.moved
        BY <1>2, <3>2 DEF CursorOk
      <4> QED
        BY <1>2, <4>1, <4>2 DEF CursorOk, CursorType, UpdateLockState
    <3> QED
      BY <3>1, <3>2
  <2>2. CASE SeatChanges
    BY <1>2, <2>2 DEF SeatChanges, CursorOk, CursorType
  <2>3. CASE LockedEvent
    BY <1>2, <2>3 DEF LockedEvent, CursorOk, CursorType, UpdateLockState, ClearDeltaMovement, envVars
  <2>4. CASE UnlockedEvent
    BY <1>2, <2>4 DEF UnlockedEvent, CursorOk, CursorType, UpdateLockState, ClearDeltaMovement, envVars
  <2>5. CASE RelativeMotion
    BY <1>2, <2>5 DEF RelativeMotion, CursorOk, CursorType, envVars
  <2> QED
    BY <2>1, <2>2, <2>3, <2>4, <2>5 DEF CompositorActs, Compositor
<1> QED
  BY <1>1, <1>3 DEF CursorInv, StatusTypeOK

LEMMA OtherStepsKeepCursor ==
    ASSUME CursorInv,
           \/ TakeMovement
           \/ Destroyed
           \/ UNCHANGED <<attached, inputStatus, savedCursor, cursor, native, supported>>
    PROVE  CursorInv'
<1>1. CASE TakeMovement
  <2>1. /\ cursor' = ClearDeltaMovement(cursor)
        /\ UNCHANGED <<attached, inputStatus, savedCursor, native, supported>>
    BY <1>1 DEF TakeMovement, PubUnchanged, guiVars, envVars
  <2>2. CursorOk(cursor', native, supported) /\ cursor'.object = cursor.object
    BY <2>1 DEF CursorInv, CursorOk, CursorType, ClearDeltaMovement
  <2> QED
    BY <2>1, <2>2 DEF CursorInv, StatusTypeOK
<1>2. CASE Destroyed
  <2> DEFINE u == Unlock(cursor)
  <2>1. /\ attached' = "gone" /\ savedCursor' = FALSE /\ cursor' = [u EXCEPT !.changed = FALSE]
        /\ UNCHANGED <<inputStatus, native, supported>>
    BY <1>2 DEF Destroyed, envVars
  <2>2. CursorOk(u, native, supported) /\ ~u.object
    BY UnlockOk DEF CursorInv
  <2> HIDE DEF u
  <2>3. CursorOk(cursor', native, supported) /\ ~cursor'.object
    BY <2>1, <2>2 DEF CursorOk, CursorType
  <2> QED
    BY <2>1, <2>3 DEF CursorInv, StatusTypeOK
<1>3. CASE UNCHANGED <<attached, inputStatus, savedCursor, cursor, native, supported>>
  BY <1>3 DEF CursorInv, StatusTypeOK
<1> QED
  BY <1>1, <1>2, <1>3

LEMMA NextKeepsCursor ==
    ASSUME CursorInv, [Next]_vars
    PROVE  CursorInv'
<1>1. CASE Next
  <2>1. attached # "gone"
    BY <1>1 DEF Next
  <2>2. ASSUME NEW flags \in SUBSET Flags, AttachWindow(flags)
        PROVE  CursorInv'
    BY <2>2, AttachWindowKeepsCursor
  <2>3. ASSUME NEW o \in Owners, RequestInputBlock(o) \/ ReleaseInputBlock(o)
        PROVE  CursorInv'
    <3>1. /\ UpdateInputStatus(window, blocks')
          /\ UNCHANGED <<attached, supported, native>> /\ native \in BOOLEAN
      BY <2>3 DEF RequestInputBlock, ReleaseInputBlock, envVars, CursorInv, StatusTypeOK
    <3> QED
      BY <2>1, <3>1, UpdateInputStatusKeepsCursor
  <2>4. CASE HandleStatusCall \/ Expose \/ SurfaceCreated
    <3>1. /\ \E flags : UpdateInputStatus(flags, blocks)
          /\ UNCHANGED <<attached, supported>> /\ native' \in BOOLEAN /\ (native => native')
      BY <2>4 DEF HandleStatusCall, Expose, SurfaceCreated, envVars, CursorInv, StatusTypeOK
    <3> QED
      BY <2>1, <3>1, UpdateInputStatusKeepsCursor
  <2>5. CASE SurfaceAboutToBeDestroyed
    BY <2>5, SurfaceGoesKeepsCursor
  <2>6. CASE WindowDestroyed
    BY <2>6, WindowDestroyedKeepsCursor
  <2>7. CASE HandleLockStateChanged
    BY <2>1, <2>7, LockStateChangedKeepsCursor
  <2>8. CASE CompositorActs
    BY <2>8, CompositorKeepsCursor
  <2>9. CASE TakeMovement \/ Destroyed
    BY <2>9, OtherStepsKeepCursor
  <2>10. CASE \/ \E flag \in {"active", "visible"} : WindowChanges(flag)
              \/ \E i \in Inputs : Press(i) \/ Release(i)
              \/ HandleMouseWheelEvent
    BY <2>10, OtherStepsKeepCursor
       DEF WindowChanges, Press, Release, HandleMouseWheelEvent, guiVars, statusVars, envVars
  <2>11. CASE \/ AdapterBinds \/ \E s \in Signals : AdapterTells(s)
              \/ HandleClientCall \/ BeginTurn \/ BeginCapture \/ LoadGeneration
              \/ PublishKeyboardMouseControl
    BY <2>11, OtherStepsKeepCursor
       DEF AdapterBinds, AdapterTells, HandleClientCall, ClientUnchanged, BeginTurn, BeginCapture,
           LoadGeneration,
           PublishKeyboardMouseControl, PubUnchanged, guiVars, statusVars, envVars
  <2> QED
    BY <1>1, <2>2, <2>3, <2>4, <2>5, <2>6, <2>7, <2>8, <2>9, <2>10, <2>11 DEF Next, Alive
<1>2. CASE UNCHANGED vars
  BY <1>2, OtherStepsKeepCursor DEF vars, guiVars, statusVars, envVars
<1> QED
  BY <1>1, <1>2

LEMMA InitHasCursor == Init => CursorInv
<1>1. \A surface, protocols : CursorOk(NoLock, surface, protocols)
  BY DEF CursorOk, CursorType, NoLock
<1>2. ~NoLock.object
  BY DEF NoLock
<1> QED
  BY <1>1, <1>2 DEF Init, CursorInv, StatusTypeOK

\* The user has the pointer back whenever the capture ends, for all keys, owners
\* and orders of events; and no movement of a pointer that is not locked is kept.
THEOREM PointerIsGivenBack == Spec => []CursorGivenBack
<1>1. CursorInv => CursorGivenBack
  BY DEF CursorInv, CursorOk, CursorGivenBack
<1> QED
  BY <1>1, InitHasCursor, NextKeepsCursor, PTL DEF Spec

-----------------------------------------------------------------------------
\* What is pressed.

\* A status that changes releases everything; only an active window captures.
LEMMA StatusKeepsKeys ==
    ASSUME KeysInv, attached # "gone", NEW status, SetInputStatus(status), fingers' = fingers,
           status = "Captured" => "active" \in window',
           "active" \in window' => "active" \in window \/ down = {}
    PROVE  KeysInv'
<1>1. CASE status # inputStatus
  BY <1>1 DEF KeysInv, SetInputStatus
<1>2. CASE status = inputStatus
  BY <1>2 DEF KeysInv, SetInputStatus
<1> QED
  BY <1>1, <1>2

LEMMA UpdateInputStatusKeepsKeys ==
    ASSUME KeysInv, attached # "gone", NEW owners, UpdateInputStatus(window', owners),
           fingers' = fingers, "active" \in window' => "active" \in window
    PROVE  KeysInv'
<1>1. PICK status : SetInputStatus(status) /\ (status = "Captured" => window' = Flags)
  <2>1. CASE attached = "yes"
    <3> DEFINE status == IF owners = {} /\ window' = Flags THEN "Captured" ELSE "Suspended"
    <3>1. SetInputStatus(status) /\ (status = "Captured" => window' = Flags)
      BY <2>1 DEF UpdateInputStatus, UpdateAttached
    <3> QED
      BY <3>1
  <2>2. CASE attached # "yes"
    BY <2>2 DEF UpdateInputStatus
  <2> QED
    BY <2>1, <2>2
<1> QED
  BY <1>1, StatusKeepsKeys DEF Flags

LEMMA AttachWindowKeepsKeys ==
    ASSUME KeysInv, StatusTypeOK, NEW flags \in SUBSET Flags, AttachWindow(flags)
    PROVE  KeysInv'
<1> DEFINE status == IF blocks = {} /\ flags = Flags THEN "Captured" ELSE "Suspended"
<1>1. /\ attached \in {"no", "destroyed"} /\ window' = flags /\ fingers' = fingers /\ SetInputStatus(status)
      /\ status = "Captured" => flags = Flags
  BY DEF AttachWindow, UpdateAttached
<1> HIDE DEF status
<1>2. down = {}
  BY <1>1 DEF StatusTypeOK, KeysInv
<1> QED
  BY <1>1, <1>2, StatusKeepsKeys DEF Flags

\* A window that becomes active again is noticed, or its way out still is.
LEMMA WindowChangesKeepsKeys ==
    ASSUME KeysInv, attached # "gone", NEW flag \in {"active", "visible"}, WindowChanges(flag)
    PROVE  KeysInv'
<1>1. /\ statusCalls' = TRUE
      /\ quickReturn' = (quickReturn \/ (statusCalls /\ "active" \in window' \ window))
      /\ UNCHANGED <<attached, fingers, inputStatus, down, mouseZ>>
  BY DEF WindowChanges, statusVars
<1>2. ASSUME "active" \in window', ~quickReturn'
      PROVE  down \subseteq fingers
  <2>1. CASE "active" \in window
    BY <1>1, <1>2, <2>1 DEF KeysInv
  <2>2. CASE "active" \notin window
    BY <1>1, <1>2, <2>2 DEF KeysInv
  <2> QED
    BY <2>1, <2>2
<1> QED
  BY <1>1, <1>2 DEF KeysInv

LEMMA KeyEventsKeepKeys ==
    ASSUME KeysInv, attached # "gone", NEW i \in Inputs, Press(i) \/ Release(i)
    PROVE  KeysInv'
<1>1. UNCHANGED <<attached, window, statusCalls, quickReturn, inputStatus, mouseZ>>
  BY DEF Press, Release, guiVars
<1>2. CASE Press(i)
  BY <1>1, <1>2 DEF Press, Counts, KeysInv
<1>3. CASE Release(i)
  BY <1>1, <1>3 DEF Release, Counts, KeysInv
<1> QED
  BY <1>2, <1>3

LEMMA NextKeepsKeys ==
    ASSUME KeysInv, StatusTypeOK, [Next]_vars
    PROVE  KeysInv'
<1>1. CASE Next
  <2>1. attached # "gone"
    BY <1>1 DEF Next
  <2>2. ASSUME NEW flags \in SUBSET Flags, AttachWindow(flags)
        PROVE  KeysInv'
    BY <2>2, AttachWindowKeepsKeys
  <2>3. CASE \/ \E o \in Owners : RequestInputBlock(o) \/ ReleaseInputBlock(o)
             \/ HandleStatusCall \/ Expose \/ SurfaceCreated
    <3>1. \E owners : UpdateInputStatus(window', owners)
      BY <2>3 DEF RequestInputBlock, ReleaseInputBlock, HandleStatusCall, Expose, SurfaceCreated
    <3>2. fingers' = fingers /\ ("active" \in window' => "active" \in window)
      BY <2>3 DEF RequestInputBlock, ReleaseInputBlock, HandleStatusCall, Expose, SurfaceCreated
    <3> QED
      BY <2>1, <3>1, <3>2, UpdateInputStatusKeepsKeys
  <2>4. CASE SurfaceAboutToBeDestroyed \/ WindowDestroyed
    <3>1. PICK status \in {"Suspended", "Unbound"} : SetInputStatus(status)
      BY <2>4 DEF SurfaceAboutToBeDestroyed, WindowDestroyed
    <3>2. fingers' = fingers /\ ("active" \in window' => "active" \in window)
      BY <2>4 DEF SurfaceAboutToBeDestroyed, WindowDestroyed
    <3> QED
      BY <2>1, <3>1, <3>2, StatusKeepsKeys
  <2>5. ASSUME NEW flag \in {"active", "visible"}, WindowChanges(flag)
        PROVE  KeysInv'
    BY <2>1, <2>5, WindowChangesKeepsKeys
  <2>6. ASSUME NEW i \in Inputs, Press(i) \/ Release(i)
        PROVE  KeysInv'
    BY <2>1, <2>6, KeyEventsKeepKeys
  <2>7. CASE HandleMouseWheelEvent \/ TakeMovement
    BY <2>7 DEF HandleMouseWheelEvent, TakeMovement, PubUnchanged, guiVars, KeysInv
  <2>8. CASE HandleLockStateChanged \/ CompositorActs
    BY <2>8 DEF HandleLockStateChanged, CompositorActs, guiVars, statusVars, KeysInv
  <2>9. CASE \/ AdapterBinds \/ \E s \in Signals : AdapterTells(s)
             \/ HandleClientCall \/ BeginTurn \/ BeginCapture \/ LoadGeneration
              \/ PublishKeyboardMouseControl
    <3>1. UNCHANGED <<guiVars, fingers, inputStatus, down, mouseZ>>
      BY <2>9 DEF AdapterBinds, AdapterTells, HandleClientCall, ClientUnchanged, BeginTurn,
                  BeginCapture, LoadGeneration, PublishKeyboardMouseControl, PubUnchanged, statusVars
    <3> QED
      BY <3>1 DEF guiVars, KeysInv
  <2>10. CASE Destroyed
    BY <2>10 DEF Destroyed, KeysInv
  <2> QED
    BY <1>1, <2>2, <2>3, <2>4, <2>5, <2>6, <2>7, <2>8, <2>9, <2>10 DEF Next, Alive
<1>2. CASE UNCHANGED vars
  BY <1>2 DEF vars, guiVars, statusVars, KeysInv
<1> QED
  BY <1>1, <1>2

\* For all keys, owners and orders of events: while the input is captured nothing
\* stays pressed that was released, except after a window was left and active again
\* before the queued call ran (quickReturn), the one order in which the code leaves
\* a key stuck; and while it is not captured nothing is pressed at all.
THEOREM KeysAreReleased == Spec => []NoKeyIsStuck
<1>1. Init => KeysInv
  BY DEF Init, KeysInv
<1>2. CursorInv /\ KeysInv /\ [Next]_vars => CursorInv' /\ KeysInv'
  BY NextKeepsCursor, NextKeepsKeys DEF CursorInv
<1>3. KeysInv => NoKeyIsStuck
  BY DEF KeysInv, NoKeyIsStuck
<1> QED
  BY <1>1, <1>2, <1>3, InitHasCursor, PTL DEF Spec

-----------------------------------------------------------------------------
\* The task.

Slots == [what : Signals \cup {"bindingChanged"}, gen : Nat]

\* The generation the dispatcher has before it handles the i-th call.
GenBefore(i) == IF i = 1 THEN curGen ELSE clientCalls[i - 1].gen

\* A signal is of the last binding before it, and the last call tells what the
\* adapter has come to.
TaskInv ==
    /\ adapter \in [gen : Nat, told : Signals, count : Nat]
    /\ curGen \in Nat
    /\ taskHandle \in BOOLEAN
    /\ clientCalls \in Seq(Slots)
    /\ taskHandle => startedFor = curGen
    /\ \A i \in 1..Len(clientCalls) :
         clientCalls[i].what = "bindingChanged" \/ clientCalls[i].gen = GenBefore(i)
    /\ attached # "gone" =>
         IF clientCalls = <<>>
         THEN curGen = adapter.gen /\ (taskHandle <=> adapter.told = "connected")
         ELSE /\ clientCalls[Len(clientCalls)].gen = adapter.gen
              /\ (clientCalls[Len(clientCalls)].what = "connected") <=> adapter.told = "connected"

\* A call that is queued.
LEMMA QueuedKeepsTask ==
    ASSUME TaskInv, attached # "gone", NEW call \in Slots, clientCalls' = Append(clientCalls, call),
           adapter' \in [gen : Nat, told : Signals, count : Nat],
           call.what = "bindingChanged" \/ call.gen = adapter.gen,
           call.gen = adapter'.gen, (call.what = "connected") <=> adapter'.told = "connected",
           UNCHANGED <<curGen, taskHandle, startedFor>>
    PROVE  TaskInv'
<1>1. clientCalls \in Seq(Slots) /\ Len(clientCalls) \in Nat
  BY DEF TaskInv
<1>2. /\ clientCalls' \in Seq(Slots) /\ Len(clientCalls') = Len(clientCalls) + 1
      /\ \A i \in 1..Len(clientCalls) : clientCalls'[i] = clientCalls[i]
      /\ clientCalls'[Len(clientCalls) + 1] = call /\ clientCalls' # <<>>
  BY <1>1
<1>3. ASSUME NEW i \in 1..Len(clientCalls')
      PROVE  clientCalls'[i].what = "bindingChanged" \/ clientCalls'[i].gen = GenBefore(i)'
  <2>1. CASE i \in 1..Len(clientCalls)
    <3>1. GenBefore(i)' = GenBefore(i)
      <4>1. i # 1 => i - 1 \in 1..Len(clientCalls)
        BY <1>1, <2>1
      <4> QED
        BY <1>2, <4>1 DEF GenBefore
    <3> QED
      BY <1>2, <2>1, <3>1 DEF TaskInv
  <2>2. CASE i = Len(clientCalls) + 1
    <3>1. adapter.gen = GenBefore(i)'
      <4>1. CASE Len(clientCalls) = 0
        <5>1. clientCalls = <<>>
          BY <1>1, <4>1
        <5> QED
          BY <2>2, <4>1, <5>1 DEF GenBefore, TaskInv
      <4>2. CASE Len(clientCalls) # 0
        <5>1. clientCalls # <<>> /\ i # 1 /\ i - 1 = Len(clientCalls) /\ i - 1 \in 1..Len(clientCalls)
          BY <1>1, <2>2, <4>2
        <5> QED
          BY <1>2, <5>1 DEF GenBefore, TaskInv
      <4> QED
        BY <4>1, <4>2
    <3> QED
      BY <1>2, <2>2, <3>1
  <2> QED
    BY <1>1, <1>2, <2>1, <2>2
<1>4. /\ clientCalls'[Len(clientCalls')].gen = adapter'.gen
      /\ (clientCalls'[Len(clientCalls')].what = "connected") <=> adapter'.told = "connected"
  BY <1>2
<1> QED
  BY <1>2, <1>3, <1>4 DEF TaskInv

\* The call that is handled makes its generation the dispatcher's, if it is not
\* that already.
LEMMA HandledKeepsTask ==
    ASSUME TaskInv, attached # "gone", HandleClientCall
    PROVE  TaskInv'
<1> DEFINE call == clientCalls[1]
<1>1. /\ clientCalls # <<>> /\ clientCalls' = Tail(clientCalls)
      /\ taskHandle' = (call.what = "connected")
      /\ curGen' = IF call.what = "bindingChanged" THEN call.gen ELSE curGen
      /\ startedFor' = IF call.what = "connected" /\ ~taskHandle THEN call.gen ELSE startedFor
      /\ UNCHANGED <<adapter, attached>>
      /\ clientCalls \in Seq(Slots)
  BY DEF TaskInv, HandleClientCall, ClientUnchanged, guiVars
<1>2. /\ Len(clientCalls) \in Nat /\ 1 \in 1..Len(clientCalls) /\ call \in Slots
      /\ clientCalls' \in Seq(Slots) /\ Len(clientCalls') = Len(clientCalls) - 1
      /\ \A i \in 1..Len(clientCalls') : clientCalls'[i] = clientCalls[i + 1] /\ i + 1 \in 1..Len(clientCalls)
  BY <1>1
<1>3. call.what = "bindingChanged" \/ call.gen = curGen
  BY <1>2 DEF TaskInv, GenBefore
<1>4. call.gen \in Nat
  BY <1>2 DEF Slots
<1> HIDE DEF call
<1>5. curGen' = call.gen /\ curGen' \in Nat
  BY <1>1, <1>3, <1>4
<1>6. taskHandle' \in BOOLEAN /\ (taskHandle' => startedFor' = curGen')
  <2>1. call.what = "connected" => call.gen = curGen
    BY <1>3
  <2>2. taskHandle => startedFor = curGen
    BY DEF TaskInv
  <2> QED
    BY <1>1, <1>5, <2>1, <2>2
<1>7. ASSUME NEW i \in 1..Len(clientCalls')
      PROVE  clientCalls'[i].what = "bindingChanged" \/ clientCalls'[i].gen = GenBefore(i)'
  <2>1. clientCalls'[i] = clientCalls[i + 1] /\ i + 1 \in 1..Len(clientCalls) /\ i + 1 # 1 /\ (i + 1) - 1 = i
    BY <1>2
  <2>2. clientCalls[i + 1].what = "bindingChanged" \/ clientCalls[i + 1].gen = clientCalls[i].gen
    BY <2>1 DEF TaskInv, GenBefore
  <2>3. GenBefore(i)' = clientCalls[i].gen
    <3>1. CASE i = 1
      BY <1>5, <3>1 DEF GenBefore, call
    <3>2. CASE i # 1
      <4>1. i - 1 \in 1..Len(clientCalls') /\ (i - 1) + 1 = i
        BY <1>2, <3>2
      <4>2. clientCalls'[i - 1] = clientCalls[i]
        BY <1>2, <4>1
      <4> QED
        BY <3>2, <4>2 DEF GenBefore
    <3> QED
      BY <3>1, <3>2
  <2> QED
    BY <2>1, <2>2, <2>3
<1>8. IF clientCalls' = <<>>
      THEN curGen' = adapter'.gen /\ (taskHandle' <=> adapter'.told = "connected")
      ELSE /\ clientCalls'[Len(clientCalls')].gen = adapter'.gen
           /\ (clientCalls'[Len(clientCalls')].what = "connected") <=> adapter'.told = "connected"
  <2>1. /\ clientCalls[Len(clientCalls)].gen = adapter.gen
        /\ (clientCalls[Len(clientCalls)].what = "connected") <=> adapter.told = "connected"
    BY <1>1 DEF TaskInv
  <2>2. CASE Len(clientCalls) = 1
    <3>1. clientCalls' = <<>>
      BY <1>2, <2>2
    <3> QED
      BY <1>1, <1>5, <2>1, <2>2, <3>1 DEF call
  <2>3. CASE Len(clientCalls) # 1
    <3>1. Len(clientCalls') \in 1..Len(clientCalls') /\ clientCalls' # <<>>
      BY <1>2, <2>3
    <3>2. clientCalls'[Len(clientCalls')] = clientCalls[Len(clientCalls)]
      BY <1>2, <3>1
    <3> QED
      BY <1>1, <2>1, <3>1, <3>2
  <2> QED
    BY <2>2, <2>3
<1> QED
  BY <1>1, <1>2, <1>5, <1>6, <1>7, <1>8 DEF TaskInv

LEMMA NextKeepsTask ==
    ASSUME TaskInv, [Next]_vars
    PROVE  TaskInv'
<1>1. CASE attached # "gone" /\ AdapterBinds
  <2> DEFINE call == [what |-> "bindingChanged", gen |-> adapter.gen + 1]
  <2>1. /\ clientCalls' = Append(clientCalls, call) /\ UNCHANGED <<curGen, taskHandle, startedFor>>
        /\ adapter' = [adapter EXCEPT !.gen = @ + 1, !.told = "nothing"]
        /\ adapter \in [gen : Nat, told : Signals, count : Nat]
    BY <1>1 DEF AdapterBinds, TaskInv
  <2>2. /\ adapter' \in [gen : Nat, told : Signals, count : Nat]
        /\ adapter'.gen = adapter.gen + 1 /\ adapter'.told = "nothing"
    <3>1. adapter.gen + 1 \in Nat /\ "nothing" \in Signals
      BY <2>1 DEF Signals
    <3> QED
      BY <2>1, <3>1
  <2>3. /\ call \in Slots /\ call.what = "bindingChanged" /\ call.gen = adapter'.gen
    BY <2>1, <2>2 DEF Slots
  <2> HIDE DEF call
  <2> QED
    BY <1>1, <2>1, <2>2, <2>3, QueuedKeepsTask
<1>2. ASSUME attached # "gone", NEW signal \in Signals, AdapterTells(signal)
      PROVE  TaskInv'
  <2> DEFINE call == [what |-> signal, gen |-> adapter.gen]
  <2>1. /\ clientCalls' = Append(clientCalls, call) /\ UNCHANGED <<curGen, taskHandle, startedFor>>
        /\ adapter' = [adapter EXCEPT !.told = signal, !.count = @ + 1]
        /\ adapter \in [gen : Nat, told : Signals, count : Nat]
    BY <1>2 DEF AdapterTells, TaskInv
  <2>2. /\ adapter' \in [gen : Nat, told : Signals, count : Nat]
        /\ adapter'.gen = adapter.gen /\ adapter'.told = signal
    <3>1. adapter.count + 1 \in Nat
      BY <2>1
    <3> QED
      BY <2>1, <3>1
  <2>3. call \in Slots /\ call.what = signal /\ call.gen = adapter.gen
    BY <2>1 DEF Slots
  <2> HIDE DEF call
  <2> QED
    BY <1>2, <2>1, <2>2, <2>3, QueuedKeepsTask
<1>3. CASE attached # "gone" /\ HandleClientCall
  BY <1>3, HandledKeepsTask
<1>4. CASE Destroyed
  <2>1. /\ attached' = "gone" /\ clientCalls' = <<>> /\ taskHandle' = FALSE
        /\ UNCHANGED <<adapter, curGen>>
    BY <1>4 DEF Destroyed
  <2>2. clientCalls' \in Seq(Slots) /\ Len(clientCalls') = 0
    BY <2>1
  <2>3. \A i \in 1..Len(clientCalls') : FALSE
    BY <2>2
  <2> QED
    BY <2>1, <2>2, <2>3 DEF TaskInv
<1>5. CASE /\ attached = "gone" => attached' = "gone"
           /\ UNCHANGED clientVars
  BY <1>5 DEF clientVars, TaskInv, GenBefore
<1>6. \/ attached # "gone" /\ AdapterBinds
      \/ attached # "gone" /\ \E s \in Signals : AdapterTells(s)
      \/ attached # "gone" /\ HandleClientCall
      \/ Destroyed
      \/ (attached = "gone" => attached' = "gone") /\ UNCHANGED clientVars
  <2>1. CASE Next
    <3>1. attached # "gone"
      BY <2>1 DEF Next
    <3>2. CASE \/ \E flags \in SUBSET Flags : AttachWindow(flags)
               \/ \E o \in Owners : RequestInputBlock(o) \/ ReleaseInputBlock(o)
               \/ \E flag \in {"active", "visible"} : WindowChanges(flag)
               \/ HandleStatusCall \/ Expose \/ SurfaceAboutToBeDestroyed \/ SurfaceCreated
               \/ WindowDestroyed \/ HandleLockStateChanged \/ CompositorActs
      BY <3>1, <3>2
         DEF AttachWindow, RequestInputBlock, ReleaseInputBlock, WindowChanges, HandleStatusCall,
             Expose, SurfaceAboutToBeDestroyed, SurfaceCreated, WindowDestroyed,
             HandleLockStateChanged, CompositorActs, guiVars
    <3>3. CASE \/ \E i \in Inputs : Press(i) \/ Release(i)
               \/ HandleMouseWheelEvent \/ BeginTurn \/ BeginCapture \/ TakeMovement \/ LoadGeneration
               \/ PublishKeyboardMouseControl
      BY <3>1, <3>3
         DEF Press, Release, HandleMouseWheelEvent, BeginTurn, BeginCapture, TakeMovement,
             LoadGeneration,
             PublishKeyboardMouseControl, PubUnchanged, guiVars
    <3> QED
      BY <2>1, <3>1, <3>2, <3>3 DEF Next, Alive
  <2>2. CASE UNCHANGED vars
    BY <2>2 DEF vars, guiVars
  <2> QED
    BY <2>1, <2>2
<1> QED
  BY <1>1, <1>2, <1>3, <1>4, <1>5, <1>6

LEMMA InitHasTask == Init => TaskInv
<1> SUFFICES ASSUME Init PROVE TaskInv
  OBVIOUS
<1>1. /\ adapter = [gen |-> 0, told |-> "nothing", count |-> 0] /\ adapter.gen = 0
      /\ adapter.told = "nothing" /\ curGen = 0 /\ taskHandle = FALSE /\ clientCalls = <<>>
  BY DEF Init
<1>2. adapter \in [gen : Nat, told : Signals, count : Nat]
  BY <1>1 DEF Signals
<1>3. clientCalls \in Seq(Slots) /\ Len(clientCalls) = 0
  BY <1>1
<1>4. \A i \in 1..Len(clientCalls) : FALSE
  BY <1>3
<1> QED
  BY <1>1, <1>2, <1>3, <1>4 DEF TaskInv

\* The queue is in the order of the generations, all between the dispatcher's and
\* the adapter's.  A run began for and reads none that the dispatcher has not heard
\* of; and once a message has strayed, the run there is began for the new client.
PubInv ==
    /\ pub \in [at : {"idle", "due", "taking", "loading", "sending"}, begun : Nat, gen : Nat]
    /\ strays \in {0, 1}
    /\ curGen <= adapter.gen
    /\ \A i \in 1..Len(clientCalls) :
         curGen <= clientCalls[i].gen /\ clientCalls[i].gen <= adapter.gen
    /\ \A i, j \in 1..Len(clientCalls) : i < j => clientCalls[i].gen <= clientCalls[j].gen
    /\ pub.begun <= curGen /\ pub.gen <= curGen
    /\ strays = 1 /\ pub.at # "idle" => pub.begun = curGen

LEMMA QueuedKeepsPub ==
    ASSUME TaskInv, PubInv, NEW call \in Slots, clientCalls' = Append(clientCalls, call),
           adapter.gen <= adapter'.gen, adapter'.gen \in Nat, call.gen = adapter'.gen,
           UNCHANGED <<curGen, pub, strays>>
    PROVE  PubInv'
<1>1. clientCalls \in Seq(Slots) /\ Len(clientCalls) \in Nat /\ curGen \in Nat /\ adapter.gen \in Nat
  BY DEF TaskInv
<1>2. /\ Len(clientCalls') = Len(clientCalls) + 1
      /\ \A i \in 1..Len(clientCalls) : clientCalls'[i] = clientCalls[i] /\ clientCalls[i].gen \in Nat
      /\ clientCalls'[Len(clientCalls) + 1] = call
  <2>1. \A i \in 1..Len(clientCalls) : clientCalls[i] \in Slots
    BY <1>1
  <2>2. \A c \in Slots : c.gen \in Nat
    BY DEF Slots
  <2> QED
    BY <1>1, <2>1, <2>2
<1>3. ASSUME NEW i \in 1..Len(clientCalls')
      PROVE  curGen' <= clientCalls'[i].gen /\ clientCalls'[i].gen <= adapter'.gen
  <2>1. CASE i \in 1..Len(clientCalls)
    BY <1>1, <1>2, <2>1 DEF PubInv
  <2>2. CASE i = Len(clientCalls) + 1
    BY <1>1, <1>2, <2>2 DEF PubInv
  <2> QED
    BY <1>1, <1>2, <2>1, <2>2
<1>4. ASSUME NEW i \in 1..Len(clientCalls'), NEW j \in 1..Len(clientCalls'), i < j
      PROVE  clientCalls'[i].gen <= clientCalls'[j].gen
  <2>1. i \in 1..Len(clientCalls)
    BY <1>1, <1>2, <1>4
  <2>2. CASE j \in 1..Len(clientCalls)
    BY <1>2, <1>4, <2>1, <2>2 DEF PubInv
  <2>3. CASE j = Len(clientCalls) + 1
    <3>1. clientCalls[i].gen <= adapter.gen
      BY <2>1 DEF PubInv
    <3> QED
      BY <1>1, <1>2, <2>1, <2>3, <3>1
  <2> QED
    BY <1>1, <1>2, <2>2, <2>3
<1>5. curGen' <= adapter'.gen
  BY <1>1 DEF PubInv
<1> QED
  BY <1>3, <1>4, <1>5 DEF PubInv

\* The dispatcher takes over a generation that is not older than its own; with a
\* new one nothing has strayed yet.
LEMMA HandledKeepsPub ==
    ASSUME TaskInv, PubInv, HandleClientCall
    PROVE  PubInv'
<1> DEFINE call == clientCalls[1]
<1>1. /\ clientCalls # <<>> /\ clientCalls' = Tail(clientCalls) /\ clientCalls \in Seq(Slots)
      /\ curGen' = IF call.what = "bindingChanged" THEN call.gen ELSE curGen
      /\ strays' = IF call.what = "bindingChanged" THEN 0 ELSE strays
      /\ UNCHANGED <<adapter, pub>>
      /\ curGen \in Nat /\ adapter.gen \in Nat
  BY DEF TaskInv, HandleClientCall, ClientUnchanged
<1>2. /\ Len(clientCalls) \in Nat /\ 1 \in 1..Len(clientCalls) /\ call \in Slots
      /\ Len(clientCalls') = Len(clientCalls) - 1
      /\ \A i \in 1..Len(clientCalls') :
           clientCalls'[i] = clientCalls[i + 1] /\ i + 1 \in 1..Len(clientCalls) /\ 1 < i + 1
  BY <1>1
<1>3. call.gen \in Nat /\ curGen <= call.gen /\ call.gen <= adapter.gen
  BY <1>2 DEF Slots, PubInv
<1>4. \A i \in 1..Len(clientCalls) : clientCalls[i] \in Slots /\ clientCalls[i].gen \in Nat
  <2>1. \A i \in 1..Len(clientCalls) : clientCalls[i] \in Slots
    BY <1>1
  <2>2. \A c \in Slots : c.gen \in Nat
    BY DEF Slots
  <2> QED
    BY <2>1, <2>2
<1>5. \A i \in 2..Len(clientCalls) : call.gen <= clientCalls[i].gen
  BY <1>2 DEF PubInv
<1>6. curGen \in Nat /\ curGen' \in Nat /\ curGen <= curGen' /\ curGen' <= call.gen
  BY <1>1, <1>3
<1> HIDE DEF call
<1>7. ASSUME NEW i \in 1..Len(clientCalls')
      PROVE  curGen' <= clientCalls'[i].gen /\ clientCalls'[i].gen <= adapter'.gen
  <2>1. call.gen <= clientCalls[i + 1].gen /\ clientCalls[i + 1].gen <= adapter.gen
    BY <1>2, <1>5 DEF PubInv
  <2> QED
    BY <1>1, <1>2, <1>3, <1>4, <1>6, <2>1
<1>8. ASSUME NEW i \in 1..Len(clientCalls'), NEW j \in 1..Len(clientCalls'), i < j
      PROVE  clientCalls'[i].gen <= clientCalls'[j].gen
  <2>1. i + 1 < j + 1
    BY <1>2, <1>8
  <2> QED
    BY <1>2, <2>1 DEF PubInv
<1>9. curGen' <= adapter'.gen
  BY <1>1, <1>3, <1>6
<1>10. pub'.begun <= curGen' /\ pub'.gen <= curGen'
  <2>1. pub.begun \in Nat /\ pub.gen \in Nat /\ pub.begun <= curGen /\ pub.gen <= curGen
    BY DEF PubInv
  <2> QED
    BY <1>1, <1>6, <2>1
<1>11. strays' = 1 /\ pub'.at # "idle" => pub'.begun = curGen'
  BY <1>1 DEF PubInv
<1> QED
  BY <1>1, <1>7, <1>8, <1>9, <1>10, <1>11 DEF PubInv

\* What is accepted was read as the generation of the dispatcher and the adapter
\* alike, so a run that began for it is no stray.
LEMMA RunsKeepPub ==
    ASSUME TaskInv, PubInv,
           BeginTurn \/ BeginCapture \/ TakeMovement \/ LoadGeneration \/ PublishKeyboardMouseControl
    PROVE  PubInv'
<1>1. UNCHANGED <<adapter, clientCalls, curGen>> /\ curGen \in Nat /\ adapter.gen \in Nat
  BY DEF BeginTurn, BeginCapture, TakeMovement, LoadGeneration, PublishKeyboardMouseControl,
         PubUnchanged, clientVars, TaskInv
<1>2. pub \in [at : {"idle", "due", "taking", "loading", "sending"}, begun : Nat, gen : Nat]
  BY DEF PubInv
<1>3. /\ pub' \in [at : {"idle", "due", "taking", "loading", "sending"}, begun : Nat, gen : Nat]
      /\ strays' \in {0, 1}
      /\ pub'.begun <= curGen /\ pub'.gen <= curGen
      /\ strays' = 1 /\ pub'.at # "idle" => pub'.begun = curGen
  <2>1. CASE BeginTurn
    <3>1. startedFor = curGen
      BY <2>1 DEF BeginTurn, TaskInv
    <3> QED
      BY <1>1, <2>1, <3>1 DEF BeginTurn, PubInv
  <2>2. CASE BeginCapture
    BY <1>1, <1>2, <2>2 DEF BeginCapture, PubInv
  <2>3. CASE TakeMovement
    BY <1>1, <1>2, <2>3 DEF TakeMovement, PubInv
  <2>4. CASE LoadGeneration
    <3>1. /\ pub' = [pub EXCEPT !.at = "sending", !.gen = curGen] /\ strays' = strays
          /\ pub.at # "idle"
      BY <2>4 DEF LoadGeneration
    <3>2. /\ pub' \in [at : {"idle", "due", "taking", "loading", "sending"}, begun : Nat, gen : Nat]
          /\ pub'.begun = pub.begun /\ pub'.gen = curGen
      BY <1>1, <1>2, <3>1
    <3> QED
      BY <1>1, <3>1, <3>2 DEF PubInv
  <2>5. CASE PublishKeyboardMouseControl
    <3>1. pub.at = "sending" /\ pub' = Idle
      BY <2>5 DEF PublishKeyboardMouseControl
    <3>2. strays' \in {0, 1}
      <4>1. CASE Accepted /\ pub.begun # pub.gen
        <5>1. pub.gen = curGen
          BY <1>1, <1>2, <4>1 DEF Accepted, PubInv
        <5>2. strays = 0
          BY <3>1, <4>1, <5>1 DEF PubInv
        <5> QED
          BY <2>5, <4>1, <5>2 DEF PublishKeyboardMouseControl
      <4>2. CASE ~(Accepted /\ pub.begun # pub.gen)
        BY <2>5, <4>2 DEF PublishKeyboardMouseControl, PubInv
      <4> QED
        BY <4>1, <4>2
    <3> QED
      BY <1>1, <3>1, <3>2 DEF Idle
  <2> QED
    BY <2>1, <2>2, <2>3, <2>4, <2>5
<1> QED
  BY <1>1, <1>3 DEF PubInv

LEMMA NextKeepsPub ==
    ASSUME TaskInv, PubInv, [Next]_vars
    PROVE  PubInv'
<1>1. CASE AdapterBinds
  <2> DEFINE call == [what |-> "bindingChanged", gen |-> adapter.gen + 1]
  <2>1. /\ clientCalls' = Append(clientCalls, call) /\ UNCHANGED <<curGen, pub, strays>>
        /\ adapter' = [adapter EXCEPT !.gen = @ + 1, !.told = "nothing"]
        /\ adapter \in [gen : Nat, told : Signals, count : Nat]
    BY <1>1 DEF AdapterBinds, ClientUnchanged, TaskInv
  <2>2. /\ adapter'.gen = adapter.gen + 1 /\ adapter'.gen \in Nat /\ adapter.gen <= adapter'.gen
        /\ call \in Slots /\ call.gen = adapter'.gen
    BY <2>1 DEF Slots
  <2> HIDE DEF call
  <2> QED
    BY <2>1, <2>2, QueuedKeepsPub
<1>2. ASSUME NEW signal \in Signals, AdapterTells(signal)
      PROVE  PubInv'
  <2> DEFINE call == [what |-> signal, gen |-> adapter.gen]
  <2>1. /\ clientCalls' = Append(clientCalls, call) /\ UNCHANGED <<curGen, pub, strays>>
        /\ adapter' = [adapter EXCEPT !.told = signal, !.count = @ + 1]
        /\ adapter \in [gen : Nat, told : Signals, count : Nat]
    BY <1>2 DEF AdapterTells, ClientUnchanged, TaskInv
  <2>2. /\ adapter'.gen = adapter.gen /\ adapter'.gen \in Nat /\ adapter.gen <= adapter'.gen
        /\ call \in Slots /\ call.gen = adapter'.gen
    BY <2>1 DEF Slots
  <2> HIDE DEF call
  <2> QED
    BY <2>1, <2>2, QueuedKeepsPub
<1>3. CASE HandleClientCall
  BY <1>3, HandledKeepsPub
<1>4. CASE BeginTurn \/ BeginCapture \/ TakeMovement \/ LoadGeneration \/ PublishKeyboardMouseControl
  BY <1>4, RunsKeepPub
<1>5. CASE Destroyed
  <2>1. clientCalls' = <<>> /\ UNCHANGED <<adapter, curGen, pub, strays>>
    BY <1>5 DEF Destroyed, pubVars
  <2>2. Len(clientCalls') = 0
    BY <2>1
  <2>3. \A i \in 1..Len(clientCalls') : FALSE
    BY <2>2
  <2> QED
    BY <2>1, <2>3 DEF PubInv
<1>6. CASE UNCHANGED <<clientVars, pubVars>>
  BY <1>6 DEF clientVars, pubVars, PubInv
<1> QED
  BY <1>1, <1>2, <1>3, <1>4, <1>5, <1>6
     DEF Next, Alive, AttachWindow, RequestInputBlock, ReleaseInputBlock, WindowChanges,
         HandleStatusCall, Expose, SurfaceAboutToBeDestroyed, SurfaceCreated, WindowDestroyed,
         HandleLockStateChanged, CompositorActs, Press, Release, HandleMouseWheelEvent, vars

LEMMA InitHasPub == Init => PubInv
<1> SUFFICES ASSUME Init PROVE PubInv
  OBVIOUS
<1>1. curGen = 0 /\ adapter.gen = 0 /\ clientCalls = <<>> /\ pub = Idle /\ strays = 0
  BY DEF Init
<1>2. Len(clientCalls) = 0
  BY <1>1
<1>3. \A i \in 1..Len(clientCalls) : FALSE
  BY <1>2
<1> QED
  BY <1>1, <1>3 DEF PubInv, Idle

\* What is published under which generation, for any number of bindings and
\* signals and wherever a run of the task stands when its slots act: the task runs
\* for the generation whose connection started it, and of the messages that reach
\* a client at most one is of a run begun for a former one.
THEOREM TaskFollowsGeneration == Spec => []PublishesOwnGeneration
<1>1. TaskInv /\ PubInv => PublishesOwnGeneration
  BY DEF TaskInv, PubInv, PublishesOwnGeneration
<1> QED
  BY <1>1, InitHasTask, NextKeepsTask, InitHasPub, NextKeepsPub, PTL DEF Spec

-----------------------------------------------------------------------------
\* The types, beyond those the three parts hold already.

WindowTypeOK ==
    /\ seat \in BOOLEAN
    /\ window \subseteq Flags
    /\ blocks \subseteq Owners
    /\ fingers \subseteq Inputs /\ down \subseteq Inputs
    /\ statusCalls \in BOOLEAN /\ quickReturn \in BOOLEAN
    /\ mouseZ \in 0..MaxWheel

ClientTypeOK ==
    /\ adapter \in [gen : 0..MaxGen, told : Signals, count : 0..MaxSignals]
    /\ \A i \in DOMAIN clientCalls :
         clientCalls[i] \in [what : Signals \cup {"bindingChanged"}, gen : 1..MaxGen]
    /\ curGen \in 0..MaxGen
    /\ startedFor \in 0..MaxGen

LEMMA StatusTyped ==
    ASSUME WindowTypeOK, NEW status, SetInputStatus(status)
    PROVE  down' \subseteq Inputs /\ quickReturn' \in BOOLEAN /\ mouseZ' \in 0..MaxWheel
<1>1. 0 \in 0..MaxWheel
  BY InputDispatcherAssumption
<1> QED
  BY <1>1 DEF SetInputStatus, WindowTypeOK

LEMMA UpdateTyped ==
    ASSUME WindowTypeOK, NEW flags, NEW owners,
           UpdateInputStatus(flags, owners) \/ \E c : UpdateAttached(flags, owners, c)
    PROVE  down' \subseteq Inputs /\ quickReturn' \in BOOLEAN /\ mouseZ' \in 0..MaxWheel
<1>1. PICK status : SetInputStatus(status)
  BY DEF UpdateInputStatus, UpdateAttached
<1> QED
  BY <1>1, StatusTyped

LEMMA NextKeepsWindowType == WindowTypeOK /\ [Next]_vars => WindowTypeOK'
<1> SUFFICES ASSUME WindowTypeOK, [Next]_vars PROVE WindowTypeOK'
  OBVIOUS
<1>1. CASE \/ \E flags \in SUBSET Flags : AttachWindow(flags)
           \/ \E o \in Owners : RequestInputBlock(o) \/ ReleaseInputBlock(o)
           \/ HandleStatusCall \/ Expose \/ SurfaceCreated
  <2>1. UNCHANGED <<seat, fingers>>
    BY <1>1 DEF AttachWindow, RequestInputBlock, ReleaseInputBlock, HandleStatusCall, Expose,
                SurfaceCreated, envVars
  <2>2. window' \subseteq Flags /\ blocks' \subseteq Owners /\ statusCalls' \in BOOLEAN
    BY <1>1 DEF AttachWindow, RequestInputBlock, ReleaseInputBlock, HandleStatusCall, Expose,
                SurfaceCreated, WindowTypeOK, Flags
  <2>3. \E flags, owners :
          UpdateInputStatus(flags, owners) \/ \E c : UpdateAttached(flags, owners, c)
    BY <1>1 DEF AttachWindow, RequestInputBlock, ReleaseInputBlock, HandleStatusCall, Expose,
                SurfaceCreated
  <2>4. down' \subseteq Inputs /\ quickReturn' \in BOOLEAN /\ mouseZ' \in 0..MaxWheel
    BY <2>3, UpdateTyped
  <2> QED
    BY <2>1, <2>2, <2>4 DEF WindowTypeOK
<1>2. CASE SurfaceAboutToBeDestroyed \/ WindowDestroyed
  <2>1. UNCHANGED <<seat, fingers, blocks>>
    BY <1>2 DEF SurfaceAboutToBeDestroyed, WindowDestroyed, envVars
  <2>2. window' \subseteq Flags /\ statusCalls' \in BOOLEAN
    BY <1>2 DEF SurfaceAboutToBeDestroyed, WindowDestroyed, WindowTypeOK, Flags
  <2>3. \E status : SetInputStatus(status)
    BY <1>2 DEF SurfaceAboutToBeDestroyed, WindowDestroyed
  <2>4. down' \subseteq Inputs /\ quickReturn' \in BOOLEAN /\ mouseZ' \in 0..MaxWheel
    BY <2>3, StatusTyped
  <2> QED
    BY <2>1, <2>2, <2>4 DEF WindowTypeOK
<1>3. ASSUME NEW flag \in {"active", "visible"}, WindowChanges(flag)
      PROVE  WindowTypeOK'
  BY <1>3 DEF WindowChanges, statusVars, envVars, WindowTypeOK, Flags
<1>4. ASSUME NEW i \in Inputs, Press(i) \/ Release(i)
      PROVE  WindowTypeOK'
  BY <1>4 DEF Press, Release, guiVars, envVars, WindowTypeOK
<1>5. CASE HandleMouseWheelEvent
  <2>1. mouseZ' \in 0..MaxWheel
    BY <1>5, InputDispatcherAssumption DEF HandleMouseWheelEvent, WindowTypeOK
  <2> QED
    BY <1>5, <2>1 DEF HandleMouseWheelEvent, guiVars, envVars, WindowTypeOK
<1>6. CASE HandleLockStateChanged
  BY <1>6 DEF HandleLockStateChanged, guiVars, envVars, WindowTypeOK
<1>7. CASE CompositorActs
  <2>1. seat' \in BOOLEAN
    BY <1>7 DEF CompositorActs, Compositor, HandleProtocolAvailabilityChanged, SeatChanges,
                LockedEvent, UnlockedEvent, RelativeMotion, envVars, WindowTypeOK
  <2> QED
    BY <1>7, <2>1 DEF CompositorActs, guiVars, statusVars, WindowTypeOK
<1>8. CASE AdapterBinds \/ (\E s \in Signals : AdapterTells(s)) \/ HandleClientCall \/ UNCHANGED vars
  <2>1. UNCHANGED <<guiVars, fingers, statusVars, envVars>>
    BY <1>8 DEF AdapterBinds, AdapterTells, HandleClientCall, ClientUnchanged, vars
  <2> QED
    BY <2>1 DEF guiVars, statusVars, envVars, WindowTypeOK
<1>9. CASE BeginTurn \/ BeginCapture \/ TakeMovement \/ LoadGeneration \/ PublishKeyboardMouseControl
  <2>1. mouseZ' \in 0..MaxWheel
    BY <1>9, InputDispatcherAssumption
       DEF BeginTurn, BeginCapture, TakeMovement, LoadGeneration, PublishKeyboardMouseControl, WindowTypeOK
  <2>2. PubUnchanged
    BY <1>9 DEF BeginTurn, BeginCapture, TakeMovement, LoadGeneration, PublishKeyboardMouseControl
  <2> QED
    BY <2>1, <2>2 DEF PubUnchanged, guiVars, envVars, WindowTypeOK
<1>10. CASE Destroyed
  BY <1>10 DEF Destroyed, envVars, WindowTypeOK
<1> QED
  BY <1>1, <1>2, <1>3, <1>4, <1>5, <1>6, <1>7, <1>8, <1>9, <1>10 DEF Next, Alive

LEMMA NextKeepsClientType ==
    ASSUME TaskInv, ClientTypeOK, [Next]_vars
    PROVE  ClientTypeOK'
<1> DEFINE Typed == [what : Signals \cup {"bindingChanged"}, gen : 1..MaxGen]
<1>1. clientCalls \in Seq(Slots) /\ \A i \in DOMAIN clientCalls : clientCalls[i] \in Typed
  BY DEF TaskInv, ClientTypeOK
<1>2. \/ UNCHANGED <<adapter, clientCalls, curGen, startedFor>>
      \/ AdapterBinds \/ (\E s \in Signals : AdapterTells(s)) \/ HandleClientCall \/ Destroyed
  <2>1. CASE UNCHANGED clientVars
    BY <2>1 DEF clientVars
  <2>2. CASE PubUnchanged
    BY <2>2 DEF PubUnchanged, clientVars
  <2> QED
    BY <2>1, <2>2
       DEF Next, Alive, AttachWindow, RequestInputBlock, ReleaseInputBlock, WindowChanges,
           HandleStatusCall, Expose, SurfaceAboutToBeDestroyed, SurfaceCreated, WindowDestroyed,
           HandleLockStateChanged, CompositorActs, Press, Release, HandleMouseWheelEvent,
           BeginTurn, BeginCapture, TakeMovement, LoadGeneration, PublishKeyboardMouseControl, vars
<1>3. CASE UNCHANGED <<adapter, clientCalls, curGen, startedFor>>
  BY <1>3 DEF ClientTypeOK
<1>4. ASSUME NEW call \in Typed, clientCalls' = Append(clientCalls, call)
      PROVE  \A i \in DOMAIN clientCalls' : clientCalls'[i] \in Typed
  <2> SUFFICES ASSUME NEW i \in DOMAIN clientCalls' PROVE clientCalls'[i] \in Typed
    OBVIOUS
  <2> HIDE DEF Typed
  <2>1. clientCalls'[i] = call \/ (i \in DOMAIN clientCalls /\ clientCalls'[i] = clientCalls[i])
    BY <1>1, <1>4
  <2> QED
    BY <1>1, <1>4, <2>1
<1>5. CASE AdapterBinds
  <2>1. adapter.gen + 1 \in 1..MaxGen /\ adapter.gen + 1 \in 0..MaxGen
    BY <1>5, InputDispatcherAssumption DEF AdapterBinds, ClientTypeOK
  <2>2. adapter' \in [gen : 0..MaxGen, told : Signals, count : 0..MaxSignals]
    BY <1>5, <2>1 DEF AdapterBinds, ClientTypeOK, Signals
  <2>3. \A i \in DOMAIN clientCalls' : clientCalls'[i] \in Typed
    BY <1>4, <1>5, <2>1 DEF AdapterBinds
  <2> QED
    BY <1>5, <2>2, <2>3 DEF AdapterBinds, ClientTypeOK
<1>6. ASSUME NEW s \in Signals, AdapterTells(s)
      PROVE  ClientTypeOK'
  <2>1. adapter.gen \in 1..MaxGen /\ adapter.count + 1 \in 0..MaxSignals
    BY <1>6, InputDispatcherAssumption DEF AdapterTells, ClientTypeOK
  <2>2. adapter' \in [gen : 0..MaxGen, told : Signals, count : 0..MaxSignals]
    BY <1>6, <2>1 DEF AdapterTells, ClientTypeOK
  <2>3. \A i \in DOMAIN clientCalls' : clientCalls'[i] \in Typed
    BY <1>4, <1>6, <2>1 DEF AdapterTells
  <2> QED
    BY <1>6, <2>2, <2>3 DEF AdapterTells, ClientTypeOK
<1>7. CASE HandleClientCall
  <2>1. clientCalls # <<>> /\ clientCalls' = Tail(clientCalls) /\ adapter' = adapter
    BY <1>7 DEF HandleClientCall
  <2>2. 1 \in DOMAIN clientCalls /\ Head(clientCalls) = clientCalls[1]
    BY <1>1, <2>1
  <2>3. clientCalls[1].gen \in 0..MaxGen
    BY <1>1, <2>2, InputDispatcherAssumption
  <2>4. \A i \in DOMAIN clientCalls' : i + 1 \in DOMAIN clientCalls /\ clientCalls'[i] = clientCalls[i + 1]
    BY <1>1, <2>1
  <2>5. \A i \in DOMAIN clientCalls' : clientCalls'[i] \in Typed
    BY <1>1, <2>4
  <2>6. curGen' \in 0..MaxGen /\ startedFor' \in 0..MaxGen
    BY <1>7, <2>2, <2>3 DEF HandleClientCall, ClientTypeOK
  <2> QED
    BY <2>1, <2>5, <2>6 DEF ClientTypeOK
<1>8. CASE Destroyed
  <2>1. DOMAIN clientCalls' = {}
    BY <1>8 DEF Destroyed
  <2> QED
    BY <1>8, <2>1 DEF Destroyed, ClientTypeOK
<1> QED
  BY <1>2, <1>3, <1>5, <1>6, <1>7, <1>8

\* Every reachable state of the dispatcher, the control of the cursor and the
\* publishing task is well typed, for all keys, owners and bounds.
THEOREM TypeCorrect == Spec => []TypeOK
<1>1. Init => WindowTypeOK /\ ClientTypeOK
  <2> SUFFICES ASSUME Init PROVE WindowTypeOK /\ ClientTypeOK
    OBVIOUS
  <2>1. 0 \in 0..MaxWheel /\ 0 \in 0..MaxGen /\ 0 \in 0..MaxSignals /\ "nothing" \in Signals
    BY InputDispatcherAssumption DEF Signals
  <2>2. clientCalls = <<>> /\ DOMAIN clientCalls = {}
    BY DEF Init
  <2> QED
    BY <2>1, <2>2 DEF Init, WindowTypeOK, ClientTypeOK
<1>2. CursorInv /\ TaskInv /\ PubInv /\ WindowTypeOK /\ ClientTypeOK => TypeOK
  <2> SUFFICES ASSUME CursorInv, TaskInv, PubInv, WindowTypeOK, ClientTypeOK PROVE TypeOK
    OBVIOUS
  <2>1. /\ pub \in [at : {"idle", "due", "taking", "loading", "sending"}, begun : Nat, gen : Nat]
        /\ pub.begun <= curGen /\ pub.gen <= curGen /\ curGen \in 0..MaxGen
        /\ strays \in 0..1
    BY DEF PubInv, ClientTypeOK
  <2>2. pub.begun \in 0..MaxGen /\ pub.gen \in 0..MaxGen
    BY <2>1, InputDispatcherAssumption
  <2>3. pub \in [at : {"idle", "due", "taking", "loading", "sending"}, begun : 0..MaxGen, gen : 0..MaxGen]
    BY <2>1, <2>2
  <2> QED
    BY <2>1, <2>3
       DEF CursorInv, StatusTypeOK, CursorOk, TaskInv, WindowTypeOK, ClientTypeOK, TypeOK, CursorTypeOK
<1> QED
  BY <1>1, <1>2, InitHasCursor, NextKeepsCursor, InitHasTask, NextKeepsTask, InitHasPub, NextKeepsPub,
     NextKeepsWindowType, NextKeepsClientType, PTL DEF Spec
=============================================================================
