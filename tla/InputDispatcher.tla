--------------------------- MODULE InputDispatcher ---------------------------
(***************************************************************************)
(* GInputEventDispatcher: what is pressed while the window captures the    *)
(* input, the cursor that is hidden and locked meanwhile, and the task     *)
(* that publishes it.  The GUI thread runs events and queued slots, each   *)
(* to its end; the scheduler's thread runs the task between and beside     *)
(* them.  The adapter emits its signals on the GUI thread, and the slots   *)
(* for them are queued once more.                                          *)
(***************************************************************************)
EXTENDS CursorControl, Naturals, Sequences, SignalOrder

CONSTANTS
    Inputs,         \* the keys of the mask and the buttons
    Owners,         \* objects that may block the input
    MaxGen,         \* bound: bindings
    MaxSignals,     \* bound: signals of the adapter
    MaxWheel        \* bound: wheel steps that wait

ASSUME InputDispatcherAssumption ==
    MaxGen \in Nat /\ MaxSignals \in Nat /\ MaxWheel \in Nat

VARIABLES
    attached,           \* no window yet, a window, or it was destroyed
    window,             \* what is true of the window
    blocks,             \* _inputBlockRequests
    fingers,            \* what is really pressed
    statusCalls,        \* updateInputStatus is queued, once or more
    quickReturn,        \* the window became active before a queued call saw it inactive
    inputStatus,
    savedCursor,        \* the cursor is hidden
    down,               \* _keyboardValue and the buttons
    mouseZ,
    adapter,            \* generation bound, its last signal, number of signals
    clientCalls,        \* the dispatcher's queued slots of these signals
    curGen, taskHandle,
    startedFor,         \* the generation whose connection started the task
    pub,                \* a run of the task on the scheduler's thread
    strays              \* messages of this generation by runs begun for another one

guiVars == <<attached, window, blocks, statusCalls, quickReturn>>
statusVars == <<inputStatus, savedCursor, down, mouseZ>>
clientVars == <<adapter, clientCalls, curGen, taskHandle, startedFor>>
pubVars == <<pub, strays>>
vars == <<guiVars, fingers, statusVars, cursor, envVars, clientVars, pubVars>>

Flags == {"active", "exposed", "visible"}

TypeOK ==
    /\ CursorTypeOK
    /\ attached \in {"no", "yes", "destroyed", "gone"}
    /\ window \subseteq Flags
    /\ blocks \subseteq Owners
    /\ fingers \subseteq Inputs /\ down \subseteq Inputs
    /\ statusCalls \in BOOLEAN /\ quickReturn \in BOOLEAN
    /\ inputStatus \in {"Unbound", "Suspended", "Captured"}
    /\ savedCursor \in BOOLEAN
    /\ mouseZ \in 0..MaxWheel
    /\ adapter \in [gen : 0..MaxGen, told : Signals, count : 0..MaxSignals]
    /\ \A i \in DOMAIN clientCalls :
         clientCalls[i] \in [what : Signals \cup {"bindingChanged"}, gen : 1..MaxGen]
    /\ curGen \in 0..MaxGen
    /\ taskHandle \in BOOLEAN
    /\ startedFor \in 0..MaxGen
    /\ pub \in [at : {"idle", "due", "taking", "loading", "sending"}, begun : 0..MaxGen, gen : 0..MaxGen]
    /\ strays \in 0..1

\* Begun for no generation, and none read yet.
Idle == [at |-> "idle", begun |-> 0, gen |-> 0]

Init ==
    /\ supported \in BOOLEAN /\ seat = TRUE /\ native \in BOOLEAN
    /\ cursor = NoLock
    /\ attached = "no" /\ window = {} /\ blocks = {}
    /\ fingers = {} /\ down = {} /\ mouseZ = 0
    /\ statusCalls = FALSE /\ quickReturn = FALSE
    /\ inputStatus = "Unbound" /\ savedCursor = FALSE
    /\ adapter = [gen |-> 0, told |-> "nothing", count |-> 0]
    /\ clientCalls = <<>>
    /\ curGen = 0 /\ taskHandle = FALSE /\ startedFor = 0
    /\ pub = Idle /\ strays = 0

-----------------------------------------------------------------------------
\* The status, and the cursor that follows it.

\* What was pressed stays pressed.
SetInputStatusKeepsKeys(status) ==
    /\ inputStatus' = status
    /\ mouseZ' = IF status # inputStatus THEN 0 ELSE mouseZ
    /\ UNCHANGED down
    /\ quickReturn' = (quickReturn /\ status = inputStatus)

\* setInputStatus() with resetInputState(): a change releases everything.
SetInputStatus(status) ==
    /\ inputStatus' = status
    /\ IF status # inputStatus THEN down' = {} /\ mouseZ' = 0 ELSE UNCHANGED <<down, mouseZ>>
    /\ quickReturn' = (quickReturn /\ status = inputStatus)

\* The movement collected so far is thrown away with the rest.
ResetMovement(status, c) == IF status # inputStatus THEN ClearDeltaMovement(c) ELSE c

\* updateCursorState(): a lock that is asked for or granted is left alone.
UpdateCursorState(status, c) ==
    IF status # "Captured"
    THEN /\ cursor' = Unlock(c)
         /\ savedCursor' = FALSE
    ELSE /\ cursor' = IF c.lockState = "Unlocked" THEN Lock(c) ELSE c
         /\ savedCursor' = (savedCursor \/ c.lockState \in {"Unsupported", "Unlocked"})

\* updateInputStatus() of a window, of what is true of it and who blocks it.
UpdateAttached(flags, owners, c) ==
    LET status == IF owners = {} /\ flags = Flags THEN "Captured" ELSE "Suspended" IN
    /\ SetInputStatus(status)
    /\ UpdateCursorState(status, ResetMovement(status, c))

UpdateInputStatus(flags, owners) ==
    IF attached = "yes" THEN UpdateAttached(flags, owners, cursor)
    ELSE /\ SetInputStatus("Unbound")
         /\ cursor' = ResetMovement("Unbound", cursor)
         /\ UNCHANGED savedCursor

-----------------------------------------------------------------------------
\* The GUI thread: the calls.

\* Another window may follow one that was destroyed: it gets a control of its own,
\* while the calls that the old one queued are still to come.
AttachWindow(flags) ==
    /\ attached \in {"no", "destroyed"}
    /\ flags \subseteq {"active"} \/ native
    /\ attached' = "yes"
    /\ window' = flags
    /\ UpdateAttached(flags, blocks, [NewControl EXCEPT !.changed = cursor.changed])
    /\ UNCHANGED <<blocks, statusCalls, fingers, envVars, clientVars, pubVars>>

RequestInputBlock(owner) ==
    /\ owner \notin blocks
    /\ blocks' = blocks \cup {owner}
    /\ UpdateInputStatus(window, blocks')
    /\ UNCHANGED <<attached, window, statusCalls, fingers, envVars, clientVars, pubVars>>

\* Asked for, or because the owner is destroyed.
ReleaseInputBlock(owner) ==
    /\ owner \in blocks
    /\ blocks' = blocks \ {owner}
    /\ UpdateInputStatus(window, blocks')
    /\ UNCHANGED <<attached, window, statusCalls, fingers, envVars, clientVars, pubVars>>

-----------------------------------------------------------------------------
\* The GUI thread: the window's events.

\* activeChanged and visibleChanged are queued.
WindowChanges(flag) ==
    /\ attached = "yes"
    /\ flag = "visible" => native
    /\ window' = IF flag \in window THEN window \ {flag} ELSE window \cup {flag}
    /\ statusCalls' = TRUE
    /\ quickReturn' = (quickReturn \/ (statusCalls /\ "active" \in window' \ window))
    /\ UNCHANGED <<attached, blocks, fingers, statusVars, cursor, envVars, clientVars, pubVars>>

HandleStatusCall ==
    /\ statusCalls
    /\ statusCalls' = FALSE
    /\ UpdateInputStatus(window, blocks)
    /\ UNCHANGED <<attached, window, blocks, fingers, envVars, clientVars, pubVars>>

Expose ==
    /\ attached = "yes"
    /\ native
    /\ window' = IF "exposed" \in window THEN window \ {"exposed"} ELSE window \cup {"exposed"}
    /\ UpdateInputStatus(window', blocks)
    /\ UNCHANGED <<attached, blocks, statusCalls, fingers, envVars, clientVars, pubVars>>

\* The lock is left to go with the surface.
SurfaceAboutToBeDestroyedStatusOnly ==
    /\ attached = "yes"
    /\ native
    /\ native' = FALSE
    /\ window' = window \ {"visible", "exposed"}
    /\ statusCalls' = TRUE
    /\ SetInputStatus("Suspended")
    /\ cursor' = ResetMovement("Suspended", cursor)
    /\ UNCHANGED <<attached, blocks, fingers, savedCursor, supported, seat, clientVars, pubVars>>

\* The window is hidden first.
SurfaceAboutToBeDestroyed ==
    /\ attached = "yes"
    /\ native
    /\ native' = FALSE
    /\ window' = window \ {"visible", "exposed"}
    /\ statusCalls' = TRUE
    /\ SetInputStatus("Suspended")
    /\ UpdateCursorState("Suspended", ResetMovement("Suspended", cursor))
    /\ UNCHANGED <<attached, blocks, fingers, supported, seat, clientVars, pubVars>>

SurfaceCreated ==
    /\ attached = "yes"
    /\ ~native
    /\ native' = TRUE
    /\ UpdateInputStatus(window, blocks)
    /\ UNCHANGED <<attached, window, blocks, statusCalls, fingers, supported, seat, clientVars, pubVars>>

\* Its surface went before; the next window may have one already.
WindowDestroyed ==
    /\ attached = "yes"
    /\ ~native
    /\ attached' = "destroyed"
    /\ window' = {}
    /\ SetInputStatus("Unbound")
    /\ cursor' = ResetMovement("Unbound", cursor)
    /\ savedCursor' = FALSE
    /\ native' \in BOOLEAN
    /\ UNCHANGED <<blocks, statusCalls, fingers, supported, seat, clientVars, pubVars>>

HandleLockStateChanged ==
    /\ cursor.changed
    /\ UpdateCursorState(inputStatus, [cursor EXCEPT !.changed = FALSE])
    /\ UNCHANGED <<guiVars, fingers, inputStatus, down, mouseZ, envVars, clientVars, pubVars>>

CompositorActs ==
    /\ attached = "yes"
    /\ Compositor
    /\ UNCHANGED <<guiVars, fingers, statusVars, clientVars, pubVars>>

\* Events reach the window while it is active, and count while it captures.
Counts == "active" \in window /\ inputStatus = "Captured"

Press(i) ==
    /\ i \notin fingers
    /\ fingers' = fingers \cup {i}
    /\ down' = IF Counts THEN down \cup {i} ELSE down
    /\ UNCHANGED <<guiVars, inputStatus, savedCursor, mouseZ, cursor, envVars, clientVars, pubVars>>

Release(i) ==
    /\ i \in fingers
    /\ fingers' = fingers \ {i}
    /\ down' = IF Counts THEN down \ {i} ELSE down
    /\ UNCHANGED <<guiVars, inputStatus, savedCursor, mouseZ, cursor, envVars, clientVars, pubVars>>

HandleMouseWheelEvent ==
    /\ inputStatus = "Captured"
    /\ mouseZ < MaxWheel
    /\ mouseZ' = mouseZ + 1
    /\ UNCHANGED <<guiVars, fingers, inputStatus, savedCursor, down, cursor, envVars, clientVars, pubVars>>

-----------------------------------------------------------------------------
\* The adapter's signals and the publishing task.

ClientUnchanged == UNCHANGED <<guiVars, fingers, statusVars, cursor, envVars, pub>>

\* The slot is called directly.
AdapterBindsDirect ==
    /\ adapter.gen < MaxGen
    /\ adapter' = [adapter EXCEPT !.gen = @ + 1, !.told = "nothing"]
    /\ curGen' = adapter.gen + 1
    /\ taskHandle' = FALSE
    /\ ClientUnchanged
    /\ UNCHANGED <<clientCalls, startedFor, strays>>

AdapterBinds ==
    /\ adapter.gen < MaxGen
    /\ adapter' = [adapter EXCEPT !.gen = @ + 1, !.told = "nothing"]
    /\ clientCalls' = Append(clientCalls, [what |-> "bindingChanged", gen |-> adapter.gen + 1])
    /\ ClientUnchanged
    /\ UNCHANGED <<curGen, taskHandle, startedFor, strays>>

AdapterTells(signal) ==
    /\ adapter.gen > 0
    /\ adapter.count < MaxSignals
    /\ MayFollow(adapter.told, signal)
    /\ adapter' = [adapter EXCEPT !.told = signal, !.count = @ + 1]
    /\ clientCalls' = Append(clientCalls, [what |-> signal, gen |-> adapter.gen])
    /\ ClientUnchanged
    /\ UNCHANGED <<curGen, taskHandle, startedFor, strays>>

\* connected starts the task, if there is none; the others remove it, which does
\* not wait for a run of it.
HandleClientCall ==
    /\ clientCalls # <<>>
    /\ LET call == Head(clientCalls) IN
       /\ taskHandle' = (call.what = "connected")
       /\ curGen' = IF call.what = "bindingChanged" THEN call.gen ELSE curGen
       /\ startedFor' = IF call.what = "connected" /\ ~taskHandle THEN call.gen ELSE startedFor
       /\ strays' = IF call.what = "bindingChanged" THEN 0 ELSE strays
    /\ clientCalls' = Tail(clientCalls)
    /\ ClientUnchanged
    /\ UNCHANGED adapter

-----------------------------------------------------------------------------
\* The task on the scheduler's thread: publishKeyboardMouseControl() step by step.

PubUnchanged == UNCHANGED <<guiVars, fingers, inputStatus, savedCursor, down, envVars, clientVars>>

\* The scheduler finds that the task is not removed; whatever happens then, it runs.
BeginTurn ==
    /\ pub.at = "idle"
    /\ taskHandle
    /\ pub' = [at |-> "due", begun |-> startedFor, gen |-> 0]
    /\ PubUnchanged
    /\ UNCHANGED <<mouseZ, cursor, strays>>

\* captureInput(): only while the status is Captured there is anything to take.
BeginCapture ==
    /\ pub.at = "due"
    /\ pub' = [pub EXCEPT !.at = IF inputStatus = "Captured" THEN "taking" ELSE "loading"]
    /\ PubUnchanged
    /\ UNCHANGED <<mouseZ, cursor, strays>>

\* The movement is taken away, the keys are only read.
TakeMovement ==
    /\ pub.at = "taking"
    /\ pub' = [pub EXCEPT !.at = "loading"]
    /\ cursor' = ClearDeltaMovement(cursor)
    /\ mouseZ' = 0
    /\ PubUnchanged
    /\ UNCHANGED strays

\* The generation is read when the message is sent, not when the run began.
LoadGeneration ==
    /\ pub.at = "loading"
    /\ pub' = [pub EXCEPT !.at = "sending", !.gen = curGen]
    /\ PubUnchanged
    /\ UNCHANGED <<mouseZ, cursor, strays>>

\* publish() of the adapter refuses a generation that is not the bound one.
Accepted == pub.gen = adapter.gen

PublishKeyboardMouseControl ==
    /\ pub.at = "sending"
    /\ pub' = Idle
    /\ strays' = IF Accepted /\ pub.begun # pub.gen THEN strays + 1 ELSE strays
    /\ PubUnchanged
    /\ UNCHANGED <<mouseZ, cursor>>

-----------------------------------------------------------------------------
\* ~GInputEventDispatcher() waits for the task; what is queued for it is dropped.
Destroyed ==
    /\ pub.at = "idle"
    /\ attached' = "gone"
    /\ cursor' = [Unlock(cursor) EXCEPT !.changed = FALSE]
    /\ savedCursor' = FALSE
    /\ statusCalls' = FALSE
    /\ clientCalls' = <<>>
    /\ taskHandle' = FALSE
    /\ UNCHANGED <<window, blocks, quickReturn, fingers, inputStatus, down, mouseZ, envVars, adapter,
                   curGen, startedFor, pubVars>>

Alive ==
    \/ \E flags \in SUBSET Flags : AttachWindow(flags)
    \/ \E o \in Owners : RequestInputBlock(o) \/ ReleaseInputBlock(o)
    \/ \E flag \in {"active", "visible"} : WindowChanges(flag)
    \/ HandleStatusCall
    \/ Expose
    \/ SurfaceAboutToBeDestroyed
    \/ SurfaceCreated
    \/ WindowDestroyed
    \/ HandleLockStateChanged
    \/ CompositorActs
    \/ \E i \in Inputs : Press(i) \/ Release(i)
    \/ HandleMouseWheelEvent
    \/ AdapterBinds
    \/ \E s \in Signals : AdapterTells(s)
    \/ HandleClientCall
    \/ BeginTurn
    \/ BeginCapture
    \/ TakeMovement
    \/ LoadGeneration
    \/ PublishKeyboardMouseControl

Next == attached # "gone" /\ (Alive \/ Destroyed)

Spec == Init /\ [][Next]_vars

\* The GUI thread empties its queue, and the compositor grants a new
\* request; a lock it ended it need not give back.
FairSpec ==
    /\ Spec
    /\ WF_vars(HandleStatusCall)
    /\ WF_vars(HandleLockStateChanged)
    /\ WF_vars(CompositorActs /\ LockedEvent /\ cursor.pending)

-----------------------------------------------------------------------------
\* Whoever stops the capture, and when the dispatcher goes, the user has the
\* pointer back: it is visible and free, and no movement of a pointer that is not
\* locked is ever collected.
CursorGivenBack ==
    /\ attached = "yes" => (savedCursor <=> inputStatus = "Captured")
    /\ inputStatus # "Captured" \/ attached = "gone" => ~cursor.object /\ ~savedCursor
    /\ cursor.object => native /\ supported
    /\ cursor.moved \/ cursor.record => cursor.lockState = "Locked"
    /\ cursor.lockState = "Locked" => cursor.record /\ cursor.object
    /\ cursor.lockState = "Pending" => cursor.pending /\ cursor.object

\* Nothing stays pressed that is not, as long as a window that was left is seen
\* inactive by the queued call: then the releases it missed are followed by a
\* reset.  When it is active again before that call ran (quickReturn), nothing is
\* reset, and a key released meanwhile stays pressed until the status changes.
NoKeyIsStuck ==
    /\ down \subseteq fingers \/ statusCalls \/ quickReturn \/ attached = "gone"
    /\ inputStatus # "Captured" => down = {} /\ mouseZ = 0

\* The task runs for the generation whose connection started it, and once the
\* calls are handled it runs iff that generation is connected.  A run that the
\* slot of bindingChanged does not wait for may still send, under the generation
\* it reads then: at most one such message reaches each new client, and every
\* other one is of a run begun for the client it reaches.
PublishesOwnGeneration ==
    /\ taskHandle => startedFor = curGen
    /\ clientCalls = <<>> /\ attached # "gone" =>
         (taskHandle <=> adapter.told = "connected") /\ curGen = adapter.gen
    /\ strays <= 1

\* While the input stays captured and there is a pointer all the time, the
\* lock is asked for again whenever the compositor ended it.
CapturedGetsLocked ==
    []seat =>
      (<>[](inputStatus = "Captured" /\ attached = "yes" /\ supported) => []<>cursor.record)
=============================================================================
