# Gen-Tau client: specification and proofs

TLA+ modules beside the code of the Gen-Tau client, a Qt/GStreamer program that
shows the video a robot sends over UDP and exchanges state and commands with a
server over MQTT. The modules model the code under `src/`; paths below are
relative to it.

## The system

| Part | Code | State it keeps | Operations | Talks to |
|---|---|---|---|---|
| Frame pool | `core/img_trans/.../TFramePool.hpp` | free list of buffer indices; who holds a `FrameData` | acquire, restore | reassembler takes, everyone who destroys a `FrameData` gives back |
| Reassembly | `core/img_trans/TReassembly.cpp` | 5 slots, `lastPushedIdx`, `synced`, `lastSyncedTime`, `allowPushIncomplete` | `onPacketRecv`, `ReAsmSlotScan`, `allowPushIncompleteFrames` | called by the receive thread; pushes to the renderer |
| Video renderer | `core/img_trans/TVidRender.cpp` | the GStreamer pipeline, its appsrc, `maxBufferBytes`, the bus thread | construction, `tryPushFrame`, play, pause, stop, restart, flush, destruction | pipeline threads release buffers into the pool; the bus thread emits signals |
| UDP receiver | `core/img_trans/TRecv.cpp` | socket, `jthread`, `ENOMEM_count` | start, stop, stopAsync, bindV4 | calls the reassembler from its thread |
| Scheduler | `core/utils/TScheduler.cpp` | task map, priority queue of times, event loop thread | addTask, removeTask, run, stop, stopAsync | runs the publishing task of the input dispatcher |
| MQTT client | `core/comm/TMqttClient.cpp` | topic map under a lock, connection state in the library | registerTopic, connect, publish, callbacks | Paho's thread delivers to handlers |
| MQTT adapter | `app/modules/core_adapter/mqtt/` | current client, its generation, topic register, snapshot | bind, registerTopic, publish | queued signals to the GUI thread |
| Connection service | `app/modules/services/conn/` | parameters, connected and streaming flags | bind, handlers of the adapter, of the stream | receiver, renderer, adapter |
| Input dispatcher, cursor control | `app/modules/input/` | pressed keys, mouse state, active window, lock of the pointer | event filter, setters, publishing task | scheduler, compositor |
| Hero deploy mode | `app/modules/models/bots/hero/` | mode wanted, reported and effective; press in progress; byte-stream renderer | key events, status messages, animation | adapter, renderer |
| Bot, game, global status models | `app/modules/models/` | copies of messages | message handlers, selection of the bot | adapter |
| Byte-stream renderer | `core/img_trans/TBytesVidRender.cpp` | as the video renderer | push of bytes | hero model |
| Context, UI, logging, build | `app/main.cpp`, `app/modules/app_context/`, QML, `core/utils/TLog*` | none that matters here | construction, layout, formatting | |

What is hard in it, and what makes each part correct:

* **Pool, reassembly, renderer.** Three kinds of threads share the buffers: the
  receive thread, the pipeline's streaming threads and the owner's. A buffer must
  have one owner at a time through failed pushes, evictions, new sessions, flushes
  and stops. Datagrams are lost, duplicated, reordered; indices wrap at 2^16; the
  sender may restart. A frame pushed must be whole (or allowed to be incomplete),
  come after the one before it, and a slot must never be stuck.
* **Receiver.** The thread can end by itself; the owner's calls must neither close
  the socket under it, nor start a second one, nor wait for it for ever.
* **Scheduler.** The mutex is given up while a job runs and while the loop waits;
  tasks come and go meanwhile. No task may be lost, queued twice, given a turn that
  begins after its removal, or run in bursts after a delay; nothing that is due may be
  slept through. Removing a task does not wait for a turn that has begun.
* **MQTT client and adapter, connection service.** Subscriptions race with the
  connection; signals of a client that was replaced are still queued; binding fails
  in the middle.
* **Input, hero.** Keys pressed before the focus is lost; a compositor that answers
  late; a deploy mode that converges through lost and repeated messages; a key that
  must be held without a break.
* **Renderers' pipeline.** The bus thread is stopped, waited for and destroyed in an
  order the members' declaration decides; the fallback decoder is linked from a thread
  of the pipeline, long after the constructor returned.

`PROJECT.json` lists every such hazard at its line, with the properties that cover
it, or why none does.

## Plan

Done:

1. `FramePool`, `VidRender`, `Reassembly`: the path of a frame from datagram to
   decoder; abstract specification `FrameOwnership`; proofs.
2. `RecvThread` and `Scheduler`: the two threads everything else runs on; abstract
   specification `PeriodicTasks` (what those who add tasks can rely on); proofs.
3. `MqttClient` and `MqttAdapter`: topics, generations, queued signals; abstract
   specifications `ClientSignals` (what a client tells, which `MqttAdapter` takes for
   granted) and `ClientSession` (what the adapter promises those above it); proofs.
4. `ConnService` over `MqttAdapter`: what the service shows against what is bound and
   running; proofs, among them that the adapter implements `ClientSession`.
5. `CursorControl`, and `InputDispatcher` over it; proofs.
6. `HeroModel`, and `BotStatus` around it: deploy mode, binding, lost connections;
   proofs.
7. `VidPipeline` and `BytesVidRender`: both renderers from construction to
   destruction; proofs.

Every safety invariant, action property and refinement a run checks is a theorem
now. Left: the receiver's thread as an implementation of the loop `Reassembly` takes
for granted, as `PeriodicTasks` is for the scheduler.

## The modules

### FramePool, VidRender, Reassembly

One state machine in three modules, each extending the one before.

| Model | Code |
|---|---|
| `freeIdxList` (a bag) | the lock-free queue of indices; any free index may come next |
| `Available`, `Taken`, `Restored` | `acquire`, `restore` through `~FrameData` and move assignment |
| `appsrc`, `downstream`, `gst` | buffers queued in the appsrc, buffers held after it, state of the pipeline |
| `TryPushFrame` | `tryPushFrame`: level check, empty frame, push that fails |
| `Stop`, `Restart`, `Flush`, `Play`, `Pause`, `SetMaxBufferBytes` | the calls of those names |
| `Consume`, `Release` | GStreamer: the appsrc hands a buffer on; the last reference goes and the free callback deletes the `FrameData` |
| `rFrames` | the slots; `secs` is `receivedSecs`, `age` the ticks since `asmStartTime`, `bytes` how many bytes of each section were copied |
| `CopySize`, `Overruns`, `crashed` | the number of bytes `fill` hands to `memcpy`, an unsigned difference; a copy longer than what there is ends the process |
| `IgnorePacket`, `DropLatePacket`, `AcceptPacket` | the three ways through `onPacketRecv` |
| `BeginScan`, `ScanSlot` | `ReAsmSlotScan`, one step per slot that timed out, for the pipeline and the flag `allowPushIncomplete` change between them |
| `Tick` | time; ages saturate one past the timeout they are compared with |

`onPacketRecv` is one step: what it shares with other threads is the free list,
the level of the appsrc and the pipeline's state, and it reads each once on its
way (a concurrent release commutes with it). A datagram is `[idx, sec, len,
payload]`: its header, and how many bytes follow. Nothing is assumed of the sender:
`Packets` has the sections of its frames and whatever else may come, sections that are
cut short, empty, or of a longer frame under the same index, which a sender that
started again may send. `fill` takes the length from the slot, and the difference of
line 92 is one of `u32` (`U32` is 2^32, 16 in the runs). The float comparison of the
complete rate is a comparison of integers.

`FrameOwnership` is what the three promise about a buffer: pool, reassembler,
pipeline and back, one owner at a time. `Reassembly` implements it under the
mapping `owner`.

### RecvThread

The owner's calls are steps of `call` (the calls are documented as not
thread-safe, so there is one owner); `recvThread` is the `jthread` member, which
names a thread that ended until it is joined; `threads` has the place of each
thread in the lambda and its locals. Each way `recv` can return is an action.
The time in
`onPacketRecv` and `ReAsmSlotScan` is a place of the thread (`packet`, `scan`):
`OneReceiver` is the assumption under which `Reassembly` is a faithful model of
the reassembler.

### Scheduler, PeriodicTasks

`loop.at` is the place of the event loop between two critical sections, each of
which is one step. Time is absolute and bounded (`MaxTime`); between any two steps
any time may pass, so jobs take any time and the thread is scheduled with any
delay. `doJob` is `BeginTurn` (or `SkipJob`), which looks at `cancelled`, then
`StartJob`, which does not look again, then `JobEnds`: `removeTask` may set the flag and
return between any two of them. `NextRun` is the arithmetic of `doJob`; `task[h].next`
stands for `startTime + execCount * interval`. The wait on the condition variable ends when
its predicate, the deadline or the stop token says so. `turns` is history: the
turns a task had at this instant and that were due. The destructor is left out:
`eventLoop` is the last member, so it does what `stop` does.

`PeriodicTasks` is what whoever adds a task gets: turns one at a time, at multiples of
the period counted from the first, none before its time, none that begins after the
task was removed, no turn left out that is not over an interval late. It does not get
two things: a turn that had begun is not called off by the removal, its job may even be
entered after `removeTask` returned; and after a stop was asked one more turn may begin
before its time. `Scheduler` implements it: a turn begins where the loop finds the task
not cancelled (`Turn` is the task whose turn it is), and `Mode` tells whether the loop
still has that one turn, which it has where it waits for a task or has taken one.

### MqttClient, SignalOrder, ClientSignals

One `TMqttClient`. The library's thread takes one call after the other from
`callbacks`; `thread` is where it is in the connected handler, which subscribes the
topics it copied from the map under the lock, one by one, while `registerTopic` of
other threads goes on.

| Model | Code |
|---|---|
| `AddTopic`, `SubscribeTopic` | the two halves of `registerTopic`: the map under the lock, `subscribe()` after it |
| `Ask` | `subscribe()`: the library takes the request, or throws; the token of the answer is dropped |
| `Grant` | external: the broker grants what was asked for, at any later time or never |
| `OnConnected`, `SubscribeNext`, `SubscribedAll`, `TellConnected` | the connected handler |
| `ConnectionLost`, `OnFailure`, `MessageArrived` | the other callbacks |
| `Connect`, `Destroy` | `connect()`, which is called once, and the destructor |
| `SessionStarts`, `SessionEnds`, `ConnectFails`, `MessageComes` | external: connection, automatic reconnection, the broker |

Sessions are clean, so each connection starts without subscriptions. `publish()`
changes nothing. `asked` has the requests the library took, `subscribed` what the broker
granted; a refusal of the broker is told to no one, and neither is what the `subscribe()`
of `registerTopic` throws. The comment there says the next connection tries again, and
this is what `RegisteredGetAsked` states, of the topics that were in the map when the
connection was made (`atStart`, history): the library takes each request, or
`onSubSyncFailed` names it. That a topic gets subscribed cannot be said.
`SignalOrder` says which of the three signals may follow which, and `ClientSignals` is
the specification made of it; `MqttClient` implements it.

### MqttAdapter, ClientSession, ConnService

`MqttAdapter` has the clients as what they tell, by the order of `SignalOrder`, so that
several of them can be alive: the bound one, and one that a publishing thread holds.
What they say is put into `guiQueue` with the generation of the client; the GUI thread
compares when it takes it. `ConnService` extends it with the slots, and `GBaseModel`'s
`online`.

| Model | Code |
|---|---|
| `Bind` = `AdapterBind`, `ApplyClientBinding`, `ApplyUdpBinding` | `GConnService::bind` and all it calls, the slots of `bindingChanged` included; one step, on the GUI thread |
| `BindStatuses` | `Unchanged`, `Changed`, `Failed` (making the client threw) |
| `PublishBegins`, `PublishEnds` | `publish` from any thread: the check of the generation, and the client's shared pointer that outlives a rebinding |
| `ClientTells`, `ClientReceives` | the lambdas that queue a call for the GUI thread |
| `HandleCall` with `Slots` | the queued call: the generation, then the slots |
| `UpdateStreamStatus` with `IsFed` | the 200 ms timer: the last push of a stream against its epoch and the deadline |
| `FramePushed`, `Tick`, `ThreadEnds` | pushes of the receive thread, time, and the end of that thread |

The receiver of the service is abstracted to its address and whether its thread was
started, runs or has ended (`RecvThread` has the rest, and shows that `start()` takes
a thread that ended for a running one, which `Starts` repeats). `lastPush` has for each
stream how long ago its last push was, saturated past the deadline, and whether it was
after the epoch, which a refresh by `bind()` sets anew. `connectionLost` puts the deploy
stream off without a new epoch, so for the rest of the timeout the timer puts it on again.
Topics are registered
in slots of `bindingChanged` only, and at start-up. `ClientSession` is what models and
services rely on: they hear of the client that is bound, in order, nothing twice. The
signal `subSyncFailed`, to which no slot is connected, is left out.

### CursorControl, InputDispatcher

`CursorControl` is the lock of the pointer: the calls are operators on the state of
the control, because the dispatcher combines them within one event, and the
compositor's events are actions. `InputDispatcher` has the events of the window, the
blocks and the status, the keys, the adapter's signals and the publishing task.

| Model | Code |
|---|---|
| `UpdateInputStatus`, `SetInputStatus`, `UpdateCursorState` | the functions of these names, part of each event that calls them |
| `WindowChanges`, `HandleStatusCall` | `activeChanged`, `visibleChanged` and the slot that is queued for them |
| `Expose`, `SurfaceAboutToBeDestroyed`, `SurfaceCreated`, `WindowDestroyed` | the event filter on the window |
| `Press`, `Release`, `HandleMouseWheelEvent` | the event filter on the input; what happens while the window is not active is not seen |
| `AdapterBinds`, `AdapterTells`, `HandleClientCall` | the queued slots of the adapter's signals |
| `BeginTurn`, `BeginCapture`, `TakeMovement`, `LoadGeneration`, `PublishKeyboardMouseControl` | the task on the scheduler's thread, step by step; `Accepted` is the check of the generation in the adapter |
| `Destroyed` | the destructor, which waits for the task |

The scheduler's `removeTask` does not wait for a run of the task, and the run reads
`_curGen` only when it sends: a run in progress while `bindingChanged` is handled
publishes to the new client. `strays` counts the messages that reach the client of a
generation from runs begun for an earlier one; there is at most one, since the loop has
one run at a time. A window may be attached after the former one was destroyed; the
slots the old one queued are still to come then.

A queued slot that takes no argument is a flag (`statusCalls`, `cursor.changed`): that
it may run twice makes no difference, since the second run sees what the first saw.
`quickReturn` is history: the window lost the focus and had it back before the queued
slot ran, so nobody noticed. This is the premise of `NoKeyIsStuck`; without it the
property does not hold, and a key released meanwhile stays down until it is pressed
again.

### HeroModel, BotStatus

`HeroModel` has the functions of `GHeroModel` as operators on its state; `BotStatus`
has the actions: bindings and which model they get from the factory, statuses, lost
connections, keys, the animation's ticks. `held` is history: for how many ticks K and
L were really down without a break. What the server has (`performance`) and what it
reports are independent, so reports may be lost, late and repeated in any way. The
statuses that are kept and reset alike are represented by the one that other code
depends on, the kind of the shooter.

### VidPipeline, BytesVidRender

The control the two renderers share: construction that may fail at each element, the
choice of the decoder, the link of a decodebin's pad, the bus thread, stop and
restart, and the destructor, whose body releases the pipeline before the members go,
the thread first. What differs between the two is a parameter (the name of the pad
asked for, the decoders) or in `BytesVidRender` (the pushed copies, and the limit, which
may be set at any time; `pushLimit` is history, the one in force at the last push).
`errors` is
history: errors posted and neither told nor dropped with the bus. The two calls for
tests that debug builds have are left out.

## The runs

| Run | Question | Bounds |
|---|---|---|
| `reassembly` | buffers, slots, byte counts, order of the pushed frames; `Reassembly` implements `FrameOwnership` | 3 buffers, 2 slots, 6 indices, 3 sections of 2 bytes, timeouts of one tick |
| `reassembly_live` | slots time out, reception recovers, the pool fills up again | the same, a sender that repeats two frames |
| `reassembly_copies` | what is copied is in the datagram: **violated** | the same, one buffer limit |
| `recv_thread` | one thread, on an open socket; calls return, scans go on | 2 threads, `ENOMEM_THRES` 2 |
| `recv_already_running` | start()'s "already running": **violated** | the same |
| `scheduler` | no task lost, doubled, revived, bursting; `Scheduler` implements `PeriodicTasks`; due tasks run, calls return | 2 tasks of periods 1 and 2, 5 instants, 2 loops |
| `mqtt_client` | messages find handlers; topics are asked for in every session; what is told is how the link is; `MqttClient` implements `ClientSignals` | 2 topics, 3 sessions, 2 waiting callbacks |
| `connection` | what is shown is bound, both halves of bind() agree, a failed start is retried; the adapter implements `ClientSession`; connections are shown, silent streams are not | 2 ids, 2 modes, 2 bindings, 3 events, a stream timeout of one tick |
| `input` | no key stuck, the pointer given back, the task follows the generation; a capture gets its lock | 1 key, 1 owner, 2 bindings, 2 signals, 1 wheel step |
| `hero` | the view follows the reports; a command needs a full press | 3 bindings, a press of 3 ticks, restarts every 2 |
| `vid` | the bus thread ends before the signals; errors are told; the queue stays bounded | 4 and 2 decoders, 3 messages, 2 errors, limits of 0 and 2 bytes, frames of 0 to 2 |
| `vid_dynamic_pad` | the decodebin's video is linked: **violated** | the same |

Why the bounds are enough. Six indices with a lag of two give indices that are
after, late, and so late that they open a session, with the wrap-around; frames of
two sections (the second padded) wait in slots, frames of one do not, unless what comes
is empty (`reassembly_live`), and a section of a frame of three comes under the index of a frame of two; a
padded byte makes a count that is off by one; two slots
and three buffers reach eviction, a dry pool and a full pipeline; the buffer limit
takes both values that matter (nothing more once one is queued, or two). In the
scheduler, five instants let the task of period 1 fall more than two periods behind,
which is where turns are skipped; two loops are needed for a stop and a restart.
A second thread in `RecvThread` is there to show a start that should not happen.
With two topics, one can be registered before a connection and one during the
connected handler; the third session is a reconnection after a reconnection. Two
bindings give an old client whose calls are queued, and three events let two of its
calls wait behind the new binding with one of the new client's. In `input` every
input is alike and every owner is alike, so one of each will do; the proofs do without
the bound. A press of three ticks has a tick that is neither its first nor its last,
and the third binding of `hero` goes from a hero over another bot to a hero. Two
errors let one be told while another waits; with three messages on the bus the thread
can be behind by an error, a warning and a state.

Where a run does not look for deadlocks the system may stop: a renderer, a client or
a dispatcher was destroyed, or the bound on events is reached.

Fairness. `Reassembly`: time passes; the loop scans at every turn, which
`recv_thread` shows of the loop (`ScansGoOn`); the pipeline makes progress
only while PLAYING; none of it after a copy ended the process. That a sender goes on sending is no part of the specification: it
is the premise of `ReceptionRecovers` (strong fairness of `ReceiveFrame`: a datagram
comes while it would be accepted), and `SlotsTimeOut` must do without it. `RecvThread`: the thread is
scheduled and `recv` times out because `SO_RCVTIMEO` is set (the weak fairness of
`RecvTimeout` holds only where it is). `Scheduler`: the loop is scheduled and jobs
end, which the comment of the class asks of them. `MqttClient`: the library's thread
runs its callbacks, and a `registerTopic` that has begun goes on; connecting is never
fair. `ConnService`: the GUI thread runs queued calls and its timer, and time passes, or no
push would ever be too old. `InputDispatcher`:
the GUI thread empties its queue, and the compositor answers a new request for a lock;
a lock it has ended it need not give back. `CapturedGetsLocked` has a pointer that is
there all the time as its premise, for nobody tells the control when one comes.
`BytesVidRender`: the bus thread is scheduled, and who destroys a renderer goes on with
it. The number of errors is bounded (`MaxErrors`), so that a pipeline that posts for ever
cannot make `ErrorsAreTold` false by having always one more. Owners are never fair:
they may stop calling at any time.

## What was found

The three violated properties are in `PROJECT.json` under `findings`, with the lines
of the code and of the comments that disagree: a section that starts behind the end of
the frame its slot was opened for makes an unsigned difference wrap around, and the copy
of nearly 4 GB ends the process; `start()` says "already running" of a thread that has
ended; the byte-stream renderer asks the uploader for a pad it does not have, so the
software fallback shows nothing.

Disagreements noticed while modelling that have no run: `getLastPushedIdx()` is
documented as 0 until a push and is set by the first datagram (nobody else reads it); the sixth `ENOMEM` stops the receiver where TRecv.hpp:128
says five "continuously", and only a datagram resets the count (TRecv.cpp:95, 101),
other errors of `recv` between two of them do not; a warning is parsed and then dropped,
since its `case` has no `break` (TVidUtils.cpp:106-109), so `onPipeWarn` is never emitted
(`IssueParser` does the same); a stop makes the scheduler run the task it waits for once more, before its time (`NextTurnIsNear`
allows for it).

## Proofs

The type invariant of a component is a theorem (`TypeCorrect`) of its proof module and
no run repeats it; the runs are spent on the other properties.

`ReassemblyProofs` proves, for every pool, number of slots, sizes, timeouts and set of datagrams:

* `TypeCorrect`, `BuffersOwnedOnce`, `ScanMeetsFrames`. The inductive invariant is
  `IInv == TypeOK /\ FrameOwnedOnce /\ ScanTodoOccupied`. Ownership alone is not
  inductive: a scan gives back the buffer of a slot it found timed out earlier, so
  it must still be occupied, which holds because only the receive thread changes
  slots and it does nothing else during a scan.
* `FramesNotSplit`: that no frame is in two slots is inductive over `IInv`, since
  `FindReAsmSlot` looks for the frame in every slot before it takes an empty one.
* `PictureMovesForward`, from the guards of the steps that push. What `Diff` has to do
  with the order of the frames is `DiffIsDistance`: two indices compare as the frames
  they stand for, however often they wrapped around, while these are less than half of
  the indices apart.
* `CountIsRight`: the number a slot counts is the number of bytes copied into it. It is
  inductive with the fact that each section's bytes lie in its frame (`BytesFit`), which
  the padding test is for, and with the length that an occupied slot still lacks
  (`SlotCounted`). A copy whose size wrapped around counts nothing: the process has ended.
  The work is in the sum, a recursive function over finite sets of sections.
  That it exists and does not depend on the order comes from the library's theorem that
  strict inclusion of finite sets is well-founded: a smallest set for which a statement
  fails cannot be (`SmallestSubset`), which takes the place of an induction.
* `DecoderGetsEnough` and `DecoderGetsWholeFrames`: the code compares two byte counts,
  and this is enough. Different sections never sum up to more than the frame
  (`BytesOfAtMost`), so when all bytes are there, no section is missing or cut short, and no
  duplicate has stood in for one (`WholeHasNoHole`).
* `CopiesStayWithOneLength`: the property that the run `reassembly_copies` refutes holds
  as long as every section begins in its frame and no index comes with two lengths
  (`OneLengthPerIndex`), for then a slot has the length of every datagram that goes into
  it (`LengthsSent`).
* `PoolDriedByPipeline`, by counting: an empty free list puts every buffer in a
  slot or in the pipeline, and a slot has at most one.
* `ImplementsOwnership`: `Init` maps to `Init`, and each step to a step of
  `FrameOwnership` or a stutter.

`RecvThreadProofs` proves `TypeCorrect`, `SingleCaller` and `ThreadHasSocket`, for
every set of threads and every threshold. The invariant adds `RetriesLeft` to the
three: a thread that lives has failed at most `EnomemThres` times, without which
the type of the count is not preserved.

`SchedulerProofs` proves, for every number of tasks, all periods and every bound of
the clock, `TypeCorrect`, `TasksAreKept`, `QueueNotStale`,
`RemovalHolds`, `TurnsStayNear` and `BurstsArePrevented`, from an invariant in two
layers:

* `Queued`: that a task is queued once and with its current time needs that a
  handle not yet given out has no entry (`FreshHandles`), that a task knows it was
  removed exactly while it is not in the map (`CancelledIsRemoved`), and that the
  entry the loop waits for is still queued (`TakenIsCurrent`).
* `Timed`: what the loop has taken is due unless a stop was asked of it
  (`TakenIsDue`), which holds because a stop that was asked of a running loop is
  never withdrawn; so each loop runs at most one turn early, and `Early` counts the
  loops that have (`NearEnough`). For bursts, `TurnsCatchUp` says how late the next
  turn is after one, two and three turns at one instant: after the third it is to
  come. The arithmetic of `doJob` is the lemma `NextRunIsOneIntervalOn`.

`RemovalHolds` and `ImplementsPeriodicTasks` rest on the same invariant: that a turn
begins only for a task in the map is `BeginsLiveOnly` (where its job starts, the task may
be gone already), that it is due or the one after a stop is
`TakenIsDue`, and that the time given to the task is a multiple of its period from the
last is `NextRunIsMultiple`, with `MultiplesLeaveNothing` about remainders.

`MqttClientProofs` proves `HandlersAreFound`, `LastSignalIsTrue`, `TopicsAreAskedFor` and
`ImplementsSignals`, for all topics and any number of sessions. The signals that are
still to come are those of the callbacks that wait, after the one the connected
handler is going to tell (`SignalsInLine`): each may follow the one before it, and the
last says how the link is. Where the thread is in that handler is tied to the callback
it runs (`ThreadAtCall`), and a topic a broker knows has its handler
(`TopicsHaveHandlers`). `TopicsAreAskedFor` is the safety half of `RegisteredGetAsked`:
when the connected handler of a session is through, each topic of the map it began with was
asked for or is named as failed (`Asking` says what is still to do while it runs). With `ImplementsSignals` what `MqttAdapter` takes for granted
of a client is proved of the client.

`BytesVidRenderProofs` proves `ThreadGoesFirst`, `FeedStaysBounded` and
`TypeCorrect`, for all decoders, frame sizes and limits, whenever these are set. The bus thread goes
first because there is none before the constructor is done (`ThreadKnown`) and the
destructor waits for it; that errors told and dropped never exceed those posted needs
the errors on the bus to be counted (`ErrorsCounted`).

`BotStatusProofs` proves `TypeCorrect`, `ViewIsReported` and `CommandNeedsFullPress`, for
every time a key must be held. What each function of the model leaves is a lemma of its own.
`HeroOk` holds whatever is known of the shooter, `HeroFits` only once
`UpdateEffectiveDeployMode` is done; the press is tied to the fingers by
`HeldLongEnough`: the animation never runs ahead of the key. Without it the command at
the last tick cannot be shown to follow a full press.

`ConnServiceProofs` proves `TypeCorrect`, `ShowsTheBound`, `HalvesAgree`, `FailedIsRetried`
and `ImplementsSession`. The
queue is numbered and nothing in it was heard yet (`QueueInOrder`); with the check of
the generation this maps each step to a step of `ClientSession` or a stutter. What is
shown is tied to what was asked for, and that to the client (`ModeIsAsked`), through
each way `bind()` can fail; `online` of the models is part of it.

`InputDispatcherProofs` proves `TypeCorrect`, `PointerIsGivenBack`, `KeysAreReleased` and
`TaskFollowsGeneration`, from four parts. `CursorInv`: there is a lock object only
while the input is captured, so whatever ends the capture also ends the lock, also when
the compositor grants it late. `KeysInv`: while captured, an inactive window is still
to be noticed; `NoKeyIsStuck` says of all orders of events but `quickReturn` that nothing
stays pressed. `TaskInv`: a queued signal is of the last binding queued before it, or
the one the dispatcher has, and the last of the queue is how the adapter is. `PubInv`:
generations only grow, from the run's to the dispatcher's to the adapter's, so a message
is accepted only under the last one, and once a stray one was, every later run was begun
for the generation it reads.

Assumptions: the named `ASSUME`s of the modules and nothing else: sizes and timeouts are
naturals, periods are not 0, the pool is finite, and the complete rate is at most one
(it is 0.95 in `TReassembly.hpp`), without which a whole frame would not be complete.

Only model-checked: the liveness properties (`SlotsTimeOut`, `ReceptionRecovers`,
`FramesReturn`, `ScansGoOn`, `DueTasksRun`, both `CallsReturn`,
`RegisteredGetAsked`, `ConnectionsAreShown`, `SilentStreamsGoOffline`,
`CapturedGetsLocked`, `ErrorsAreTold`), because fairness is out of the prover's reach.
All the safety properties of the passing runs are theorems.

## Not modelled

Header layouts and the bytes that are copied (their number is modelled); the contents of messages and of frames; GStreamer
beyond the states, messages, pads and references the code relies on; the kernel's
socket buffer beyond loss, duplication and reordering; Paho beyond its callbacks and
when it calls them; Wayland beyond the four events the control handles.

Signals (`TSignal`) call their slots one after the other on the thread that emits;
the actions that emit have the slots in them, and no module of its own is made of it.
Logging, QML, settings and the build have no decisions to get wrong. The models of
game and global status keep the last message of each topic, and follow the connection
as `GBaseModel` does in `ConnService` and `BotStatus`. The context constructs the parts
once and destroys them in reverse order: bot status, heads-up display, connection service,
dispatcher (which waits for the task), and the adapter last; the modules take this
order for granted (`Shutdown`, `Destroyed`).
