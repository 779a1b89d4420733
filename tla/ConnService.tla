----------------------------- MODULE ConnService -----------------------------
(***************************************************************************)
(* GConnService over GMqttAdapter: bind() chooses the MQTT client and the  *)
(* address of the UDP receiver together, and the service shows which       *)
(* client is connected and which video streams are alive.  GBaseModel, the *)
(* base of the status models, follows the same signals of the adapter.     *)
(***************************************************************************)
EXTENDS MqttAdapter

CONSTANTS
    BytesTopic,     \* the topic whose messages feed the deploy video
    StreamTimeout   \* streamTimeoutInv, in ticks

ASSUME ConnServiceAssumption == StreamTimeout \in Nat

VARIABLES
    requestedClientId, clientId, lastChoseConnMode, connMode,
    online,             \* GBaseModel::_online
    receiver,           \* what the receiver listens on, and its thread
    bindResult,         \* what the last bind() came to, for the client and the thread
    lastPush,           \* of each stream: how long ago it was, and whether since the epoch
    streamOnline        \* streams shown as online

shownVars == <<requestedClientId, clientId, lastChoseConnMode, connMode, online>>
udpVars == <<receiver, bindResult>>
streamVars == <<lastPush, streamOnline>>
vars == <<adapterVars, shownVars, udpVars, streamVars>>

Streams == {"vt13", "deployVt"}

\* An age from which on it makes no difference; no push yet is as old.
TooOld == StreamTimeout + 1

TypeOK ==
    /\ AdapterTypeOK
    /\ requestedClientId \in Ids \cup {None}
    /\ clientId \in {requestedClientId, None}
    /\ lastChoseConnMode \in Modes \cup {None}
    /\ connMode \in {lastChoseConnMode, None}
    /\ online \in BOOLEAN
    /\ receiver \in [addr : Modes, thread : {"none", "alive", "ended"}]
                      \cup [addr : {None}, thread : {"none"}]
    /\ bindResult \in [client : {"none", "Changed", "Unchanged", "Failed"}, started : BOOLEAN]
    /\ lastPush \in [Streams -> [age : 0..TooOld, sinceEpoch : BOOLEAN]]
    /\ streamOnline \subseteq Streams

\* The receiver's constructor may have failed to bind its socket.
Init ==
    /\ AdapterInit
    /\ requestedClientId = None
    /\ clientId = None
    /\ lastChoseConnMode = None
    /\ connMode = None
    /\ online = FALSE
    /\ receiver \in [addr : Modes \cup {None}, thread : {"none"}]
    /\ bindResult = [client |-> "none", started |-> TRUE]
    /\ lastPush = [s \in Streams |-> [age |-> TooOld, sinceEpoch |-> TRUE]]
    /\ streamOnline = {}

-----------------------------------------------------------------------------
\* bind().

NotListening == [addr |-> None, thread |-> "none"]

\* The thread that failed is left to the next start().
StartsUnjoined(addr) ==
    IF receiver.addr = addr /\ receiver.thread # "none"
    THEN {[receiver |-> receiver, started |-> TRUE]}
    ELSE {[receiver |-> [addr |-> addr, thread |-> "alive"], started |-> TRUE],
          [receiver |-> [addr |-> addr, thread |-> "ended"], started |-> FALSE]}

\* start() takes any thread that was not joined for a running one; when it fails
\* the service stops the receiver, so that the next bind() can try again.
Starts(addr) ==
    IF receiver.addr = addr /\ receiver.thread # "none"
    THEN {[receiver |-> receiver, started |-> TRUE]}
    ELSE {[receiver |-> [addr |-> addr, thread |-> "alive"], started |-> TRUE],
          [receiver |-> [addr |-> addr, thread |-> "none"], started |-> FALSE]}

\* What applyUdpBinding can come to: the socket is bound again only for another
\* address; a failure leaves it closed and its thread joined.
ApplyUdpBinding(mode) ==
    Starts(mode) \cup
      (IF receiver.addr = mode THEN {} ELSE {[receiver |-> NotListening, started |-> FALSE]})

UdpChanged(udp) == udp.receiver.addr \notin {receiver.addr, None}

\* The pipelines that start over: with a new epoch, and shown as offline.
Refreshed(changed, udpChanged) ==
    (IF changed THEN {"deployVt"} ELSE {}) \cup (IF changed \/ udpChanged THEN {"vt13"} ELSE {})

\* The mode is taken over before bind(), and stays when it fails.
ApplyClientBindingFirst(status, id, mode) ==
    /\ IF status = "Changed"
       THEN requestedClientId' = id /\ clientId' = None /\ connMode' = None /\ online' = FALSE
       ELSE UNCHANGED <<requestedClientId, clientId, connMode, online>>
    /\ lastChoseConnMode' = mode

\* clearConnectedState() is part of the slot of bindingChanged; the mode is
\* taken over when bind() of the adapter has returned.
ApplyClientBinding(status, id, mode) ==
    /\ IF status = "Changed"
       THEN requestedClientId' = id /\ clientId' = None /\ connMode' = None /\ online' = FALSE
       ELSE UNCHANGED <<requestedClientId, clientId, connMode, online>>
    /\ lastChoseConnMode' = IF status = "Failed" THEN lastChoseConnMode ELSE mode

BindHalves(id, mode, status, udp) ==
    LET refreshed == Refreshed(status = "Changed", UdpChanged(udp)) IN
    /\ \E connectFails \in BOOLEAN : AdapterBind(status, id, mode, connectFails)
    /\ ApplyClientBinding(status, id, mode)
    /\ receiver' = udp.receiver
    /\ bindResult' = [client |-> status, started |-> udp.started]
    /\ lastPush' = [s \in Streams |-> [lastPush[s] EXCEPT !.sinceEpoch = @ /\ s \notin refreshed]]
    /\ streamOnline' = streamOnline \ refreshed

\* An unchanged client ends the call.
BindUnlessUnchanged(id, mode) ==
    \E status \in BindStatuses(id, mode) :
      IF status = "Unchanged" THEN BindHalves(id, mode, status, [receiver |-> receiver, started |-> TRUE])
      ELSE \E udp \in ApplyUdpBinding(mode) : BindHalves(id, mode, status, udp)

\* The client first, then the receiver, whatever became of the client.
Bind(id, mode) ==
    \E status \in BindStatuses(id, mode), udp \in ApplyUdpBinding(mode) :
      BindHalves(id, mode, status, udp)

-----------------------------------------------------------------------------
\* The slots of the adapter's signals.

\* The id waits for the next binding.
SetConnectedStateModeOnly ==
    /\ connMode' = lastChoseConnMode
    /\ online' = TRUE
    /\ UNCHANGED <<clientId, streamOnline>>

SetConnectedState ==
    /\ clientId' = requestedClientId
    /\ connMode' = lastChoseConnMode
    /\ online' = TRUE
    /\ UNCHANGED streamOnline

ClearConnectedState ==
    /\ clientId' = None
    /\ connMode' = None
    /\ online' = FALSE
    /\ streamOnline' = streamOnline \ {"deployVt"}

Pushed(s) == lastPush' = [lastPush EXCEPT ![s] = [age |-> 0, sinceEpoch |-> TRUE]]

Slots(e) ==
    \/ /\ ~IsWanted(e)
       /\ UNCHANGED <<clientId, connMode, online, streamVars>>
    \/ /\ IsWanted(e)
       /\ e.what = "connected"
       /\ SetConnectedState
       /\ UNCHANGED lastPush
    \/ /\ IsWanted(e)
       /\ e.what \in {"lost", "failed"}
       /\ ClearConnectedState
       /\ UNCHANGED lastPush
    \/ /\ IsWanted(e)
       /\ e.what \in Topics
       /\ IF e.what = BytesTopic THEN Pushed("deployVt") ELSE UNCHANGED lastPush
       /\ UNCHANGED <<clientId, connMode, online, streamOnline>>

HandleCall ==
    \E e \in {guiQueue[i] : i \in DOMAIN guiQueue} :
      /\ TakeCall(e)
      /\ Slots(e)
      /\ UNCHANGED <<requestedClientId, lastChoseConnMode, udpVars>>

\* Without the deadline.
IsFedSinceEpoch(s) == lastPush[s].sinceEpoch /\ lastPush[s].age <= TooOld

\* Pushed to since the epoch and not before the deadline.
IsFed(s) == lastPush[s].sinceEpoch /\ lastPush[s].age <= StreamTimeout

\* The timer, every 200 ms.  connectionLost puts the deploy stream off without a
\* new epoch: within the timeout of the last push this puts it on again.
UpdateStreamStatus ==
    /\ streamOnline' = {s \in Streams : IsFed(s)}
    /\ UNCHANGED <<adapterVars, shownVars, udpVars, lastPush>>

-----------------------------------------------------------------------------
\* The streams.

\* The receive thread pushes a frame.
FramePushed ==
    /\ receiver.thread = "alive"
    /\ Pushed("vt13")
    /\ UNCHANGED <<adapterVars, shownVars, udpVars, streamOnline>>

ThreadEnds ==
    /\ receiver.thread = "alive"
    /\ receiver' = [receiver EXCEPT !.thread = "ended"]
    /\ UNCHANGED <<adapterVars, shownVars, bindResult, streamVars>>

Older(age) == IF age = TooOld THEN TooOld ELSE age + 1

Tick ==
    /\ lastPush' = [s \in Streams |-> [lastPush[s] EXCEPT !.age = Older(@)]]
    /\ UNCHANGED <<adapterVars, shownVars, udpVars, streamOnline>>

GuiThread ==
    \/ \E id \in Ids, mode \in Modes : Bind(id, mode)
    \/ HandleCall
    \/ UpdateStreamStatus
    \/ Shutdown /\ UNCHANGED <<shownVars, udpVars, streamVars>>

OtherThreads ==
    \/ AdapterThreads /\ UNCHANGED <<shownVars, udpVars, streamVars>>
    \/ FramePushed
    \/ ThreadEnds
    \/ Tick

\* The adapter is the last of them to be destroyed.
Next == ~shuttingDown /\ (GuiThread \/ OtherThreads)

Spec == Init /\ [][Next]_vars

\* The GUI thread runs queued calls and its timer, and time passes.
FairSpec ==
    /\ Spec
    /\ WF_vars(~shuttingDown /\ HandleCall)
    /\ WF_vars(~shuttingDown /\ UpdateStreamStatus)
    /\ WF_vars(~shuttingDown /\ Tick)

-----------------------------------------------------------------------------
\* The id and the mode shown are those of the bound client: the mode is taken
\* over after the slots of bindingChanged ran, and not when making a client
\* failed, and a signal of an older client must not put them up.  The models are
\* online exactly while an id is shown.
ShownIsBound ==
    ~shuttingDown =>
      /\ clientId # None => clientId = snapshot.id /\ connMode = snapshot.mode
      /\ online <=> clientId # None

\* The receiver listens where the client is, unless making the client or binding
\* the socket failed: also after a failure was followed by a bind() back to the
\* client that stayed.
BothHalvesAgree ==
    bindResult.client \in {"Changed", "Unchanged"} => receiver.addr \in {snapshot.mode, None}
                                                        \/ shuttingDown

\* A thread that failed to start is joined, or the next bind() would take it for
\* a running one.
FailedStartIsRetried ==
    ~bindResult.started => receiver.thread = "none"

\* A connection that lasts is shown.
ConnectionsAreShown ==
    \A g \in Generations :
      (snapshot.gen = g /\ told[g] = "connected") ~>
        (clientId # None \/ snapshot.gen # g \/ told[g] # "connected")

\* A stream stays online only by being pushed to again and again since its
\* epoch: it goes off when its thread ended, its client went, or the binding
\* changed and nothing came since.
SilentStreamsGoOffline ==
    \A s \in Streams :
      <>[](s \in streamOnline /\ ~shuttingDown) => []<>(lastPush[s] = [age |-> 0, sinceEpoch |-> TRUE])
=============================================================================
