-------------------------- MODULE ConnServiceProofs --------------------------
(***************************************************************************)
(* The connection service over the adapter, for all ids, modes and topics  *)
(* and any number of bindings and events.                                  *)
(*                                                                         *)
(* What the GUI thread has queued is numbered in the order it was said,    *)
(* and nothing of it was heard yet (QueueInOrder): with the check of the   *)
(* generation this is the session the adapter promises.  What the service  *)
(* shows is tied to the client by what the service asked for: ModeIsAsked  *)
(* holds through every way bind() can go wrong.                            *)
(***************************************************************************)
EXTENDS ConnService, TLAPS

Calls == [gen : Generations, nr : Nat, what : Signals \cup Topics]

QueueInOrder ==
    /\ guiQueue \in Seq(Calls)
    /\ \A i \in 1..Len(guiQueue) : heard.nr < guiQueue[i].nr /\ guiQueue[i].nr <= sent
    /\ \A i, j \in 1..Len(guiQueue) : i < j => guiQueue[i].nr < guiQueue[j].nr

SessionTypeOK ==
    /\ generation \in Nat
    /\ sent \in Nat
    /\ shuttingDown \in BOOLEAN
    /\ heard \in [gen : Nat, nr : Nat]
    /\ heard.nr <= sent

LastPushOK == lastPush \in [Streams -> [age : 0..TooOld, sinceEpoch : BOOLEAN]]

ModeIsAsked ==
    ~shuttingDown =>
      /\ generation = snapshot.gen
      /\ requestedClientId = snapshot.id
      /\ lastChoseConnMode = snapshot.mode
      /\ snapshot.gen > 0 => snapshot.id \in Ids

ShownIsAsked ==
    /\ clientId # None => clientId = requestedClientId /\ connMode = lastChoseConnMode
    /\ ~shuttingDown => (online <=> clientId # None)

IInv ==
    /\ SessionTypeOK
    /\ QueueInOrder
    /\ ModeIsAsked
    /\ ShownIsAsked
    /\ BothHalvesAgree
    /\ FailedStartIsRetried

-----------------------------------------------------------------------------
\* The queue.

LEMMA QueuedAreCalls ==
    ASSUME NEW q \in Seq(Calls)
    PROVE  \A i \in 1..Len(q) : q[i] \in Calls /\ q[i].nr \in Nat /\ q[i].gen \in Generations
<1>1. \A i \in 1..Len(q) : q[i] \in Calls
  OBVIOUS
<1>2. \A e \in Calls : e.nr \in Nat /\ e.gen \in Generations
  BY DEF Calls
<1> QED
  BY <1>1, <1>2

LEMMA EnqueueKeepsOrder ==
    ASSUME SessionTypeOK, QueueInOrder, NEW g \in Generations, NEW what \in Signals \cup Topics,
           Enqueue(g, what), heard' = heard
    PROVE  QueueInOrder' /\ sent' \in Nat /\ heard.nr <= sent'
<1> DEFINE e == [gen |-> g, nr |-> sent + 1, what |-> what]
<1>1. /\ guiQueue \in Seq(Calls) /\ sent \in Nat /\ heard.nr \in Nat /\ heard.nr <= sent
      /\ e \in Calls /\ e.nr = sent + 1 /\ sent' = sent + 1 /\ guiQueue' = Append(guiQueue, e)
  BY DEF SessionTypeOK, QueueInOrder, Enqueue, Event, Calls
<1> HIDE DEF e
<1>2. /\ guiQueue' \in Seq(Calls) /\ Len(guiQueue') = Len(guiQueue) + 1 /\ Len(guiQueue) \in Nat
      /\ \A i \in 1..Len(guiQueue) : guiQueue'[i] = guiQueue[i]
      /\ guiQueue'[Len(guiQueue) + 1] = e
  BY <1>1
<1>3. \A i \in 1..Len(guiQueue) : guiQueue[i].nr \in Nat
  BY <1>1, QueuedAreCalls
<1>4. ASSUME NEW i \in 1..Len(guiQueue')
      PROVE  heard'.nr < guiQueue'[i].nr /\ guiQueue'[i].nr <= sent'
  <2>1. CASE i \in 1..Len(guiQueue)
    BY <1>1, <1>2, <1>3, <2>1 DEF QueueInOrder
  <2>2. CASE i = Len(guiQueue) + 1
    BY <1>1, <1>2, <2>2
  <2> QED
    BY <1>2, <2>1, <2>2
<1>5. ASSUME NEW i \in 1..Len(guiQueue'), NEW j \in 1..Len(guiQueue'), i < j
      PROVE  guiQueue'[i].nr < guiQueue'[j].nr
  <2>1. i \in 1..Len(guiQueue)
    BY <1>2, <1>5
  <2>2. CASE j \in 1..Len(guiQueue)
    BY <1>2, <1>5, <2>1, <2>2 DEF QueueInOrder
  <2>3. CASE j = Len(guiQueue) + 1
    <3>1. guiQueue[i].nr <= sent
      BY <2>1 DEF QueueInOrder
    <3> QED
      BY <1>1, <1>2, <1>3, <2>1, <2>3, <3>1
  <2> QED
    BY <1>2, <2>2, <2>3
<1> QED
  BY <1>1, <1>2, <1>4, <1>5 DEF QueueInOrder

LEMMA TakeCallKeepsOrder ==
    ASSUME SessionTypeOK, QueueInOrder, NEW e, TakeCall(e)
    PROVE  /\ QueueInOrder' /\ SessionTypeOK'
           /\ e \in Calls /\ heard.nr < e.nr
<1>1. /\ guiQueue \in Seq(Calls) /\ guiQueue # <<>> /\ e = guiQueue[1] /\ guiQueue' = Tail(guiQueue)
      /\ sent' = sent /\ generation' = generation /\ shuttingDown' = shuttingDown
      /\ sent \in Nat /\ heard \in [gen : Nat, nr : Nat]
  BY DEF QueueInOrder, SessionTypeOK, TakeCall, bindingVars, clientVars
<1>2. /\ Len(guiQueue) \in Nat /\ 1 \in 1..Len(guiQueue)
      /\ guiQueue' \in Seq(Calls) /\ Len(guiQueue') = Len(guiQueue) - 1
      /\ \A i \in 1..Len(guiQueue') : guiQueue'[i] = guiQueue[i + 1] /\ i + 1 \in 1..Len(guiQueue)
  BY <1>1
<1>3. e \in Calls /\ e.nr \in Nat /\ heard.nr < e.nr /\ e.nr <= sent
  BY <1>1, <1>2, QueuedAreCalls DEF QueueInOrder
<1>4. heard' = [gen |-> e.gen, nr |-> e.nr] \/ heard' = heard
  BY DEF TakeCall
<1>5. /\ heard' \in [gen : Nat, nr : Nat] /\ heard'.nr <= sent'
      /\ heard'.nr = e.nr \/ heard'.nr = heard.nr
  BY <1>1, <1>3, <1>4 DEF Calls, Generations, SessionTypeOK
<1>6. \A i \in 1..Len(guiQueue) : guiQueue[i].nr \in Nat
  BY <1>1, QueuedAreCalls
<1>7. ASSUME NEW i \in 1..Len(guiQueue')
      PROVE  heard'.nr < guiQueue'[i].nr /\ guiQueue'[i].nr <= sent'
  <2>1. e.nr < guiQueue[i + 1].nr /\ guiQueue[i + 1].nr <= sent
    BY <1>1, <1>2 DEF QueueInOrder
  <2>2. guiQueue[i + 1].nr \in Nat
    BY <1>2, <1>6
  <2> QED
    BY <1>1, <1>2, <1>3, <1>5, <2>1, <2>2
<1>8. ASSUME NEW i \in 1..Len(guiQueue'), NEW j \in 1..Len(guiQueue'), i < j
      PROVE  guiQueue'[i].nr < guiQueue'[j].nr
  <2>1. i + 1 < j + 1
    BY <1>2, <1>8
  <2> QED
    BY <1>2, <2>1 DEF QueueInOrder
<1> QED
  BY <1>1, <1>2, <1>3, <1>5, <1>7, <1>8 DEF QueueInOrder, SessionTypeOK

-----------------------------------------------------------------------------
\* The steps.

LEMMA BindKeepsIInv ==
    ASSUME IInv, ~shuttingDown, NEW id \in Ids, NEW mode \in Modes, Bind(id, mode)
    PROVE  IInv' /\ (generation' = generation \/ generation' = generation + 1) /\ heard' = heard
<1>1. PICK status \in BindStatuses(id, mode), udp \in ApplyUdpBinding(mode) :
        BindHalves(id, mode, status, udp)
  BY DEF Bind
<1>2. PICK connectFails \in BOOLEAN : AdapterBind(status, id, mode, connectFails)
  BY <1>1 DEF BindHalves
<1>3. /\ receiver' = udp.receiver /\ bindResult' = [client |-> status, started |-> udp.started]
      /\ ApplyClientBinding(status, id, mode)
  BY <1>1 DEF BindHalves
<1>4. shuttingDown' = shuttingDown /\ heard' = heard /\ generation \in Nat
  BY <1>2 DEF AdapterBind, IInv, SessionTypeOK
<1>5. udp.receiver.addr \in {mode, None} /\ (~udp.started => udp.receiver.thread = "none")
  BY DEF ApplyUdpBinding, Starts, NotListening
<1>6. CASE status = "Changed"
  <2>1. BindClient(id, mode, connectFails) /\ generation < MaxGen
    BY <1>2, <1>6 DEF AdapterBind
  <2>2. /\ generation' = generation + 1
        /\ snapshot' = [gen |-> generation + 1, id |-> id, mode |-> mode]
    BY <2>1 DEF BindClient
  <2>3. generation + 1 \in Generations
    BY <1>4, <2>1, MqttAdapterAssumption DEF Generations
  <2>4. CASE connectFails
    <3>1. Enqueue(generation + 1, "failed") /\ "failed" \in Signals \cup Topics
      BY <2>1, <2>4 DEF BindClient, Signals
    <3>2. QueueInOrder' /\ sent' \in Nat /\ heard.nr <= sent'
      BY <1>4, <2>3, <3>1, EnqueueKeepsOrder DEF IInv
    <3> QED
      BY <1>3, <1>4, <1>5, <1>6, <2>2, <3>2
         DEF IInv, SessionTypeOK, ModeIsAsked, ShownIsAsked, BothHalvesAgree, FailedStartIsRetried,
             ApplyClientBinding
  <2>5. CASE ~connectFails
    <3>1. sent' = sent /\ guiQueue' = guiQueue
      BY <2>1, <2>5 DEF BindClient
    <3> QED
      BY <1>3, <1>4, <1>5, <1>6, <2>2, <3>1
         DEF IInv, SessionTypeOK, QueueInOrder, ModeIsAsked, ShownIsAsked, BothHalvesAgree,
             FailedStartIsRetried, ApplyClientBinding
  <2> QED
    BY <1>4, <2>2, <2>4, <2>5
<1>7. CASE status # "Changed"
  <2>1. UNCHANGED <<snapshot, generation, sent, guiQueue, requestedClientId, clientId, connMode,
                    online>>
    BY <1>2, <1>3, <1>7 DEF AdapterBind, ApplyClientBinding
  <2>2. \/ status = "Failed" /\ lastChoseConnMode' = lastChoseConnMode
        \/ /\ status = "Unchanged" /\ lastChoseConnMode' = mode
           /\ snapshot.mode = mode /\ snapshot.id = id
    BY <1>3, <1>7 DEF BindStatuses, ApplyClientBinding
  <2>3. lastChoseConnMode' = lastChoseConnMode
    BY <2>2 DEF IInv, ModeIsAsked
  <2>4. BothHalvesAgree'
    BY <1>3, <1>5, <2>1, <2>2 DEF BothHalvesAgree
  <2>5. FailedStartIsRetried'
    BY <1>3, <1>5 DEF FailedStartIsRetried
  <2> QED
    BY <1>4, <2>1, <2>3, <2>4, <2>5
       DEF IInv, SessionTypeOK, QueueInOrder, ModeIsAsked, ShownIsAsked
<1> QED
  BY <1>6, <1>7

\* Only what the bound client says is heard, and only what was not heard yet.
LEMMA HandleCallKeepsIInv ==
    ASSUME IInv, ~shuttingDown, HandleCall
    PROVE  /\ IInv'
           /\ generation' = generation
           /\ \/ heard' = heard
              \/ /\ generation > 0
                 /\ heard' = [gen |-> generation, nr |-> heard'.nr]
                 /\ heard'.nr > heard.nr /\ heard'.nr \in Nat
<1>1. PICK e \in {guiQueue[i] : i \in DOMAIN guiQueue} : TakeCall(e) /\ Slots(e)
  BY DEF HandleCall
<1>2. /\ UNCHANGED <<requestedClientId, lastChoseConnMode, udpVars>>
      /\ UNCHANGED <<snapshot, generation, shuttingDown>>
  BY <1>1 DEF HandleCall, TakeCall, bindingVars
<1>3. QueueInOrder' /\ SessionTypeOK' /\ e \in Calls /\ heard.nr < e.nr
  BY <1>1, TakeCallKeepsOrder DEF IInv
<1>4. e.gen \in Generations /\ e.nr \in Nat
  BY <1>3 DEF Calls
<1>5. ShownIsAsked'
  <2>1. CASE UNCHANGED <<clientId, connMode, online>>
    BY <1>2, <2>1 DEF IInv, ShownIsAsked
  <2>2. CASE SetConnectedState /\ IsWanted(e)
    <3>1. snapshot.gen > 0
      BY <1>4, <2>2 DEF IsWanted, IsCurrent, Generations
    <3>2. requestedClientId # None
      BY <3>1, MqttAdapterAssumption DEF IInv, ModeIsAsked
    <3> QED
      BY <1>2, <2>2, <3>2 DEF SetConnectedState, ShownIsAsked
  <2>3. CASE ClearConnectedState
    BY <2>3 DEF ClearConnectedState, ShownIsAsked
  <2> QED
    BY <1>1, <2>1, <2>2, <2>3 DEF Slots
<1>6. \/ heard' = heard
      \/ /\ generation > 0
         /\ heard' = [gen |-> generation, nr |-> heard'.nr]
         /\ heard'.nr > heard.nr /\ heard'.nr \in Nat
  <2>1. CASE IsWanted(e)
    <3>1. heard' = [gen |-> e.gen, nr |-> e.nr] /\ e.gen = snapshot.gen
      BY <1>1, <2>1 DEF TakeCall, IsWanted, IsCurrent
    <3>2. snapshot.gen = generation
      BY DEF IInv, ModeIsAsked
    <3>3. generation > 0
      BY <1>4, <3>1, <3>2 DEF Generations
    <3>4. heard'.nr = e.nr /\ heard.nr \in Nat
      BY <3>1 DEF IInv, SessionTypeOK
    <3> QED
      BY <1>3, <1>4, <3>1, <3>2, <3>3, <3>4
  <2>2. CASE ~IsWanted(e)
    BY <1>1, <2>2 DEF TakeCall
  <2> QED
    BY <2>1, <2>2
<1> QED
  BY <1>2, <1>3, <1>5, <1>6
     DEF IInv, ModeIsAsked, BothHalvesAgree, FailedStartIsRetried, udpVars

\* Other threads say what goes to the end of the queue.
LEMMA AdapterThreadsKeepIInv ==
    ASSUME IInv, AdapterThreads, UNCHANGED <<shownVars, udpVars, streamVars>>
    PROVE  IInv' /\ generation' = generation /\ heard' = heard
<1>1. UNCHANGED <<bindingVars, heard>>
  BY DEF AdapterThreads, PublishBegins, PublishEnds, ClientTells, ClientReceives
<1>2. QueueInOrder' /\ SessionTypeOK'
  <2>1. CASE UNCHANGED <<sent, guiQueue>>
    BY <1>1, <2>1 DEF IInv, SessionTypeOK, QueueInOrder, bindingVars
  <2>2. CASE \E g \in Generations, what \in Signals \cup Topics : Enqueue(g, what)
    <3>1. QueueInOrder' /\ sent' \in Nat /\ heard.nr <= sent'
      BY <1>1, <2>2, EnqueueKeepsOrder DEF IInv
    <3> QED
      BY <1>1, <3>1 DEF IInv, SessionTypeOK, bindingVars
  <2>3. \/ UNCHANGED <<sent, guiQueue>>
        \/ \E g \in Generations, what \in Signals \cup Topics : Enqueue(g, what)
    BY DEF AdapterThreads, PublishBegins, PublishEnds, ClientTells, ClientReceives
  <2> QED
    BY <2>1, <2>2, <2>3
<1> QED
  BY <1>1, <1>2
     DEF IInv, ModeIsAsked, ShownIsAsked, BothHalvesAgree, FailedStartIsRetried, bindingVars,
         shownVars, udpVars

LEMMA ShutdownKeepsIInv ==
    ASSUME IInv, Shutdown, UNCHANGED <<shownVars, udpVars, streamVars>>
    PROVE  IInv' /\ generation' = generation + 1 /\ heard' = heard
<1>1. /\ shuttingDown' = TRUE /\ generation' = generation + 1 /\ guiQueue' = <<>>
      /\ sent' = sent /\ heard' = heard
  BY DEF Shutdown, clientVars
<1>2. QueueInOrder'
  <2>1. guiQueue' \in Seq(Calls) /\ Len(guiQueue') = 0
    BY <1>1
  <2> QED
    BY <2>1 DEF QueueInOrder
<1> QED
  BY <1>1, <1>2
     DEF IInv, SessionTypeOK, ModeIsAsked, ShownIsAsked, BothHalvesAgree, FailedStartIsRetried,
         shownVars, udpVars

LEMMA StreamsKeepIInv ==
    ASSUME IInv, UpdateStreamStatus \/ FramePushed \/ ThreadEnds \/ Tick
    PROVE  IInv' /\ generation' = generation /\ heard' = heard
<1>1. UNCHANGED <<adapterVars, shownVars, bindResult>>
  BY DEF UpdateStreamStatus, FramePushed, ThreadEnds, Tick, udpVars
<1>2. BothHalvesAgree' /\ FailedStartIsRetried'
  <2>1. CASE receiver' = receiver
    BY <1>1, <2>1 DEF IInv, BothHalvesAgree, FailedStartIsRetried, adapterVars, bindingVars
  <2>2. CASE ThreadEnds
    <3>1. bindResult.started \/ receiver.thread = "none"
      BY DEF IInv, FailedStartIsRetried
    <3>2. bindResult'.started
      BY <1>1, <2>2, <3>1 DEF ThreadEnds
    <3>3. receiver'.addr = receiver.addr \/ bindResult.client \notin {"Changed", "Unchanged"}
           \/ receiver'.addr \in {snapshot.mode, None} \/ shuttingDown
      BY <2>2 DEF ThreadEnds
    <3> QED
      BY <1>1, <3>2, <3>3 DEF IInv, BothHalvesAgree, FailedStartIsRetried, adapterVars, bindingVars
  <2> QED
    BY <2>1, <2>2 DEF UpdateStreamStatus, FramePushed, Tick, udpVars
<1> QED
  BY <1>1, <1>2
     DEF IInv, SessionTypeOK, QueueInOrder, ModeIsAsked, ShownIsAsked, adapterVars, bindingVars,
         clientVars, shownVars

-----------------------------------------------------------------------------
\* What a step does to the invariant and to the session.
LEMMA NextKeepsIInv ==
    ASSUME IInv, [Next]_vars
    PROVE  /\ IInv'
           /\ \/ generation' \in {generation, generation + 1} /\ heard' = heard
              \/ /\ generation' = generation
                 /\ generation > 0
                 /\ heard' = [gen |-> generation, nr |-> heard'.nr]
                 /\ heard'.nr > heard.nr /\ heard'.nr \in Nat
<1>1. CASE Next
  <2>1. ~shuttingDown
    BY <1>1 DEF Next
  <2>2. ASSUME NEW id \in Ids, NEW mode \in Modes, Bind(id, mode)
        PROVE  IInv' /\ generation' \in {generation, generation + 1} /\ heard' = heard
    BY <2>1, <2>2, BindKeepsIInv
  <2>3. CASE HandleCall
    BY <2>1, <2>3, HandleCallKeepsIInv
  <2>4. CASE Shutdown /\ UNCHANGED <<shownVars, udpVars, streamVars>>
    BY <2>4, ShutdownKeepsIInv
  <2>5. CASE AdapterThreads /\ UNCHANGED <<shownVars, udpVars, streamVars>>
    BY <2>5, AdapterThreadsKeepIInv
  <2>6. CASE UpdateStreamStatus \/ FramePushed \/ ThreadEnds \/ Tick
    BY <2>6, StreamsKeepIInv
  <2> QED
    BY <1>1, <2>2, <2>3, <2>4, <2>5, <2>6 DEF Next, GuiThread, OtherThreads
<1>2. CASE UNCHANGED vars
  BY <1>2 DEF vars, adapterVars, bindingVars, clientVars, shownVars, udpVars, IInv, SessionTypeOK,
              QueueInOrder, ModeIsAsked, ShownIsAsked, BothHalvesAgree, FailedStartIsRetried
<1> QED
  BY <1>1, <1>2

LEMMA InitHasIInv == Init => IInv
<1> SUFFICES ASSUME Init PROVE IInv
  OBVIOUS
<1>1. QueueInOrder
  <2>1. guiQueue \in Seq(Calls) /\ Len(guiQueue) = 0
    BY DEF Init, AdapterInit
  <2> QED
    BY <2>1 DEF QueueInOrder
<1>2. SessionTypeOK
  <2>1. /\ generation = 0 /\ sent = 0 /\ shuttingDown = FALSE
        /\ heard = [gen |-> 0, nr |-> 0] /\ heard.nr = 0
    BY DEF Init, AdapterInit
  <2>2. heard \in [gen : Nat, nr : Nat]
    BY <2>1
  <2>3. heard.nr <= sent
    BY <2>1
  <2>4. generation \in Nat /\ sent \in Nat /\ shuttingDown \in BOOLEAN
    BY <2>1
  <2> QED
    BY <2>2, <2>3, <2>4 DEF SessionTypeOK
<1>3. ModeIsAsked /\ ShownIsAsked
  BY DEF Init, AdapterInit, Unbound, ModeIsAsked, ShownIsAsked
<1>4. bindResult.client = "none" /\ bindResult.started = TRUE
  BY DEF Init
<1>5. BothHalvesAgree /\ FailedStartIsRetried
  BY <1>4 DEF BothHalvesAgree, FailedStartIsRetried
<1> QED
  BY <1>1, <1>2, <1>3, <1>5 DEF IInv

\* The invariant holds in every state of the service and its adapter.
THEOREM Invariance == Spec => []IInv
BY InitHasIInv, NextKeepsIInv, PTL DEF Spec

\* The id and the mode shown are those of the bound client.
THEOREM ShowsTheBound == Spec => []ShownIsBound
<1>1. IInv => ShownIsBound
  BY DEF IInv, ModeIsAsked, ShownIsAsked, ShownIsBound
<1> QED
  BY <1>1, Invariance, PTL

\* The receiver listens where the client is, whichever half failed before.
THEOREM HalvesAgree == Spec => []BothHalvesAgree
<1>1. IInv => BothHalvesAgree
  BY DEF IInv
<1> QED
  BY <1>1, Invariance, PTL

\* A thread that failed to start is joined, whichever step of bind() failed, so the
\* next bind() does not take it for a running one.
THEOREM FailedIsRetried == Spec => []FailedStartIsRetried
<1>1. IInv => FailedStartIsRetried
  BY DEF IInv
<1> QED
  BY <1>1, Invariance, PTL

\* Slots and handlers hear of the bound client only, in order, nothing twice:
\* the adapter implements the session it promises, for any number of bindings.
THEOREM ImplementsSession == Spec => HeardOfBoundClientOnly
<1>1. Init => Session!Init
  BY DEF Init, AdapterInit, Session!Init
<1>2. IInv /\ [Next]_vars => [Session!Next]_<<generation, heard>>
  <2> SUFFICES ASSUME IInv, [Next]_vars
               PROVE  [Session!Next]_<<generation, heard>>
    OBVIOUS
  <2>1. generation \in Nat /\ heard.nr \in Nat
    BY DEF IInv, SessionTypeOK
  <2>2. CASE generation' \in {generation, generation + 1} /\ heard' = heard
    BY <2>1, <2>2 DEF Session!Next, Session!Rebind
  <2>3. CASE /\ generation' = generation
             /\ generation > 0
             /\ heard' = [gen |-> generation, nr |-> heard'.nr]
             /\ heard'.nr > heard.nr /\ heard'.nr \in Nat
    <3>1. heard'.nr > IF heard.gen = generation THEN heard.nr ELSE 0
      BY <2>1, <2>3
    <3> QED
      BY <2>3, <3>1 DEF Session!Next, Session!Hear
  <2> QED
    BY <2>2, <2>3, NextKeepsIInv
<1> QED
  BY <1>1, <1>2, Invariance, PTL DEF Spec, HeardOfBoundClientOnly, Session!Spec

-----------------------------------------------------------------------------
\* The types.  The queue is a sequence by IInv.

EnqueuedOK == [gen : Generations, nr : 1..MaxEvents, what : Signals \cup Topics]

LEMMA EnqueueTyped ==
    ASSUME IInv, AdapterTypeOK, NEW g \in Generations, NEW what \in Signals \cup Topics,
           Enqueue(g, what)
    PROVE  sent' \in 0..MaxEvents /\ \A i \in DOMAIN guiQueue' : guiQueue'[i] \in EnqueuedOK
<1> DEFINE e == [gen |-> g, nr |-> sent + 1, what |-> what]
<1>1. sent \in 0..MaxEvents /\ sent < MaxEvents /\ sent' = sent + 1 /\ guiQueue' = Append(guiQueue, e)
  BY DEF AdapterTypeOK, Enqueue, Event
<1>2. sent' \in 0..MaxEvents /\ sent + 1 \in 1..MaxEvents
  BY <1>1, MqttAdapterAssumption
<1>3. e \in EnqueuedOK
  BY <1>2 DEF EnqueuedOK
<1> HIDE DEF e
<1>4. guiQueue \in Seq(Calls) /\ \A i \in DOMAIN guiQueue : guiQueue[i] \in EnqueuedOK
  BY DEF IInv, QueueInOrder, AdapterTypeOK, EnqueuedOK
<1>5. ASSUME NEW i \in DOMAIN guiQueue' PROVE guiQueue'[i] \in EnqueuedOK
  <2>1. guiQueue'[i] = e \/ (i \in DOMAIN guiQueue /\ guiQueue'[i] = guiQueue[i])
    BY <1>1, <1>4
  <2> QED
    BY <1>3, <1>4, <2>1
<1> QED
  BY <1>2, <1>5

LEMMA AdapterBindTyped ==
    ASSUME IInv, AdapterTypeOK, NEW id \in Ids, NEW mode \in Modes, NEW status, NEW fails,
           AdapterBind(status, id, mode, fails)
    PROVE  AdapterTypeOK'
<1>1. ~shuttingDown /\ generation = snapshot.gen /\ UNCHANGED <<shuttingDown, held, heard>>
  BY DEF AdapterBind, AdapterTypeOK
<1>2. CASE status = "Changed"
  <2> DEFINE g == generation + 1
  <2>1. BindClient(id, mode, fails) /\ generation < MaxGen
    BY <1>2 DEF AdapterBind
  <2>2. g \in Generations /\ g \in 0..MaxGen + 1
    BY <2>1, MqttAdapterAssumption DEF AdapterTypeOK, Generations
  <2>3. generation' = g /\ snapshot' = [gen |-> g, id |-> id, mode |-> mode]
        /\ topicRegister' = {} \cup TopicsOf[id]
    BY <2>1 DEF BindClient, Register
  <2> HIDE DEF g
  <2>4. /\ snapshot' \in [gen : Generations, id : Ids, mode : Modes] /\ snapshot'.gen = g
        /\ topicRegister' \subseteq Topics
    BY <2>2, <2>3 DEF Topics
  <2>5. /\ told' \in [Generations -> Signals]
        /\ sent' \in 0..MaxEvents /\ \A i \in DOMAIN guiQueue' : guiQueue'[i] \in EnqueuedOK
    <3>1. CASE fails
      <4>1. Enqueue(g, "failed") /\ told' = [told EXCEPT ![g] = "failed"]
        BY <2>1, <3>1 DEF BindClient, g
      <4>2. "failed" \in Signals
        BY DEF Signals
      <4> QED
        BY <2>2, <4>1, <4>2, EnqueueTyped DEF AdapterTypeOK
    <3>2. CASE ~fails
      BY <2>1, <3>2 DEF BindClient, AdapterTypeOK, EnqueuedOK
    <3> QED
      BY <3>1, <3>2
  <2> QED
    BY <1>1, <2>2, <2>3, <2>4, <2>5 DEF AdapterTypeOK, EnqueuedOK
<1>3. CASE status # "Changed"
  BY <1>1, <1>3 DEF AdapterBind, AdapterTypeOK
<1> QED
  BY <1>2, <1>3

LEMMA AdapterThreadsTyped ==
    ASSUME IInv, AdapterTypeOK, ~shuttingDown, AdapterThreads
    PROVE  AdapterTypeOK'
<1>1. UNCHANGED <<snapshot, generation, shuttingDown, topicRegister, heard>>
  BY DEF AdapterThreads, PublishBegins, PublishEnds, ClientTells, ClientReceives, bindingVars
<1>2. CASE \E g \in Generations : PublishBegins(g)
  BY <1>1, <1>2, MqttAdapterAssumption DEF PublishBegins, AdapterTypeOK, Generations
<1>3. CASE PublishEnds
  BY <1>1, <1>3, MqttAdapterAssumption DEF PublishEnds, AdapterTypeOK
<1>4. CASE \E g \in Generations, s \in Signals : ClientTells(g, s)
  <2>1. PICK g \in Generations, s \in Signals : ClientTells(g, s)
    BY <1>4
  <2>2. told' = [told EXCEPT ![g] = s] /\ held' = held /\ Enqueue(g, s)
    BY <2>1 DEF ClientTells
  <2>3. sent' \in 0..MaxEvents /\ \A i \in DOMAIN guiQueue' : guiQueue'[i] \in EnqueuedOK
    BY <2>2, EnqueueTyped
  <2> QED
    BY <1>1, <2>2, <2>3 DEF AdapterTypeOK, EnqueuedOK
<1>5. CASE \E g \in Generations, t \in Topics : ClientReceives(g, t)
  <2>1. PICK g \in Generations, t \in Topics : ClientReceives(g, t)
    BY <1>5
  <2>2. told' = told /\ held' = held /\ Enqueue(g, t)
    BY <2>1 DEF ClientReceives
  <2>3. sent' \in 0..MaxEvents /\ \A i \in DOMAIN guiQueue' : guiQueue'[i] \in EnqueuedOK
    BY <2>2, EnqueueTyped
  <2> QED
    BY <1>1, <2>2, <2>3 DEF AdapterTypeOK, EnqueuedOK
<1> QED
  BY <1>2, <1>3, <1>4, <1>5 DEF AdapterThreads

LEMMA TakeCallTyped ==
    ASSUME IInv, AdapterTypeOK, ~shuttingDown, NEW e, TakeCall(e)
    PROVE  AdapterTypeOK'
<1>1. /\ guiQueue \in Seq(Calls) /\ guiQueue # <<>> /\ e = guiQueue[1] /\ guiQueue' = Tail(guiQueue)
      /\ UNCHANGED <<snapshot, generation, shuttingDown, topicRegister, told, sent, held>>
  BY DEF IInv, QueueInOrder, TakeCall, bindingVars, clientVars
<1>2. \A i \in DOMAIN guiQueue : guiQueue[i] \in EnqueuedOK
  BY DEF AdapterTypeOK, EnqueuedOK
<1>3. 1 \in DOMAIN guiQueue /\ \A i \in DOMAIN guiQueue' : i + 1 \in DOMAIN guiQueue /\ guiQueue'[i] = guiQueue[i + 1]
  BY <1>1
<1>4. e \in EnqueuedOK /\ \A i \in DOMAIN guiQueue' : guiQueue'[i] \in EnqueuedOK
  BY <1>1, <1>2, <1>3
<1>5. heard' \in [gen : 0..MaxGen, nr : 0..MaxEvents]
  <2>1. e.gen \in 0..MaxGen /\ e.nr \in 0..MaxEvents
    BY <1>4, MqttAdapterAssumption DEF EnqueuedOK, Generations
  <2> QED
    BY <2>1 DEF TakeCall, AdapterTypeOK
<1> QED
  BY <1>1, <1>4, <1>5 DEF AdapterTypeOK, EnqueuedOK

LEMMA PushIsTyped ==
    ASSUME LastPushOK, NEW s, Pushed(s)
    PROVE  LastPushOK'
<1>1. 0 \in 0..TooOld
  BY ConnServiceAssumption DEF TooOld
<1> QED
  BY <1>1 DEF LastPushOK, Pushed

LEMMA AgesStayInRange ==
    ASSUME NEW age \in 0..TooOld
    PROVE  Older(age) \in 0..TooOld
  BY ConnServiceAssumption DEF Older, TooOld

LEMMA BindTyped ==
    ASSUME IInv, TypeOK, ~shuttingDown, NEW id \in Ids, NEW mode \in Modes, Bind(id, mode)
    PROVE  TypeOK'
<1>1. PICK status \in BindStatuses(id, mode), udp \in ApplyUdpBinding(mode) :
        BindHalves(id, mode, status, udp)
  BY DEF Bind
<1>2. AdapterTypeOK'
  BY <1>1, AdapterBindTyped DEF BindHalves, TypeOK
<1>3. /\ receiver' = udp.receiver /\ bindResult' = [client |-> status, started |-> udp.started]
      /\ ApplyClientBinding(status, id, mode)
      /\ LastPushOK' /\ streamOnline' \subseteq streamOnline
  <2>1. LastPushOK'
    BY <1>1 DEF BindHalves, TypeOK, LastPushOK
  <2> QED
    BY <1>1, <2>1 DEF BindHalves
<1>4. /\ udp.started \in BOOLEAN
      /\ udp.receiver \in [addr : Modes, thread : {"none", "alive", "ended"}]
                            \cup [addr : {None}, thread : {"none"}]
  <2>1. \/ udp.receiver = receiver /\ udp.started = TRUE
        \/ udp.receiver = [addr |-> mode, thread |-> "alive"] /\ udp.started = TRUE
        \/ udp.receiver = [addr |-> mode, thread |-> "none"] /\ udp.started = FALSE
        \/ udp.receiver = [addr |-> None, thread |-> "none"] /\ udp.started = FALSE
    BY DEF ApplyUdpBinding, Starts, NotListening
  <2>2. receiver \in [addr : Modes, thread : {"none", "alive", "ended"}]
                      \cup [addr : {None}, thread : {"none"}]
    BY DEF TypeOK
  <2>3. /\ [addr |-> mode, thread |-> "alive"] \in [addr : Modes, thread : {"none", "alive", "ended"}]
        /\ [addr |-> mode, thread |-> "none"] \in [addr : Modes, thread : {"none", "alive", "ended"}]
        /\ [addr |-> None, thread |-> "none"] \in [addr : {None}, thread : {"none"}]
    OBVIOUS
  <2>4. udp.started \in BOOLEAN
    BY <2>1
  <2>5. udp.receiver \in [addr : Modes, thread : {"none", "alive", "ended"}]
                           \cup [addr : {None}, thread : {"none"}]
    <3> DEFINE either == [addr : Modes, thread : {"none", "alive", "ended"}]
                           \cup [addr : {None}, thread : {"none"}]
    <3>1. receiver \in either
      BY <2>2
    <3>2. /\ [addr |-> mode, thread |-> "alive"] \in either
          /\ [addr |-> mode, thread |-> "none"] \in either
          /\ [addr |-> None, thread |-> "none"] \in either
      BY <2>3
    <3> HIDE DEF either
    <3>3. udp.receiver \in either
      BY <2>1, <3>1, <3>2
    <3> QED
      BY <3>3 DEF either
  <2> QED
    BY <2>4, <2>5
<1>5. status \in {"Changed", "Unchanged", "Failed"}
  BY DEF BindStatuses
<1>6. /\ requestedClientId' \in Ids \cup {None} /\ clientId' \in {requestedClientId', None}
      /\ lastChoseConnMode' \in Modes \cup {None} /\ connMode' \in {lastChoseConnMode', None}
      /\ online' \in BOOLEAN
  <2>1. CASE status = "Changed"
    BY <1>3, <2>1 DEF ApplyClientBinding
  <2>2. CASE status = "Failed"
    BY <1>3, <2>2 DEF ApplyClientBinding, TypeOK
  <2>3. CASE status = "Unchanged"
    <3>1. lastChoseConnMode' = mode /\ mode = snapshot.mode
      BY <1>3, <2>3 DEF ApplyClientBinding, BindStatuses
    <3>2. lastChoseConnMode' = lastChoseConnMode
      BY <3>1 DEF IInv, ModeIsAsked
    <3> QED
      BY <1>3, <2>3, <3>2 DEF ApplyClientBinding, TypeOK
  <2> QED
    BY <1>5, <2>1, <2>2, <2>3
<1> QED
  BY <1>2, <1>3, <1>4, <1>5, <1>6 DEF TypeOK, LastPushOK

LEMMA HandleCallTyped ==
    ASSUME IInv, TypeOK, ~shuttingDown, HandleCall
    PROVE  TypeOK'
<1>1. PICK e \in {guiQueue[i] : i \in DOMAIN guiQueue} : TakeCall(e) /\ Slots(e)
  BY DEF HandleCall
<1>2. UNCHANGED <<requestedClientId, lastChoseConnMode, receiver, bindResult>>
  BY DEF HandleCall, udpVars
<1>3. AdapterTypeOK'
  BY <1>1, TakeCallTyped DEF TypeOK
<1>4. /\ clientId' \in {requestedClientId', None} /\ connMode' \in {lastChoseConnMode', None}
      /\ online' \in BOOLEAN /\ LastPushOK' /\ streamOnline' \subseteq Streams
  <2>1. CASE UNCHANGED <<clientId, connMode, online, lastPush, streamOnline>>
    BY <1>2, <2>1 DEF TypeOK, LastPushOK
  <2>2. CASE SetConnectedState /\ UNCHANGED lastPush
    BY <1>2, <2>2 DEF SetConnectedState, TypeOK, LastPushOK
  <2>3. CASE ClearConnectedState /\ UNCHANGED lastPush
    BY <1>2, <2>3 DEF ClearConnectedState, TypeOK, LastPushOK
  <2>4. CASE /\ UNCHANGED <<clientId, connMode, online, streamOnline>>
             /\ IF e.what = BytesTopic THEN Pushed("deployVt") ELSE UNCHANGED lastPush
    <3>1. LastPushOK'
      BY <2>4, PushIsTyped DEF TypeOK, LastPushOK
    <3> QED
      BY <1>2, <2>4, <3>1 DEF TypeOK
  <2> QED
    BY <1>1, <2>1, <2>2, <2>3, <2>4 DEF Slots, streamVars
<1> QED
  BY <1>2, <1>3, <1>4 DEF TypeOK, LastPushOK

LEMMA NextKeepsType ==
    ASSUME IInv, TypeOK, [Next]_vars
    PROVE  TypeOK'
<1>1. CASE UNCHANGED <<adapterVars, shownVars, udpVars, streamVars>>
  BY <1>1 DEF adapterVars, bindingVars, clientVars, shownVars, udpVars, streamVars, TypeOK, AdapterTypeOK
<1>2. CASE Next
  <2>1. ~shuttingDown
    BY <1>2 DEF Next
  <2>2. ASSUME NEW id \in Ids, NEW mode \in Modes, Bind(id, mode)
        PROVE  TypeOK'
    BY <2>1, <2>2, BindTyped
  <2>3. CASE HandleCall
    BY <2>1, <2>3, HandleCallTyped
  <2>4. CASE Shutdown /\ UNCHANGED <<shownVars, udpVars, streamVars>>
    <3>1. AdapterTypeOK'
      <4>1. /\ ~shuttingDown /\ generation = snapshot.gen /\ generation' = generation + 1
            /\ shuttingDown' = TRUE /\ snapshot' = Unbound /\ topicRegister' = {} /\ guiQueue' = <<>>
            /\ UNCHANGED <<told, sent, held, heard>>
        BY <2>4 DEF Shutdown, clientVars, TypeOK, AdapterTypeOK
      <4>2. generation \in 0..MaxGen
        BY <4>1, MqttAdapterAssumption DEF TypeOK, AdapterTypeOK, Unbound, Generations
      <4>3. generation' \in 0..MaxGen + 1 /\ generation' > 0
        BY <4>1, <4>2, MqttAdapterAssumption
      <4> QED
        BY <4>1, <4>3 DEF TypeOK, AdapterTypeOK
    <3> QED
      BY <2>4, <3>1 DEF TypeOK, shownVars, udpVars, streamVars
  <2>5. CASE AdapterThreads /\ UNCHANGED <<shownVars, udpVars, streamVars>>
    <3>1. AdapterTypeOK'
      BY <2>1, <2>5, AdapterThreadsTyped DEF TypeOK
    <3> QED
      BY <2>5, <3>1 DEF TypeOK, shownVars, udpVars, streamVars
  <2>6. CASE UpdateStreamStatus \/ FramePushed \/ ThreadEnds \/ Tick
    <3>1. UNCHANGED <<adapterVars, shownVars, bindResult>>
      BY <2>6 DEF UpdateStreamStatus, FramePushed, ThreadEnds, Tick, udpVars
    <3>2. AdapterTypeOK'
      BY <3>1 DEF adapterVars, bindingVars, clientVars, TypeOK, AdapterTypeOK
    <3>3. /\ receiver' \in [addr : Modes, thread : {"none", "alive", "ended"}]
                             \cup [addr : {None}, thread : {"none"}]
          /\ LastPushOK' /\ streamOnline' \subseteq Streams
      <4>1. LastPushOK
        BY DEF TypeOK, LastPushOK
      <4>2. CASE UpdateStreamStatus
        BY <4>1, <4>2 DEF UpdateStreamStatus, udpVars, TypeOK, LastPushOK
      <4>3. CASE FramePushed
        BY <4>1, <4>3, PushIsTyped DEF FramePushed, udpVars, TypeOK
      <4>4. CASE ThreadEnds
        BY <4>1, <4>4 DEF ThreadEnds, streamVars, TypeOK, LastPushOK
      <4>5. CASE Tick
        BY <4>1, <4>5, AgesStayInRange DEF Tick, udpVars, TypeOK, LastPushOK
      <4> QED
        BY <2>6, <4>2, <4>3, <4>4, <4>5
    <3> QED
      BY <3>1, <3>2, <3>3 DEF TypeOK, shownVars, LastPushOK
  <2> QED
    BY <1>2, <2>2, <2>3, <2>4, <2>5, <2>6 DEF Next, GuiThread, OtherThreads
<1> QED
  BY <1>1, <1>2 DEF vars

\* Every reachable state of the service and its adapter is well typed: the
\* generation is that of the client, the queue is empty once the adapter is
\* closed, and a receiver without an address has no thread.
THEOREM TypeCorrect == Spec => []TypeOK
<1>1. Init => TypeOK
  <2> SUFFICES ASSUME Init PROVE TypeOK
    OBVIOUS
  <2>1. AdapterTypeOK
    <3>1. 0 \in 0..MaxGen + 1 /\ 0 \in 0..MaxGen /\ 0 \in 0..MaxEvents /\ "nothing" \in Signals
      BY MqttAdapterAssumption DEF Signals
    <3>2. guiQueue = <<>> /\ DOMAIN guiQueue = {}
      BY DEF Init, AdapterInit
    <3> QED
      BY <3>1, <3>2 DEF Init, AdapterInit, AdapterTypeOK, Unbound
  <2>2. lastPush \in [Streams -> [age : 0..TooOld, sinceEpoch : BOOLEAN]]
    <3>1. TooOld \in 0..TooOld
      BY ConnServiceAssumption DEF TooOld
    <3> QED
      BY <3>1 DEF Init
  <2>3. /\ receiver \in [addr : Modes, thread : {"none", "alive", "ended"}]
                         \cup [addr : {None}, thread : {"none"}]
        /\ bindResult \in [client : {"none", "Changed", "Unchanged", "Failed"}, started : BOOLEAN]
    BY DEF Init
  <2> QED
    BY <2>1, <2>2, <2>3 DEF Init, TypeOK
<1> QED
  BY <1>1, NextKeepsType, Invariance, PTL DEF Spec
=============================================================================
