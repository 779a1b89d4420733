----------------------------- MODULE MqttAdapter -----------------------------
(***************************************************************************)
(* GMqttAdapter: the MQTT client of the moment.  bind() replaces it on the *)
(* GUI thread and gives the new one a generation; what a client says, on a *)
(* thread of its own, goes through the queue of the GUI thread and finds   *)
(* there whether its generation is still the current one.  Other threads   *)
(* publish, and keep the client they publish to alive.  What the slots of  *)
(* the adapter's signals do is in the modules that extend this one.        *)
(***************************************************************************)
EXTENDS Integers, Sequences, FiniteSets, SignalOrder

CONSTANTS
    Ids, Modes,         \* client ids and the connection modes that have a URI
    None,               \* no id, no mode
    TopicsOf,           \* the topics the slots register for a client id
    MaxGen,             \* bound: bindings
    MaxEvents           \* bound: events of the clients

ASSUME MqttAdapterAssumption == MaxGen \in Nat /\ MaxEvents \in Nat /\ None \notin Ids \cup Modes

VARIABLES
    snapshot,           \* generation, id and URI of the client; the URI is told by its mode
    generation,
    shuttingDown,
    topicRegister,      \* the topics that have a channel and a handler
    told,               \* last signal of each client
    sent,               \* how many events the clients had
    held,               \* generation of the client a publishing thread holds
    guiQueue,           \* calls queued for the GUI thread
    heard               \* the last event handed on to slots and handlers

clientVars == <<told, sent, held>>
bindingVars == <<snapshot, generation, shuttingDown, topicRegister>>
adapterVars == <<bindingVars, clientVars, guiQueue, heard>>

Generations == 1..MaxGen

Topics == UNION {TopicsOf[i] : i \in Ids}

Unbound == [gen |-> 0, id |-> None, mode |-> None]

Event(g, what) == [gen |-> g, nr |-> sent + 1, what |-> what]

AdapterTypeOK ==
    /\ snapshot \in [gen : Generations, id : Ids, mode : Modes] \cup {Unbound}
    /\ generation \in 0..MaxGen + 1
    /\ ~shuttingDown => generation = snapshot.gen
    /\ shuttingDown => snapshot = Unbound /\ generation > 0 /\ guiQueue = <<>>
    /\ topicRegister \subseteq Topics
    /\ told \in [Generations -> Signals]
    /\ sent \in 0..MaxEvents
    /\ held \in 0..MaxGen
    /\ \A i \in DOMAIN guiQueue :
         guiQueue[i] \in [gen : Generations, nr : 1..MaxEvents, what : Signals \cup Topics]
    /\ heard \in [gen : 0..MaxGen, nr : 0..MaxEvents]

AdapterInit ==
    /\ snapshot = Unbound
    /\ generation = 0
    /\ shuttingDown = FALSE
    /\ topicRegister = {}
    /\ told = [g \in Generations |-> "nothing"]
    /\ sent = 0
    /\ held = 0
    /\ guiQueue = <<>>
    /\ heard = [gen |-> 0, nr |-> 0]

\* invokeMethod() of what client g says, on the thread it says it.
Enqueue(g, what) ==
    /\ sent < MaxEvents
    /\ sent' = sent + 1
    /\ guiQueue' = Append(guiQueue, Event(g, what))

-----------------------------------------------------------------------------
\* bind().

\* The same id and URI: nothing is done, whether or not the client connected.
\* Otherwise making a client may throw.
BindStatuses(id, mode) ==
    IF snapshot.id = id /\ snapshot.mode = mode THEN {"Unchanged"} ELSE {"Failed", "Changed"}

\* registerTopic(): a topic that is new gets a channel, and the client its
\* handler; it is refused without a client.
Register(topics, new) == topics \cup new

\* A new generation: the channels go, the slots of bindingChanged register
\* theirs with the new client, and only then it connects, which may fail at once.
BindClient(id, mode, connectFails) ==
    LET g == generation + 1 IN
    /\ generation' = g
    /\ snapshot' = [gen |-> g, id |-> id, mode |-> mode]
    /\ topicRegister' = Register({}, TopicsOf[id])
    /\ IF connectFails
       THEN /\ told' = [told EXCEPT ![g] = "failed"]
            /\ Enqueue(g, "failed")
       ELSE UNCHANGED <<told, sent, guiQueue>>

AdapterBind(status, id, mode, connectFails) ==
    /\ ~shuttingDown
    /\ status = "Changed" => generation < MaxGen
    /\ IF status = "Changed" THEN BindClient(id, mode, connectFails)
       ELSE UNCHANGED <<snapshot, generation, topicRegister, told, sent, guiQueue>>
    /\ UNCHANGED <<shuttingDown, held, heard>>

\* The destructor, when the threads that publish have ended.
Shutdown ==
    /\ ~shuttingDown
    /\ held = 0
    /\ shuttingDown' = TRUE
    /\ generation' = generation + 1
    /\ snapshot' = Unbound
    /\ topicRegister' = {}
    /\ guiQueue' = <<>>
    /\ UNCHANGED <<clientVars, heard>>

-----------------------------------------------------------------------------
\* publish(), from any thread.

\* It is refused when there is no client, or another one than the caller means.
PublishBegins(reqGen) ==
    /\ held = 0
    /\ ~shuttingDown
    /\ snapshot.gen > 0
    /\ snapshot.gen = reqGen
    /\ held' = reqGen
    /\ UNCHANGED <<bindingVars, told, sent, guiQueue, heard>>

\* The client takes the message, or throws; it is destroyed here if it was the
\* last reference.
PublishEnds ==
    /\ held # 0
    /\ held' = 0
    /\ UNCHANGED <<bindingVars, told, sent, guiQueue, heard>>

-----------------------------------------------------------------------------
\* The clients.

IsAlive(g) == g = snapshot.gen \/ g = held

ClientTells(g, signal) ==
    /\ IsAlive(g)
    /\ MayFollow(told[g], signal)
    /\ told' = [told EXCEPT ![g] = signal]
    /\ Enqueue(g, signal)
    /\ UNCHANGED <<bindingVars, held, heard>>

\* A message for a topic the client has; a client that was replaced may be in
\* the middle of one.
ClientReceives(g, t) ==
    /\ IsAlive(g)
    /\ told[g] = "connected"
    /\ g = snapshot.gen => t \in topicRegister
    /\ Enqueue(g, t)
    /\ UNCHANGED <<bindingVars, told, held, heard>>

-----------------------------------------------------------------------------
\* The queued calls.

\* There is a client: it need not be the one that says it.
IsCurrentOfAny(e) == snapshot.gen > 0

IsCurrent(e) == e.gen = snapshot.gen

\* A message needs the channel of its topic as well.
IsWanted(e) == IsCurrent(e) /\ (e.what \in Topics => e.what \in topicRegister)

TakeCall(e) ==
    /\ guiQueue # <<>>
    /\ e = Head(guiQueue)
    /\ guiQueue' = Tail(guiQueue)
    /\ heard' = IF IsWanted(e) THEN [gen |-> e.gen, nr |-> e.nr] ELSE heard
    /\ UNCHANGED <<bindingVars, clientVars>>

AdapterThreads ==
    \/ \E g \in Generations : PublishBegins(g)
    \/ PublishEnds
    \/ \E g \in Generations, s \in Signals : ClientTells(g, s)
    \/ \E g \in Generations, t \in Topics : ClientReceives(g, t)

-----------------------------------------------------------------------------
\* Slots and handlers hear of the bound client only, in order, nothing twice:
\* calls of the clients before it may still be queued, and these clients may
\* still be alive in a thread that publishes.
Session == INSTANCE ClientSession WITH gen <- generation, last <- heard
HeardOfBoundClientOnly == Session!Spec
=============================================================================
