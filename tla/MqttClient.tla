----------------------------- MODULE MqttClient -----------------------------
(***************************************************************************)
(* TMqttClient: the topics of one client and their subscription.  Threads  *)
(* of the program register topics; the library (Paho) connects, reconnects *)
(* by itself, and calls back from a thread of its own, one callback after  *)
(* the other.  Sessions are clean: the broker forgets the subscriptions    *)
(* when the connection goes.  subscribe() throws when there is none.       *)
(***************************************************************************)
EXTENDS Naturals, Sequences

CONSTANTS
    Topics,
    MaxSessions,    \* bound: connections made
    MaxMessages     \* bound: callbacks waiting for the library's thread

ASSUME MqttClientAssumption == MaxSessions \in Nat /\ MaxMessages \in Nat

VARIABLES
    link,           \* the library's connection
    sessions,       \* connections made so far
    asked,          \* topics whose request the library took in this session
    subscribed,     \* what the broker sends in this session
    callbacks,      \* calls waiting for the library's thread
    thread,         \* where that thread is
    topicRegister,  \* the topics in the map
    handlers,       \* the topics whose signal has a handler
    toSubscribe,    \* topics whose registerTopic has not subscribed yet
    told,           \* the last signal about the connection
    subSyncFailed,  \* what onSubSyncFailed named since the connection was made
    atStart         \* history: the topics in the map when it was made

clientVars == <<topicRegister, handlers, toSubscribe>>
sessionVars == <<link, sessions, asked, subscribed, atStart>>
vars == <<sessionVars, clientVars, callbacks, thread, told, subSyncFailed>>

Idle == [at |-> "idle", todo |-> {}, failed |-> {}]

Telling == [at |-> "tell", todo |-> {}, failed |-> {}]

Subscribing == thread.at = "subscribing"

CallType == [name : {"connected", "lost", "failed", "message"}, topics : SUBSET Topics]

Call(name, topics) == [name |-> name, topics |-> topics]

TypeOK ==
    /\ link \in {"new", "connecting", "up", "waiting", "dead", "gone"}
    /\ sessions \in 0..MaxSessions
    /\ asked \subseteq Topics
    /\ subscribed \subseteq Topics
    /\ callbacks \in Seq(CallType)
    /\ thread \in [at : {"subscribing"}, todo : SUBSET Topics, failed : SUBSET Topics]
                   \cup {Idle, Telling}
    /\ topicRegister \subseteq Topics
    /\ handlers \subseteq Topics
    /\ toSubscribe \subseteq Topics
    /\ told \in {"nothing", "connected", "lost", "failed"}
    /\ subSyncFailed \subseteq Topics
    /\ atStart \subseteq Topics

Init ==
    /\ link = "new"
    /\ sessions = 0
    /\ asked = {}
    /\ subscribed = {}
    /\ callbacks = <<>>
    /\ thread = Idle
    /\ topicRegister = {}
    /\ handlers = {}
    /\ toSubscribe = {}
    /\ told = "nothing"
    /\ subSyncFailed = {}
    /\ atStart = {}

-----------------------------------------------------------------------------
\* The program's calls.

\* Only a topic that is in the map already gets its handler under the lock.
AddTopicHandlerLater(t) ==
    /\ ~Subscribing
    /\ link # "gone"
    /\ topicRegister' = topicRegister \cup {t}
    /\ handlers' = handlers \cup ({t} \cap topicRegister)
    /\ toSubscribe' = IF t \in topicRegister THEN toSubscribe ELSE toSubscribe \cup {t}
    /\ UNCHANGED <<sessionVars, callbacks, thread, told, subSyncFailed>>

\* The map is changed under the exclusive lock; subscribeAll holds the shared
\* one.  A topic that is new is subscribed after the lock is released.
AddTopic(t) ==
    /\ ~Subscribing
    /\ link # "gone"
    /\ topicRegister' = topicRegister \cup {t}
    /\ handlers' = handlers \cup {t}
    /\ toSubscribe' = IF t \in topicRegister THEN toSubscribe ELSE toSubscribe \cup {t}
    /\ UNCHANGED <<sessionVars, callbacks, thread, told, subSyncFailed>>

\* subscribe() hands the request to the library and does not wait for the
\* broker's answer: no one looks at the token.
Ask(t) == link = "up" /\ asked' = asked \cup {t}

\* registerTopic's own subscribe: what it throws is ignored.
SubscribeTopic(t) ==
    /\ t \in toSubscribe
    /\ toSubscribe' = toSubscribe \ {t}
    /\ Ask(t) \/ UNCHANGED asked
    /\ UNCHANGED <<link, sessions, subscribed, atStart>>
    /\ UNCHANGED <<topicRegister, handlers, callbacks, thread, told, subSyncFailed>>

\* connect() does not look whether there is a connection.
ConnectAgain ==
    /\ \/ link = "new" /\ link' = "connecting" /\ UNCHANGED told
       \/ link # "gone" /\ told' = "failed" /\ UNCHANGED link
    /\ UNCHANGED <<sessions, asked, subscribed, atStart, clientVars, callbacks, thread, subSyncFailed>>

\* connect() is called once, by the one who made the client.  When starting it
\* throws, the failure is told at once.
Connect ==
    /\ link = "new"
    /\ \/ link' = "connecting" /\ UNCHANGED told
       \/ link' = "dead" /\ told' = "failed"
    /\ UNCHANGED <<sessions, asked, subscribed, atStart, clientVars, callbacks, thread, subSyncFailed>>

\* The destructor: no callback after it.
Destroy ==
    /\ link # "gone"
    /\ toSubscribe = {}
    /\ thread = Idle
    /\ link' = "gone"
    /\ callbacks' = <<>>
    /\ asked' = {}
    /\ subscribed' = {}
    /\ UNCHANGED <<sessions, atStart, clientVars, thread, told, subSyncFailed>>

-----------------------------------------------------------------------------
\* The library and the broker.

SessionStarts ==
    /\ link \in {"connecting", "waiting"}
    /\ sessions < MaxSessions
    /\ link' = "up"
    /\ sessions' = sessions + 1
    /\ atStart' = topicRegister
    /\ subSyncFailed' = {}
    /\ callbacks' = Append(callbacks, Call("connected", {}))
    /\ UNCHANGED <<asked, subscribed, clientVars, thread, told>>

\* The first connection fails: the library may or may not try again.
ConnectFails ==
    /\ link = "connecting"
    /\ link' \in {"waiting", "dead"}
    /\ callbacks' = Append(callbacks, Call("failed", {}))
    /\ UNCHANGED <<sessions, asked, subscribed, atStart, clientVars, thread, told, subSyncFailed>>

SessionEnds ==
    /\ link = "up"
    /\ link' = "waiting"
    /\ asked' = {}
    /\ subscribed' = {}
    /\ callbacks' = Append(callbacks, Call("lost", {}))
    /\ UNCHANGED <<sessions, atStart, clientVars, thread, told, subSyncFailed>>

\* The broker grants what it was asked for, sooner, later or never: a refusal
\* is an answer that no one hears.
Grant(t) ==
    /\ t \in asked \ subscribed
    /\ subscribed' = subscribed \cup {t}
    /\ UNCHANGED <<link, sessions, asked, atStart, clientVars, callbacks, thread, told, subSyncFailed>>

MessageComes(t) ==
    /\ link = "up"
    /\ t \in subscribed
    /\ Len(callbacks) < MaxMessages
    /\ callbacks' = Append(callbacks, Call("message", {t}))
    /\ UNCHANGED <<sessionVars, clientVars, thread, told, subSyncFailed>>

-----------------------------------------------------------------------------
\* The callbacks.

IsNext(name) == thread = Idle /\ callbacks # <<>> /\ Head(callbacks).name = name

Done == callbacks' = Tail(callbacks)

\* Only the first connection subscribes.
OnConnectedFirstOnly ==
    /\ IsNext("connected")
    /\ thread' = [at |-> "subscribing", failed |-> {},
                  todo |-> IF told = "lost" THEN {} ELSE topicRegister]
    /\ subSyncFailed' = {}
    /\ UNCHANGED <<sessionVars, clientVars, callbacks, told>>

\* connected() takes the shared lock and subscribes every topic in the map.
OnConnected ==
    /\ IsNext("connected")
    /\ thread' = [at |-> "subscribing", todo |-> topicRegister, failed |-> {}]
    /\ subSyncFailed' = {}
    /\ UNCHANGED <<sessionVars, clientVars, callbacks, told>>

SubscribeNext(t) ==
    /\ Subscribing
    /\ t \in thread.todo
    /\ \/ Ask(t) /\ thread' = [thread EXCEPT !.todo = @ \ {t}]
       \/ UNCHANGED asked /\ thread' = [thread EXCEPT !.todo = @ \ {t}, !.failed = @ \cup {t}]
    /\ UNCHANGED <<link, sessions, subscribed, atStart, clientVars, callbacks, told, subSyncFailed>>

\* The lock is released and the failures are told.
SubscribedAll ==
    /\ Subscribing
    /\ thread.todo = {}
    /\ subSyncFailed' = thread.failed
    /\ thread' = Telling
    /\ UNCHANGED <<sessionVars, clientVars, callbacks, told>>

TellConnected ==
    /\ thread = Telling
    /\ thread' = Idle
    /\ Done
    /\ told' = "connected"
    /\ UNCHANGED <<sessionVars, clientVars, subSyncFailed>>

\* The loss is logged only.
ConnectionLostSilent ==
    /\ IsNext("lost")
    /\ Done
    /\ UNCHANGED <<sessionVars, clientVars, thread, told, subSyncFailed>>

ConnectionLost ==
    /\ IsNext("lost")
    /\ Done
    /\ told' = "lost"
    /\ UNCHANGED <<sessionVars, clientVars, thread, subSyncFailed>>

OnFailure ==
    /\ IsNext("failed")
    /\ Done
    /\ told' = "failed"
    /\ UNCHANGED <<sessionVars, clientVars, thread, subSyncFailed>>

\* The topic is looked up under the shared lock; the handlers run outside it.
MessageArrived ==
    /\ IsNext("message")
    /\ Done
    /\ UNCHANGED <<sessionVars, clientVars, thread, told, subSyncFailed>>

Callback ==
    \/ OnConnected
    \/ \E t \in Topics : SubscribeNext(t)
    \/ SubscribedAll
    \/ TellConnected
    \/ ConnectionLost
    \/ OnFailure
    \/ MessageArrived

Next ==
    \/ Callback
    \/ \E t \in Topics : AddTopic(t)
    \/ \E t \in Topics : SubscribeTopic(t)
    \/ Connect
    \/ Destroy
    \/ SessionStarts
    \/ ConnectFails
    \/ SessionEnds
    \/ \E t \in Topics : Grant(t)
    \/ \E t \in Topics : MessageComes(t)

Spec == Init /\ [][Next]_vars

\* The library's thread runs, and a call of registerTopic goes on.
Fairness == WF_vars(Callback) /\ \A t \in Topics : WF_vars(SubscribeTopic(t))

FairSpec == Spec /\ Fairness

-----------------------------------------------------------------------------
\* Nothing is under way.
Quiet == callbacks = <<>> /\ thread = Idle /\ toSubscribe = {}

\* A message that arrives finds its topic and a handler: a topic enters the map
\* with its handler, and before it is subscribed.
MessagesFindHandlers ==
    \A i \in DOMAIN callbacks :
      callbacks[i].name = "message" => callbacks[i].topics \subseteq topicRegister \cap handlers

\* Once the callbacks are through, what was told last is how the link is.
ToldIsCurrent ==
    Quiet /\ link # "gone" => (told = "connected" <=> link = "up")

\* The comment of registerTopic: a topic whose own subscribe failed, as one
\* registered without a connection, is tried again in the next connection.  If
\* that lasts, its own connected() comes through, and the library has taken the
\* request or onSubSyncFailed has named the topic.  What the broker answers is
\* told to no one, so no more than this can be said.
RegisteredGetAsked ==
    \A t \in Topics :
      (t \in atStart /\ link = "up") ~>
        \/ link # "up"
        \/ /\ t \in asked \cup subSyncFailed
           /\ \A i \in DOMAIN callbacks : callbacks[i].name # "connected"

\* The signals come in the order the adapter and its users rely on.
SignalOrder == INSTANCE ClientSignals WITH told <- told
SignalsInOrder == SignalOrder!Spec
=============================================================================
