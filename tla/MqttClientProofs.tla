-------------------------- MODULE MqttClientProofs --------------------------
(***************************************************************************)
(* Proofs about MqttClient for any topics, any number of sessions and any  *)
(* number of waiting callbacks: the signals are told in an order that      *)
(* makes sense, the last one says how the link is, and every message finds *)
(* its handler.                                                            *)
(***************************************************************************)
EXTENDS MqttClient, TLAPS

-----------------------------------------------------------------------------
(***************************************************************************)
(* Calls that wait in line.                                                *)
(***************************************************************************)

Signals == SignalOrder!Signals

MayFollow(last, signal) == SignalOrder!MayFollow(last, signal)

\* heard[i] is what was told last once the first i calls of q are through:
\* each call may follow what was told before it.
Hears(q, heard) ==
    /\ heard \in [0..Len(q) -> Signals]
    /\ \A i \in 1..Len(q) :
         IF q[i].name = "message"
         THEN heard[i] = heard[i - 1]
         ELSE heard[i] = q[i].name /\ MayFollow(heard[i - 1], heard[i])

\* After `first` the calls of q make sense, and end with one of `lasts`.
InLine(q, first, lasts) ==
    \E heard : Hears(q, heard) /\ heard[0] = first /\ heard[Len(q)] \in lasts

LEMMA EmptyInLine ==
  ASSUME NEW first \in Signals, NEW lasts
  PROVE  InLine(<<>>, first, lasts) <=> first \in lasts
<1>1. Len(<<>>) = 0 /\ 1..0 = {} /\ 0..0 = {0}
  OBVIOUS
<1>2. ASSUME first \in lasts
      PROVE  InLine(<<>>, first, lasts)
  <2> DEFINE heard == [i \in 0..0 |-> first]
  <2>1. heard \in [0..0 -> Signals] /\ heard[0] = first
    BY <1>1
  <2> HIDE DEF heard
  <2>2. Hears(<<>>, heard)
    BY <1>1, <2>1 DEF Hears
  <2> QED
    BY <1>1, <1>2, <2>1, <2>2 DEF InLine
<1> QED
  BY <1>1, <1>2 DEF InLine

\* A call joins the line when it may follow whatever was last.
LEMMA AppendInLine ==
  ASSUME NEW q \in Seq(CallType), NEW c \in CallType, NEW first, NEW lasts, NEW lasts2,
         InLine(q, first, lasts),
         IF c.name = "message"
         THEN lasts \subseteq lasts2
         ELSE c.name \in lasts2 /\ \A last \in lasts : MayFollow(last, c.name)
  PROVE  InLine(Append(q, c), first, lasts2)
<1> DEFINE n == Len(q)
           r == Append(q, c)
<1>1. PICK heard : Hears(q, heard) /\ heard[0] = first /\ heard[n] \in lasts
  BY DEF InLine
<1> DEFINE next == IF c.name = "message" THEN heard[n] ELSE c.name
           heard2 == [i \in 0..(n + 1) |-> IF i = n + 1 THEN next ELSE heard[i]]
<1>2. n \in Nat /\ Len(r) = n + 1 /\ r[n + 1] = c /\ \A i \in 1..n : r[i] = q[i]
  OBVIOUS
<1>3. heard \in [0..n -> Signals] /\ n \in 0..n
  BY <1>1, <1>2 DEF Hears
<1>4. next \in Signals /\ next \in lasts2
  BY <1>1, <1>3 DEF CallType, Signals, SignalOrder!Signals
<1>5. /\ heard2 \in [0..(n + 1) -> Signals]
      /\ heard2[n + 1] = next
      /\ \A i \in 0..n : heard2[i] = heard[i]
  BY <1>2, <1>3, <1>4
<1>6. c.name # "message" => MayFollow(heard[n], c.name)
  BY <1>1
<1> HIDE DEF n, r, next, heard2
<1>7. ASSUME NEW i \in 1..(n + 1)
      PROVE  IF r[i].name = "message"
             THEN heard2[i] = heard2[i - 1]
             ELSE heard2[i] = r[i].name /\ MayFollow(heard2[i - 1], heard2[i])
  <2>1. CASE i = n + 1
    <3>1. i - 1 = n /\ n \in 0..n
      BY <1>2, <2>1
    <3>2. heard2[i - 1] = heard[n] /\ heard2[i] = next /\ r[i] = c
      BY <1>2, <1>5, <2>1, <3>1
    <3> QED
      BY <1>6, <3>2 DEF next
  <2>2. CASE i \in 1..n
    <3>1. i \in 0..n /\ i - 1 \in 0..n
      BY <1>2, <2>2
    <3>2. heard2[i] = heard[i] /\ heard2[i - 1] = heard[i - 1] /\ r[i] = q[i]
      BY <1>2, <1>5, <2>2, <3>1
    <3> QED
      BY <1>1, <2>2, <3>2 DEF Hears, n
  <2> QED
    BY <1>2, <2>1, <2>2
<1>8. Hears(r, heard2)
  BY <1>2, <1>5, <1>7 DEF Hears
<1>9. heard2[0] = first /\ heard2[Len(r)] \in lasts2
  BY <1>1, <1>2, <1>4, <1>5
<1> QED
  BY <1>8, <1>9 DEF InLine, r

\* The first call leaves the line: it may follow what was told.
LEMMA TailInLine ==
  ASSUME NEW q \in Seq(CallType), q # <<>>, NEW first, NEW lasts, InLine(q, first, lasts)
  PROVE  IF Head(q).name = "message"
         THEN InLine(Tail(q), first, lasts)
         ELSE MayFollow(first, Head(q).name) /\ InLine(Tail(q), Head(q).name, lasts)
<1> DEFINE n == Len(q) - 1
           r == Tail(q)
<1>1. PICK heard : Hears(q, heard) /\ heard[0] = first /\ heard[Len(q)] \in lasts
  BY DEF InLine
<1> DEFINE heard2 == [i \in 0..n |-> heard[i + 1]]
<1>2. /\ n \in Nat /\ Len(q) = n + 1 /\ Len(r) = n /\ Head(q) = q[1]
      /\ \A i \in 1..n : r[i] = q[i + 1]
  OBVIOUS
<1> HIDE DEF n, r
<1>3. /\ heard2 \in [0..n -> Signals]
      /\ \A i \in 0..n : heard2[i] = heard[i + 1]
  BY <1>1, <1>2 DEF Hears
<1> HIDE DEF heard2
<1>4. ASSUME NEW i \in 1..n
      PROVE  IF r[i].name = "message"
             THEN heard2[i] = heard2[i - 1]
             ELSE heard2[i] = r[i].name /\ MayFollow(heard2[i - 1], heard2[i])
  <2>1. i \in 0..n /\ i - 1 \in 0..n /\ (i - 1) + 1 = i /\ i + 1 \in 1..Len(q) /\ (i + 1) - 1 = i
    BY <1>2
  <2>2. heard2[i] = heard[i + 1] /\ heard2[i - 1] = heard[i] /\ r[i] = q[i + 1]
    BY <1>2, <1>3, <2>1
  <2>3. IF q[i + 1].name = "message"
        THEN heard[i + 1] = heard[(i + 1) - 1]
        ELSE heard[i + 1] = q[i + 1].name /\ MayFollow(heard[(i + 1) - 1], heard[i + 1])
    BY <1>1, <2>1 DEF Hears
  <2> QED
    BY <2>1, <2>2, <2>3
<1>5. Hears(r, heard2) /\ heard2[Len(r)] \in lasts /\ heard2[0] = heard[1]
  BY <1>1, <1>2, <1>3, <1>4 DEF Hears
<1>6. IF q[1].name = "message"
      THEN heard[1] = first
      ELSE heard[1] = q[1].name /\ MayFollow(first, heard[1])
  BY <1>1, <1>2 DEF Hears
<1> QED
  BY <1>2, <1>5, <1>6 DEF InLine, r

-----------------------------------------------------------------------------
(***************************************************************************)
(* The inductive invariant.                                                *)
(***************************************************************************)

\* What was told last when the link is like this and no call waits.
LastTold ==
    CASE link \in {"new", "connecting"} -> {"nothing"}
      [] link = "up"                    -> {"connected"}
      [] link = "waiting"               -> {"lost", "failed"}
      [] link = "dead"                  -> {"failed"}
      [] OTHER                          -> Signals

SignalsInLine == InLine(callbacks, told, LastTold)

\* The thread is at the call it runs; no call waits before the first
\* connection or after the client.
ThreadAtCall ==
    /\ thread # Idle => callbacks # <<>> /\ Head(callbacks).name = "connected"
    /\ link \in {"new", "connecting", "gone"} => callbacks = <<>>

\* Whatever was or will be subscribed is in the map, with its handler.
TopicsHaveHandlers ==
    /\ topicRegister = handlers
    /\ asked \cup subscribed \cup toSubscribe \cup thread.todo \subseteq topicRegister
    /\ atStart \subseteq topicRegister
    /\ \A i \in DOMAIN callbacks :
         callbacks[i].name = "message" => callbacks[i].topics \subseteq topicRegister

IInv == TypeOK /\ SignalsInLine /\ ThreadAtCall /\ TopicsHaveHandlers

LEMMA InitIInv == Init => IInv
<1> SUFFICES ASSUME Init PROVE IInv
  OBVIOUS
<1> USE DEF Init
<1>1. TypeOK
  BY MqttClientAssumption DEF TypeOK
<1>2. SignalsInLine
  BY EmptyInLine DEF SignalsInLine, LastTold, Signals, SignalOrder!Signals
<1>3. ThreadAtCall /\ TopicsHaveHandlers
  BY DEF ThreadAtCall, TopicsHaveHandlers, Idle
<1> QED
  BY <1>1, <1>2, <1>3 DEF IInv

\* The library adds the call `name` when the link changes, or a message.
LEMMA CallJoins ==
  ASSUME IInv, NEW c \in CallType,
         callbacks' = Append(callbacks, c),
         UNCHANGED <<told, thread, topicRegister, handlers, toSubscribe>>,
         link' \notin {"new", "connecting", "gone"},
         asked' \subseteq asked, subscribed' \subseteq subscribed, atStart' \in {atStart, topicRegister},
         c.name = "message" => LastTold \subseteq LastTold' /\ c.topics \subseteq topicRegister,
         c.name # "message" => c.name \in LastTold' /\ \A last \in LastTold : MayFollow(last, c.name)
  PROVE  SignalsInLine' /\ ThreadAtCall' /\ TopicsHaveHandlers'
<1>1. callbacks \in Seq(CallType)
  BY DEF IInv, TypeOK
<1>2. SignalsInLine'
  <2>1. InLine(callbacks, told, LastTold)
    BY DEF IInv, SignalsInLine
  <2>2. InLine(Append(callbacks, c), told, LastTold')
    BY <1>1, <2>1, AppendInLine
  <2> QED
    BY <2>2 DEF SignalsInLine
<1>3. ThreadAtCall'
  <2>1. callbacks # <<>> => Head(callbacks') = Head(callbacks) /\ callbacks' # <<>>
    BY <1>1
  <2> QED
    BY <2>1 DEF IInv, ThreadAtCall
<1>4. TopicsHaveHandlers'
  <2>1. \A i \in DOMAIN callbacks' :
           callbacks'[i] = c \/ (i \in DOMAIN callbacks /\ callbacks'[i] = callbacks[i])
    BY <1>1
  <2> QED
    BY <2>1 DEF IInv, TopicsHaveHandlers
<1> QED
  BY <1>2, <1>3, <1>4

\* The library's thread is through with the first call and tells of it.
LEMMA CallLeaves ==
  ASSUME IInv, callbacks # <<>>,
         callbacks' = Tail(callbacks),
         told' = IF Head(callbacks).name = "message" THEN told ELSE Head(callbacks).name,
         thread' = Idle,
         UNCHANGED <<sessionVars, clientVars>>
  PROVE  /\ SignalsInLine' /\ ThreadAtCall' /\ TopicsHaveHandlers'
         /\ callbacks' \in Seq(CallType)
         /\ told' = told \/ MayFollow(told, told')
<1>1. callbacks \in Seq(CallType) /\ callbacks' \in Seq(CallType)
  BY DEF IInv, TypeOK
<1>2. LastTold' = LastTold
  BY DEF LastTold, sessionVars
<1>3. IF Head(callbacks).name = "message"
      THEN InLine(Tail(callbacks), told, LastTold)
      ELSE MayFollow(told, Head(callbacks).name) /\ InLine(Tail(callbacks), Head(callbacks).name, LastTold)
  BY <1>1, TailInLine DEF IInv, SignalsInLine
<1>4. SignalsInLine' /\ (told' = told \/ MayFollow(told, told'))
  BY <1>2, <1>3 DEF SignalsInLine
<1>5. ThreadAtCall'
  BY DEF IInv, ThreadAtCall, sessionVars
<1>6. TopicsHaveHandlers'
  <2>1. \A i \in DOMAIN callbacks' : i + 1 \in DOMAIN callbacks /\ callbacks'[i] = callbacks[i + 1]
    BY <1>1
  <2> QED
    BY <2>1 DEF IInv, TopicsHaveHandlers, sessionVars, clientVars, Idle
<1> QED
  BY <1>1, <1>4, <1>5, <1>6

\* The signals told at a step may follow one another.
TellsInOrder == told' = told \/ MayFollow(told, told')

\* A topic is registered or subscribed.
LEMMA TopicKeepsIInv ==
  ASSUME IInv, NEW t \in Topics, AddTopic(t) \/ SubscribeTopic(t)
  PROVE  IInv' /\ TellsInOrder
<1>1. /\ UNCHANGED <<link, sessions, callbacks, thread, told, subSyncFailed>>
      /\ topicRegister' = handlers'
      /\ topicRegister \subseteq topicRegister'
      /\ asked' \cup subscribed' \cup toSubscribe' \subseteq topicRegister'
      /\ UNCHANGED <<subscribed, atStart>>
      /\ topicRegister' \subseteq topicRegister \cup {t}
  BY DEF IInv, TopicsHaveHandlers, AddTopic, SubscribeTopic, Ask, sessionVars
<1>2. TypeOK'
  BY <1>1 DEF IInv, TypeOK, TopicsHaveHandlers
<1>3. SignalsInLine' /\ ThreadAtCall'
  BY <1>1 DEF IInv, SignalsInLine, LastTold, ThreadAtCall
<1>4. TopicsHaveHandlers'
  BY <1>1 DEF IInv, TopicsHaveHandlers
<1> QED
  BY <1>1, <1>2, <1>3, <1>4 DEF IInv, TellsInOrder

LEMMA ConnectKeepsIInv == IInv /\ Connect => IInv' /\ TellsInOrder
<1> SUFFICES ASSUME IInv, Connect PROVE IInv' /\ TellsInOrder
  OBVIOUS
<1>1. /\ link = "new" /\ callbacks = <<>>
      /\ UNCHANGED <<sessions, asked, subscribed, atStart, clientVars, callbacks, thread, subSyncFailed>>
      /\ \/ link' = "connecting" /\ told' = told
         \/ link' = "dead" /\ told' = "failed"
  BY DEF IInv, ThreadAtCall, Connect
<1>2. told = "nothing"
  BY <1>1, EmptyInLine DEF IInv, TypeOK, SignalsInLine, LastTold, Signals, SignalOrder!Signals
<1>3. SignalsInLine'
  BY <1>1, <1>2, EmptyInLine DEF SignalsInLine, LastTold, Signals, SignalOrder!Signals
<1>4. TypeOK'
  BY <1>1 DEF IInv, TypeOK, clientVars
<1>5. ThreadAtCall' /\ TopicsHaveHandlers'
  BY <1>1 DEF IInv, ThreadAtCall, TopicsHaveHandlers, clientVars
<1> QED
  BY <1>1, <1>2, <1>3, <1>4, <1>5
     DEF IInv, TellsInOrder, MayFollow, SignalOrder!MayFollow

LEMMA DestroyKeepsIInv == IInv /\ Destroy => IInv' /\ TellsInOrder
<1> SUFFICES ASSUME IInv, Destroy PROVE IInv' /\ TellsInOrder
  OBVIOUS
<1> USE DEF Destroy
<1>1. TypeOK'
  BY DEF IInv, TypeOK, clientVars
<1>2. SignalsInLine'
  BY EmptyInLine DEF IInv, TypeOK, SignalsInLine, LastTold, Signals, SignalOrder!Signals
<1>3. ThreadAtCall' /\ TopicsHaveHandlers'
  BY DEF IInv, ThreadAtCall, TopicsHaveHandlers, clientVars, Idle
<1> QED
  BY <1>1, <1>2, <1>3 DEF IInv, TellsInOrder

\* The connection is made, fails or is lost, or a message comes.
LEMMA LibraryKeepsIInv ==
  ASSUME IInv, SessionStarts \/ ConnectFails \/ SessionEnds \/ \E t \in Topics : MessageComes(t)
  PROVE  IInv' /\ TellsInOrder
<1> USE DEF Call
<1>1. CASE SessionStarts
  <2> DEFINE c == Call("connected", {})
  <2>1. c \in CallType /\ c.name = "connected"
    BY DEF CallType
  <2>2. /\ link \in {"connecting", "waiting"} /\ link' = "up"
        /\ callbacks' = Append(callbacks, c)
        /\ sessions' = sessions + 1 /\ sessions < MaxSessions
        /\ atStart' = topicRegister /\ subSyncFailed' = {}
        /\ UNCHANGED <<asked, subscribed, clientVars, thread, told>>
    BY <1>1 DEF SessionStarts
  <2>3. c.name \in LastTold' /\ \A last \in LastTold : MayFollow(last, c.name)
    BY <2>1, <2>2 DEF LastTold, MayFollow, SignalOrder!MayFollow
  <2> HIDE DEF c
  <2>4. SignalsInLine' /\ ThreadAtCall' /\ TopicsHaveHandlers'
    BY <2>1, <2>2, <2>3, CallJoins DEF clientVars
  <2>5. TypeOK'
    BY <2>1, <2>2, MqttClientAssumption DEF IInv, TypeOK, clientVars
  <2> QED
    BY <2>2, <2>4, <2>5 DEF IInv, TellsInOrder
<1>2. CASE ConnectFails
  <2> DEFINE c == Call("failed", {})
  <2>1. c \in CallType /\ c.name = "failed"
    BY DEF CallType
  <2>2. /\ link = "connecting" /\ link' \in {"waiting", "dead"}
        /\ callbacks' = Append(callbacks, c)
        /\ UNCHANGED <<sessions, asked, subscribed, atStart, clientVars, thread, told, subSyncFailed>>
    BY <1>2 DEF ConnectFails
  <2>3. c.name \in LastTold' /\ \A last \in LastTold : MayFollow(last, c.name)
    BY <2>1, <2>2 DEF LastTold, MayFollow, SignalOrder!MayFollow
  <2> HIDE DEF c
  <2>4. SignalsInLine' /\ ThreadAtCall' /\ TopicsHaveHandlers'
    BY <2>1, <2>2, <2>3, CallJoins DEF clientVars
  <2>5. TypeOK'
    BY <2>1, <2>2 DEF IInv, TypeOK, clientVars
  <2> QED
    BY <2>2, <2>4, <2>5 DEF IInv, TellsInOrder
<1>3. CASE SessionEnds
  <2> DEFINE c == Call("lost", {})
  <2>1. c \in CallType /\ c.name = "lost"
    BY DEF CallType
  <2>2. /\ link = "up" /\ link' = "waiting"
        /\ callbacks' = Append(callbacks, c)
        /\ asked' = {} /\ subscribed' = {}
        /\ UNCHANGED <<sessions, atStart, clientVars, thread, told, subSyncFailed>>
    BY <1>3 DEF SessionEnds
  <2>3. c.name \in LastTold' /\ \A last \in LastTold : MayFollow(last, c.name)
    BY <2>1, <2>2 DEF LastTold, MayFollow, SignalOrder!MayFollow
  <2> HIDE DEF c
  <2>4. SignalsInLine' /\ ThreadAtCall' /\ TopicsHaveHandlers'
    BY <2>1, <2>2, <2>3, CallJoins DEF clientVars
  <2>5. TypeOK'
    BY <2>1, <2>2 DEF IInv, TypeOK, clientVars
  <2> QED
    BY <2>2, <2>4, <2>5 DEF IInv, TellsInOrder
<1>4. CASE \E t \in Topics : MessageComes(t)
  <2>0. PICK t \in Topics : MessageComes(t)
    BY <1>4
  <2> DEFINE c == Call("message", {t})
  <2>1. c \in CallType /\ c.name = "message" /\ c.topics = {t}
    BY DEF CallType
  <2>2. /\ link = "up" /\ t \in subscribed
        /\ callbacks' = Append(callbacks, c)
        /\ UNCHANGED <<sessionVars, clientVars, thread, told, subSyncFailed>>
    BY <2>0 DEF MessageComes
  <2>3. LastTold' = LastTold /\ c.topics \subseteq topicRegister
    BY <2>1, <2>2 DEF LastTold, sessionVars, IInv, TopicsHaveHandlers
  <2> HIDE DEF c
  <2>4. SignalsInLine' /\ ThreadAtCall' /\ TopicsHaveHandlers'
    BY <2>1, <2>2, <2>3, CallJoins DEF clientVars, sessionVars
  <2>5. TypeOK'
    BY <2>1, <2>2 DEF IInv, TypeOK, clientVars, sessionVars
  <2> QED
    BY <2>2, <2>4, <2>5 DEF IInv, TellsInOrder
<1> QED
  BY <1>1, <1>2, <1>3, <1>4

\* The library's thread goes on.
LEMMA CallbackKeepsIInv == IInv /\ Callback => IInv' /\ TellsInOrder
<1> SUFFICES ASSUME IInv, Callback PROVE IInv' /\ TellsInOrder
  OBVIOUS
<1> DEFINE SubType == [at : {"subscribing"}, todo : SUBSET Topics, failed : SUBSET Topics]
<1>1. CASE OnConnected \/ SubscribedAll \/ \E t \in Topics : SubscribeNext(t)
  <2>1. /\ UNCHANGED <<link, sessions, subscribed, atStart, clientVars, callbacks, told>>
        /\ thread' \in SubType \cup {Telling}
        /\ subSyncFailed' \subseteq Topics
        /\ asked' \cup thread'.todo \subseteq topicRegister
        /\ callbacks # <<>> /\ Head(callbacks).name = "connected"
    <3>1. CASE OnConnected
      BY <3>1 DEF OnConnected, IsNext, IInv, TypeOK, TopicsHaveHandlers, sessionVars
    <3>2. CASE SubscribedAll
      <4>1. thread \in SubType /\ thread # Idle
        BY <3>2 DEF SubscribedAll, Subscribing, IInv, TypeOK, Idle, Telling
      <4> QED
        BY <3>2, <4>1 DEF SubscribedAll, IInv, TopicsHaveHandlers, ThreadAtCall, Telling, sessionVars
    <3>3. CASE \E t \in Topics : SubscribeNext(t)
      <4>1. PICK t \in Topics : SubscribeNext(t)
        BY <3>3
      <4>2. thread \in SubType /\ thread # Idle /\ t \in thread.todo
        BY <4>1 DEF SubscribeNext, Subscribing, IInv, TypeOK, Idle, Telling
      <4>3. /\ asked' \subseteq asked \cup {t}
            /\ \/ thread' = [thread EXCEPT !.todo = @ \ {t}]
               \/ thread' = [thread EXCEPT !.todo = @ \ {t}, !.failed = @ \cup {t}]
            /\ UNCHANGED <<link, sessions, subscribed, atStart, clientVars, callbacks, told, subSyncFailed>>
        BY <4>1 DEF SubscribeNext, Ask
      <4>4. thread' \in SubType /\ thread'.todo \subseteq thread.todo
        <5>1. CASE thread' = [thread EXCEPT !.todo = @ \ {t}]
          BY <4>2, <5>1
        <5>2. CASE thread' = [thread EXCEPT !.todo = @ \ {t}, !.failed = @ \cup {t}]
          <6>1. thread.todo \ {t} \in SUBSET Topics /\ thread.failed \cup {t} \in SUBSET Topics
            BY <4>2
          <6>2. thread' = [at |-> "subscribing", todo |-> thread.todo \ {t}, failed |-> thread.failed \cup {t}]
            BY <4>2, <5>2
          <6> QED
            BY <6>1, <6>2
        <5> QED
          BY <4>3, <5>1, <5>2
      <4> QED
        BY <4>2, <4>3, <4>4 DEF IInv, TypeOK, TopicsHaveHandlers, ThreadAtCall
    <3> QED
      BY <1>1, <3>1, <3>2, <3>3
  <2>2. TypeOK'
    BY <2>1 DEF IInv, TypeOK, clientVars
  <2>3. SignalsInLine' /\ ThreadAtCall'
    BY <2>1 DEF IInv, SignalsInLine, LastTold, ThreadAtCall
  <2>4. TopicsHaveHandlers'
    BY <2>1 DEF IInv, TopicsHaveHandlers, clientVars
  <2> QED
    BY <2>1, <2>2, <2>3, <2>4 DEF IInv, TellsInOrder
<1>2. CASE TellConnected \/ ConnectionLost \/ OnFailure \/ MessageArrived
  <2>1. /\ callbacks # <<>> /\ callbacks' = Tail(callbacks)
        /\ told' = IF Head(callbacks).name = "message" THEN told ELSE Head(callbacks).name
        /\ thread' = Idle
        /\ UNCHANGED <<sessionVars, clientVars, subSyncFailed>>
    <3>1. CASE TellConnected
      BY <3>1 DEF TellConnected, Done, IInv, ThreadAtCall, Telling, Idle
    <3>2. CASE ConnectionLost \/ OnFailure \/ MessageArrived
      BY <3>2 DEF ConnectionLost, OnFailure, MessageArrived, IsNext, Done
    <3> QED
      BY <1>2, <3>1, <3>2
  <2>2. /\ SignalsInLine' /\ ThreadAtCall' /\ TopicsHaveHandlers' /\ TellsInOrder
        /\ callbacks' \in Seq(CallType)
    BY <2>1, CallLeaves DEF TellsInOrder
  <2>3. told' \in {"nothing", "connected", "lost", "failed"}
    <3>1. Head(callbacks) \in CallType
      BY <2>1 DEF IInv, TypeOK
    <3> QED
      BY <2>1, <3>1 DEF IInv, TypeOK, CallType
  <2>4. TypeOK'
    BY <2>1, <2>2, <2>3 DEF IInv, TypeOK, sessionVars, clientVars
  <2> QED
    BY <2>2, <2>4 DEF IInv
<1> QED
  BY <1>1, <1>2 DEF Callback

\* The broker answers.
LEMMA GrantKeepsIInv == IInv /\ (\E t \in Topics : Grant(t)) => IInv' /\ TellsInOrder
<1> SUFFICES ASSUME IInv, NEW t \in Topics, Grant(t) PROVE IInv' /\ TellsInOrder
  OBVIOUS
<1> USE DEF Grant
<1>1. TypeOK'
  BY DEF IInv, TypeOK, clientVars
<1>2. SignalsInLine' /\ ThreadAtCall'
  BY DEF IInv, SignalsInLine, LastTold, ThreadAtCall
<1>3. TopicsHaveHandlers'
  BY DEF IInv, TopicsHaveHandlers, clientVars
<1> QED
  BY <1>1, <1>2, <1>3 DEF IInv, TellsInOrder

LEMMA NextIInv == IInv /\ [Next]_vars => IInv' /\ TellsInOrder
<1> SUFFICES ASSUME IInv, [Next]_vars PROVE IInv' /\ TellsInOrder
  OBVIOUS
<1>1. CASE UNCHANGED vars
  BY <1>1 DEF vars, sessionVars, clientVars, IInv, TypeOK, SignalsInLine, LastTold, ThreadAtCall,
              TopicsHaveHandlers, TellsInOrder
<1>2. CASE Callback
  BY <1>2, CallbackKeepsIInv
<1>3. CASE \E t \in Topics : AddTopic(t) \/ SubscribeTopic(t)
  BY <1>3, TopicKeepsIInv
<1>4. CASE Connect \/ Destroy
  BY <1>4, ConnectKeepsIInv, DestroyKeepsIInv
<1>5. CASE SessionStarts \/ ConnectFails \/ SessionEnds \/ \E t \in Topics : MessageComes(t)
  BY <1>5, LibraryKeepsIInv
<1>6. CASE \E t \in Topics : Grant(t)
  BY <1>6, GrantKeepsIInv
<1> QED
  BY <1>1, <1>2, <1>3, <1>4, <1>5, <1>6 DEF Next

LEMMA SpecIInv == Spec => []IInv
BY InitIInv, NextIInv, PTL DEF Spec

-----------------------------------------------------------------------------
(***************************************************************************)
(* What a connection asks for.                                             *)
(***************************************************************************)

IsConnected(i) == callbacks[i].name = "connected"

\* The connected() of the connection there is came through.
Through == link = "up" /\ \A i \in DOMAIN callbacks : ~IsConnected(i)

\* It is what the library's thread runs: no other waits behind it.
Running == link = "up" /\ thread # Idle /\ \A i \in DOMAIN callbacks \ {1} : ~IsConnected(i)

AskedOrNamed == Through => atStart \subseteq asked \cup subSyncFailed

\* What connected() has still to ask for, or to name.
Asking ==
    /\ Running /\ Subscribing => atStart \subseteq asked \cup thread.todo \cup thread.failed
    /\ Running /\ ~Subscribing => atStart \subseteq asked \cup subSyncFailed

AskIInv == AskedOrNamed /\ Asking

\* The line is what it was, or a call that is not connected() joined.
LEMMA JoiningKeepsAskIInv ==
  ASSUME IInv, AskIInv, NEW c \in CallType, c.name # "connected",
         callbacks' = callbacks \/ callbacks' = Append(callbacks, c),
         link' = "up" => link = "up" /\ asked \subseteq asked',
         UNCHANGED <<thread, atStart, subSyncFailed>>
  PROVE  AskIInv'
<1>1. /\ DOMAIN callbacks \subseteq DOMAIN callbacks'
      /\ \A i \in DOMAIN callbacks : callbacks'[i] = callbacks[i]
  BY DEF IInv, TypeOK
<1>2. (Through' => Through) /\ (Running' => Running)
  BY <1>1 DEF Through, Running, IsConnected
<1> QED
  BY <1>2 DEF AskIInv, AskedOrNamed, Asking, Subscribing, Through, Running

\* A call leaves the line; if it is connected(), it has told its failures.
LEMMA LeavingKeepsAskIInv ==
  ASSUME IInv, AskIInv, callbacks # <<>>, callbacks' = Tail(callbacks),
         Head(callbacks).name = "connected" => thread = Telling,
         thread' = Idle,
         UNCHANGED <<sessionVars, subSyncFailed>>
  PROVE  AskIInv'
<1>1. ~Running'
  BY DEF Running
<1>2. SUFFICES ASSUME Through'
               PROVE  atStart \subseteq asked \cup subSyncFailed
  BY <1>1 DEF AskIInv, AskedOrNamed, Asking, sessionVars
<1>3. \A i \in DOMAIN callbacks \ {1} : i - 1 \in DOMAIN callbacks' /\ callbacks'[i - 1] = callbacks[i]
  BY DEF IInv, TypeOK
<1>4. link = "up" /\ \A i \in DOMAIN callbacks \ {1} : ~IsConnected(i)
  BY <1>2, <1>3 DEF Through, IsConnected, sessionVars
<1>5. CASE Head(callbacks).name = "connected"
  <2>1. Running /\ ~Subscribing
    BY <1>4, <1>5 DEF Running, Subscribing, Telling, Idle
  <2> QED
    BY <2>1 DEF AskIInv, Asking
<1>6. CASE Head(callbacks).name # "connected"
  <2>1. callbacks[1].name # "connected"
    BY <1>6 DEF IInv, TypeOK
  <2> QED
    BY <1>4, <2>1 DEF Through, IsConnected, AskIInv, AskedOrNamed
<1> QED
  BY <1>5, <1>6

LEMMA CallbackKeepsAskIInv == IInv /\ AskIInv /\ Callback => AskIInv'
<1> SUFFICES ASSUME IInv, AskIInv, Callback PROVE AskIInv'
  OBVIOUS
<1>1. CASE OnConnected
  <2>1. ~Through' /\ Subscribing' /\ thread'.todo = topicRegister /\ atStart' = atStart
    <3>1. callbacks' = callbacks /\ 1 \in DOMAIN callbacks /\ callbacks[1].name = "connected"
      BY <1>1 DEF OnConnected, IsNext, IInv, TypeOK
    <3> QED
      BY <1>1, <3>1 DEF OnConnected, Subscribing, Through, IsConnected, sessionVars
  <2> QED
    BY <2>1 DEF AskIInv, AskedOrNamed, Asking, IInv, TopicsHaveHandlers
<1>2. CASE (\E t \in Topics : SubscribeNext(t)) \/ SubscribedAll
  <2>1. Subscribing /\ thread # Idle /\ UNCHANGED <<link, callbacks, atStart>>
    <3>1. Subscribing /\ UNCHANGED <<link, callbacks, atStart>>
      BY <1>2 DEF SubscribeNext, SubscribedAll, sessionVars
    <3>2. thread # Idle
      BY <3>1 DEF Subscribing, Idle
    <3> QED
      BY <3>1, <3>2
  <2>2. ~Through /\ ~Through'
    <3>1. 1 \in DOMAIN callbacks /\ callbacks[1].name = "connected"
      BY <2>1 DEF IInv, TypeOK, ThreadAtCall
    <3> QED
      BY <2>1, <3>1 DEF Through, IsConnected
  <2>3. Running' => Running
    BY <2>1 DEF Running, IsConnected
  <2>4. CASE SubscribedAll
    BY <2>1, <2>2, <2>3, <2>4
       DEF SubscribedAll, AskIInv, AskedOrNamed, Asking, Subscribing, Telling, sessionVars
  <2>5. CASE \E t \in Topics : SubscribeNext(t)
    <3>1. PICK t \in Topics : SubscribeNext(t)
      BY <2>5
    <3>2. thread \in [at : {"subscribing"}, todo : SUBSET Topics, failed : SUBSET Topics]
      BY <2>1 DEF IInv, TypeOK, Subscribing, Idle, Telling
    <3>3. /\ Subscribing' /\ asked \subseteq asked'
          /\ thread.todo \cup thread.failed \cup asked \subseteq thread'.todo \cup thread'.failed \cup asked'
      <4>1. CASE Ask(t) /\ thread' = [thread EXCEPT !.todo = @ \ {t}]
        BY <3>2, <4>1 DEF Subscribing, Ask
      <4>2. CASE UNCHANGED asked /\ thread' = [thread EXCEPT !.todo = @ \ {t}, !.failed = @ \cup {t}]
        BY <3>2, <4>2 DEF Subscribing
      <4> QED
        BY <3>1, <4>1, <4>2 DEF SubscribeNext
    <3> QED
      BY <2>1, <2>2, <2>3, <3>3 DEF AskIInv, AskedOrNamed, Asking
  <2> QED
    BY <1>2, <2>4, <2>5
<1>3. CASE TellConnected \/ ConnectionLost \/ OnFailure \/ MessageArrived
  <2>1. /\ callbacks # <<>> /\ callbacks' = Tail(callbacks) /\ thread' = Idle
        /\ Head(callbacks).name = "connected" => thread = Telling
        /\ UNCHANGED <<sessionVars, subSyncFailed>>
    BY <1>3 DEF TellConnected, ConnectionLost, OnFailure, MessageArrived, IsNext, Done, IInv,
                ThreadAtCall, Telling, Idle
  <2> QED
    BY <2>1, LeavingKeepsAskIInv
<1> QED
  BY <1>1, <1>2, <1>3 DEF Callback

LEMMA NextAskIInv == IInv /\ AskIInv /\ [Next]_vars => AskIInv'
<1> SUFFICES ASSUME IInv, AskIInv, [Next]_vars PROVE AskIInv'
  OBVIOUS
<1>1. CASE Callback
  BY <1>1, CallbackKeepsAskIInv
<1>2. CASE SessionStarts
  <2>1. callbacks' # <<>> /\ Len(callbacks') = Len(callbacks) + 1 /\ callbacks'[Len(callbacks')].name = "connected"
    BY <1>2 DEF SessionStarts, Call, IInv, TypeOK
  <2>2. Len(callbacks') \in DOMAIN callbacks' /\ (callbacks # <<>> => Len(callbacks') # 1)
    BY <1>2, <2>1 DEF SessionStarts, IInv, TypeOK
  <2>3. ~Through' /\ ~Running'
    BY <1>2, <2>1, <2>2 DEF SessionStarts, Through, Running, IsConnected, IInv, ThreadAtCall
  <2> QED
    BY <2>3 DEF AskIInv, AskedOrNamed, Asking
<1>3. CASE SessionEnds \/ ConnectFails \/ Destroy \/ Connect
  <2>1. link' # "up"
    BY <1>3 DEF SessionEnds, ConnectFails, Destroy, Connect
  <2> QED
    BY <2>1 DEF AskIInv, AskedOrNamed, Asking, Through, Running
<1>4. CASE \E t \in Topics : AddTopic(t) \/ SubscribeTopic(t) \/ MessageComes(t) \/ Grant(t)
  <2>1. PICK t \in Topics : AddTopic(t) \/ SubscribeTopic(t) \/ MessageComes(t) \/ Grant(t)
    BY <1>4
  <2> DEFINE c == Call("message", {t})
  <2>2. c \in CallType /\ c.name # "connected"
    BY DEF Call, CallType
  <2>3. /\ callbacks' = callbacks \/ callbacks' = Append(callbacks, c)
        /\ link' = link /\ asked \subseteq asked'
        /\ UNCHANGED <<thread, atStart, subSyncFailed>>
    BY <2>1 DEF AddTopic, SubscribeTopic, Ask, MessageComes, Grant, sessionVars
  <2> QED
    BY <2>2, <2>3, JoiningKeepsAskIInv
<1>5. CASE UNCHANGED vars
  BY <1>5 DEF vars, sessionVars, AskIInv, AskedOrNamed, Asking, Through, Running, IsConnected, Subscribing
<1> QED
  BY <1>1, <1>2, <1>3, <1>4, <1>5 DEF Next

-----------------------------------------------------------------------------
(***************************************************************************)
(* The theorems.                                                           *)
(***************************************************************************)

\* Every message finds its topic and a handler, whenever the topic was
\* registered and however often the connection was lost in between.
THEOREM HandlersAreFound == Spec => []MessagesFindHandlers
<1>1. IInv => MessagesFindHandlers
  BY DEF IInv, TopicsHaveHandlers, MessagesFindHandlers
<1> QED
  BY <1>1, SpecIInv, PTL

\* When the connected() of the connection there is came through, every topic
\* that was in the map when the connection was made has been asked for or named
\* by onSubSyncFailed, however often connections were lost, and whatever
\* registerTopic did meanwhile.
THEOREM TopicsAreAskedFor == Spec => []AskedOrNamed
<1>1. Init => AskIInv
  BY DEF Init, AskIInv, AskedOrNamed, Asking, Through, Running
<1> QED
  BY <1>1, NextAskIInv, SpecIInv, PTL DEF Spec, AskIInv

\* When nothing is under way, the last signal says how the link is.
THEOREM LastSignalIsTrue == Spec => []ToldIsCurrent
<1>1. IInv => ToldIsCurrent
  <2> SUFFICES ASSUME IInv, callbacks = <<>>, link # "gone"
               PROVE  told = "connected" <=> link = "up"
    BY DEF ToldIsCurrent, Quiet
  <2>1. told \in Signals /\ InLine(<<>>, told, LastTold)
    BY DEF IInv, TypeOK, SignalsInLine, Signals, SignalOrder!Signals
  <2>2. told \in LastTold
    BY <2>1, EmptyInLine
  <2> QED
    BY <2>2 DEF LastTold, IInv, TypeOK
<1> QED
  BY <1>1, SpecIInv, PTL

\* The signals come in the order ClientSignals promises the adapter.
THEOREM ImplementsSignals == Spec => SignalsInOrder
<1>1. Init => SignalOrder!Init
  BY DEF Init, SignalOrder!Init
<1>2. IInv /\ IInv' /\ [Next]_vars => [SignalOrder!Next]_told
  <2> SUFFICES ASSUME IInv', TellsInOrder PROVE [SignalOrder!Next]_told
    BY NextIInv
  <2>1. told' \in SignalOrder!Signals
    BY DEF IInv, TypeOK, SignalOrder!Signals
  <2> QED
    BY <2>1 DEF TellsInOrder, MayFollow, SignalOrder!Next, SignalOrder!Tell
<1> QED
  BY <1>1, <1>2, SpecIInv, PTL DEF Spec, SignalsInOrder, SignalOrder!Spec

\* What the link, the map of topics, the callbacks that wait and the connected
\* handler hold is of its type, whoever registers topics meanwhile.
THEOREM TypeCorrect == Spec => []TypeOK
<1>1. IInv => TypeOK
  BY DEF IInv
<1> QED
  BY <1>1, SpecIInv, PTL
=============================================================================
