------------------------ MODULE BytesVidRenderProofs ------------------------
(***************************************************************************)
(* Proofs about the two renderers: the bus thread against destruction, and *)
(* the bytes that wait in the appsrc, for all decoders, sizes and bounds.  *)
(***************************************************************************)
EXTENDS BytesVidRender, TLAPS

\* Before the renderer is alive there is no thread, and a message is in hand
\* while it is handled.
ThreadKnown ==
    /\ life \in {"creating", "linking", "starting", "failed"} => busThread = "none"
    /\ busThread = "handling" <=> inHand # "none"

\* An error that waits or is handled was counted.
ErrorsCounted ==
    posted > 0 \/ (inHand # "ERROR" /\ \A i \in DOMAIN bus : bus[i] # "ERROR")

IInv == PipelineTypeOK /\ ThreadKnown /\ ErrorsCounted /\ ThreadEndsBeforeSignals

\* What the feed's bound needs.
LevelInv == level \in Nat /\ maxBufferBytes \in Limits /\ pushLimit \in Limits /\ FeedIsBounded

-----------------------------------------------------------------------------
LEMMA EmptyBus ==
    ASSUME NEW b, b = <<>>
    PROVE  b \in Seq(Messages) /\ Len(b) = 0 /\ DOMAIN b = {}
OBVIOUS

LEMMA InitIInv == Init => IInv
<1> SUFFICES ASSUME Init PROVE IInv
  OBVIOUS
<1>1. bus \in Seq(Messages) /\ Len(bus) = 0 /\ DOMAIN bus = {}
  BY EmptyBus DEF Init, PipelineInit
<1>2. /\ life = "creating" /\ padAdded = FALSE /\ linked = FALSE /\ gst = "NULL"
      /\ posted = 0 /\ errors = 0 /\ busThread = "none" /\ inHand = "none"
      /\ stopRequested = FALSE /\ told = "none"
  BY DEF Init, PipelineInit
<1>3. Len(bus) <= MaxMessages /\ 0 \in 0..MaxErrors /\ 0 \in 0..0
  BY <1>1, VidPipelineAssumption
<1>4. PipelineTypeOK
  BY <1>1, <1>2, <1>3 DEF PipelineTypeOK
<1>5. ErrorsCounted
  BY <1>1, <1>2 DEF ErrorsCounted
<1> QED
  BY <1>2, <1>4, <1>5 DEF IInv, ThreadKnown, ThreadEndsBeforeSignals

\* A message at the end of the bus.
LEMMA Posting ==
    ASSUME bus \in Seq(Messages), Len(bus) < MaxMessages, NEW m \in Messages
    PROVE  /\ Append(bus, m) \in Seq(Messages)
           /\ Len(Append(bus, m)) <= MaxMessages
           /\ \A i \in DOMAIN Append(bus, m) :
                Append(bus, m)[i] = m \/ \E j \in DOMAIN bus : Append(bus, m)[i] = bus[j]
<1>1. Len(Append(bus, m)) = Len(bus) + 1 /\ Len(bus) \in Nat
  OBVIOUS
<1>2. ASSUME NEW i \in DOMAIN Append(bus, m)
      PROVE  Append(bus, m)[i] = m \/ \E j \in DOMAIN bus : Append(bus, m)[i] = bus[j]
  OBVIOUS
<1> QED
  BY <1>1, <1>2, VidPipelineAssumption

LEMMA Taking ==
    ASSUME bus \in Seq(Messages), bus # <<>>, Len(bus) <= MaxMessages
    PROVE  /\ Head(bus) \in Messages /\ Head(bus) = bus[1] /\ 1 \in DOMAIN bus
           /\ Tail(bus) \in Seq(Messages) /\ Len(Tail(bus)) <= MaxMessages
           /\ \A i \in DOMAIN Tail(bus) : \E j \in DOMAIN bus : Tail(bus)[i] = bus[j]
<1>1. Len(bus) \in Nat /\ Len(bus) > 0 /\ DOMAIN bus = 1..Len(bus)
  OBVIOUS
<1>2. Len(Tail(bus)) = Len(bus) - 1
  OBVIOUS
<1>3. ASSUME NEW i \in DOMAIN Tail(bus) PROVE \E j \in DOMAIN bus : Tail(bus)[i] = bus[j]
  <2>1. i \in 1..(Len(bus) - 1) /\ i + 1 \in DOMAIN bus
    BY <1>1, <1>2
  <2> QED
    BY <2>1
<1> QED
  BY <1>1, <1>2, <1>3, VidPipelineAssumption

-----------------------------------------------------------------------------
\* The owner's steps.

LEMMA ConstructionKeepsIInv ==
    ASSUME IInv,
           (\E decoders : CreateElements(decoders)) \/ LinkElements \/ InitBusThread
    PROVE  IInv'
<1>1. /\ bus' = bus /\ gst' = gst /\ padAdded' = padAdded /\ stopRequested' = stopRequested
      /\ told' = told /\ posted' = posted /\ errors' = errors /\ inHand' = inHand
  BY DEF CreateElements, LinkElements, InitBusThread, padVars, busVars, threadVars, buildVars
<1>2. linked' \in BOOLEAN
  BY DEF CreateElements, LinkElements, InitBusThread, padVars, IInv, PipelineTypeOK
<1>3. \/ life \in {"creating", "linking"} /\ life' \in {"linking", "starting", "failed"}
           /\ busThread' = busThread
      \/ life = "starting" /\ life' = "alive" /\ busThread' = "polling"
  BY DEF CreateElements, LinkElements, InitBusThread, threadVars
<1> QED
  BY <1>1, <1>2, <1>3
     DEF IInv, PipelineTypeOK, ThreadKnown, ErrorsCounted, ThreadEndsBeforeSignals

LEMMA PlayOrPauseKeepsIInv ==
    ASSUME IInv, NEW state \in {"PAUSED", "PLAYING"}, PlayOrPause(state)
    PROVE  IInv'
<1>1. "STATE_CHANGED" \in Messages
  BY DEF Messages
<1>2. bus \in Seq(Messages) /\ Len(bus) <= MaxMessages
  BY DEF IInv, PipelineTypeOK
<1>3. /\ bus' \in Seq(Messages) /\ Len(bus') <= MaxMessages
      /\ \A i \in DOMAIN bus' : bus'[i] = "STATE_CHANGED" \/ \E j \in DOMAIN bus : bus'[i] = bus[j]
  <2>1. CASE state # gst /\ Len(bus) < MaxMessages
    <3>1. bus' = Append(bus, "STATE_CHANGED")
      BY <2>1 DEF PlayOrPause, Posted
    <3> QED
      BY <1>1, <1>2, <2>1, <3>1, Posting
  <2>2. CASE ~(state # gst /\ Len(bus) < MaxMessages)
    <3>1. bus' = bus
      BY <2>2 DEF PlayOrPause, Posted
    <3> QED
      BY <1>2, <3>1
  <2> QED
    BY <2>1, <2>2
<1>4. ErrorsCounted'
  BY <1>3, <1>1 DEF IInv, ErrorsCounted, PlayOrPause, threadVars, Messages
<1> QED
  BY <1>3, <1>4
     DEF IInv, PipelineTypeOK, ThreadKnown, ThreadEndsBeforeSignals, PlayOrPause, buildVars, padVars,
         threadVars

LEMMA ToNullKeepsIInv ==
    ASSUME IInv, NEW then \in {"NULL", "PLAYING"}, ToNull(then)
    PROVE  IInv'
<1>1. bus' \in Seq(Messages) /\ Len(bus') = 0 /\ DOMAIN bus' = {}
  BY EmptyBus DEF ToNull
<1>2. /\ gst' = then /\ padAdded' = FALSE /\ linked' \in BOOLEAN
      /\ life' = life /\ posted' = posted /\ busThread' = busThread /\ inHand' = inHand
      /\ told' = told /\ stopRequested' = stopRequested
      /\ errors' = IF inHand = "ERROR" THEN 1 ELSE 0
  BY DEF ToNull, buildVars, threadVars, IInv, PipelineTypeOK
<1>3. inHand = "ERROR" => posted > 0
  BY DEF IInv, ErrorsCounted
<1>4. Len(bus') <= MaxMessages /\ posted \in 0..MaxErrors
  BY <1>1, VidPipelineAssumption DEF IInv, PipelineTypeOK
<1>5. errors' \in 0..posted
  BY <1>2, <1>3, <1>4, VidPipelineAssumption
<1>6. PipelineTypeOK'
  BY <1>1, <1>2, <1>4, <1>5 DEF IInv, PipelineTypeOK
<1>7. ErrorsCounted'
  BY <1>1, <1>2, <1>3 DEF ErrorsCounted
<1> QED
  BY <1>2, <1>6, <1>7 DEF IInv, ThreadKnown, ThreadEndsBeforeSignals

LEMMA DestructionKeepsIInv ==
    ASSUME IInv, DestructorBody \/ DestroyMembers
    PROVE  IInv'
<1>1. CASE DestructorBody
  <2>1. bus' \in Seq(Messages) /\ Len(bus') = 0 /\ DOMAIN bus' = {}
    BY <1>1, EmptyBus DEF DestructorBody
  <2>2. /\ gst' = "NULL" /\ padAdded' = FALSE /\ linked' = FALSE
        /\ life = "alive" /\ life' = "destroying" /\ posted' = posted /\ errors' = 0
        /\ busThread' = busThread /\ inHand' = inHand /\ told' = told
        /\ stopRequested' = stopRequested
    BY <1>1 DEF DestructorBody, buildVars, threadVars
  <2>3. Len(bus') <= MaxMessages /\ posted \in 0..MaxErrors /\ 0 \in 0..posted
    BY <2>1, VidPipelineAssumption DEF IInv, PipelineTypeOK
  <2>4. PipelineTypeOK'
    BY <2>1, <2>2, <2>3 DEF IInv, PipelineTypeOK
  <2>5. ErrorsCounted'
    BY <2>1, <2>2 DEF IInv, ErrorsCounted
  <2> QED
    BY <2>2, <2>4, <2>5 DEF IInv, ThreadKnown, ThreadEndsBeforeSignals
<1>2. CASE DestroyMembers
  BY <1>2
     DEF IInv, PipelineTypeOK, ThreadKnown, ErrorsCounted, ThreadEndsBeforeSignals, DestroyMembers,
         buildVars, padVars, busVars, threadVars
<1> QED
  BY <1>1, <1>2

-----------------------------------------------------------------------------
\* The pipeline's steps and the bus thread's.

LEMMA PostKeepsIInv ==
    ASSUME IInv, NEW m \in {"EOS", "ERROR", "WARNING"}, Post(m)
    PROVE  IInv'
<1>1. m \in Messages
  BY DEF Messages
<1>2. bus \in Seq(Messages) /\ Len(bus) < MaxMessages /\ bus' = Append(bus, m)
  BY DEF Post, IInv, PipelineTypeOK
<1>3. /\ bus' \in Seq(Messages) /\ Len(bus') <= MaxMessages
      /\ \A i \in DOMAIN bus' : bus'[i] = m \/ \E j \in DOMAIN bus : bus'[i] = bus[j]
  BY <1>1, <1>2, Posting
<1>4. posted' \in 0..MaxErrors /\ errors' \in 0..posted'
  BY VidPipelineAssumption DEF Post, IInv, PipelineTypeOK
<1>5. ErrorsCounted'
  BY <1>3, VidPipelineAssumption DEF IInv, PipelineTypeOK, ErrorsCounted, Post, threadVars
<1> QED
  BY <1>3, <1>4, <1>5
     DEF IInv, PipelineTypeOK, ThreadKnown, ThreadEndsBeforeSignals, Post, buildVars, padVars,
         threadVars

LEMMA PadKeepsIInv ==
    ASSUME IInv, NEW asked, NEW isVideo \in BOOLEAN, OnDecoderPadAdded(asked, isVideo)
    PROVE  IInv'
<1>1. padAdded' \in BOOLEAN /\ linked' \in BOOLEAN
  BY DEF OnDecoderPadAdded, IInv, PipelineTypeOK
<1> QED
  BY <1>1
     DEF IInv, PipelineTypeOK, ThreadKnown, ErrorsCounted, ThreadEndsBeforeSignals,
         OnDecoderPadAdded, buildVars, busVars, threadVars

LEMMA EmittedIsSignal ==
    ASSUME NEW m \in Messages
    PROVE  Emitted(m) \subseteq Messages \cup {"none"}
BY DEF Emitted, IssueParser, Messages

LEMMA BusThreadKeepsIInv ==
    ASSUME IInv, BusThread
    PROVE  IInv'
<1>1. CASE TakeMessage
  <2>1. bus \in Seq(Messages) /\ bus # <<>> /\ Len(bus) <= MaxMessages
    BY <1>1 DEF TakeMessage, IInv, PipelineTypeOK
  <2>2. /\ inHand' \in Messages /\ inHand' = bus[1] /\ 1 \in DOMAIN bus
        /\ bus' \in Seq(Messages) /\ Len(bus') <= MaxMessages
        /\ \A i \in DOMAIN bus' : \E j \in DOMAIN bus : bus'[i] = bus[j]
    BY <1>1, <2>1, Taking DEF TakeMessage
  <2>3. ErrorsCounted'
    BY <1>1, <2>2 DEF IInv, ErrorsCounted, TakeMessage
  <2>4. inHand' # "none"
    BY <2>2 DEF Messages
  <2> QED
    BY <1>1, <2>2, <2>3, <2>4
       DEF IInv, PipelineTypeOK, ThreadKnown, ThreadEndsBeforeSignals, TakeMessage, buildVars, padVars
<1>2. CASE HandleMessage
  <2>1. PICK signal \in Emitted(inHand) : told' = IF signal = "none" THEN told ELSE signal
    BY <1>2 DEF HandleMessage
  <2>2. inHand \in Messages
    BY <1>2 DEF HandleMessage, IInv, PipelineTypeOK, ThreadKnown
  <2>3. told' \in Messages \cup {"none"}
    BY <2>1, <2>2, EmittedIsSignal DEF IInv, PipelineTypeOK
  <2>4. posted' = posted /\ errors' \in 0..posted'
    BY <1>2, VidPipelineAssumption DEF HandleMessage, IInv, PipelineTypeOK
  <2> QED
    BY <1>2, <2>2, <2>3, <2>4
       DEF IInv, PipelineTypeOK, ThreadKnown, ErrorsCounted, ThreadEndsBeforeSignals, HandleMessage,
           buildVars, padVars
<1>3. CASE BusThreadEnds
  BY <1>3
     DEF IInv, PipelineTypeOK, ThreadKnown, ErrorsCounted, ThreadEndsBeforeSignals, BusThreadEnds,
         buildVars, padVars, busVars
<1> QED
  BY <1>1, <1>2, <1>3 DEF BusThread

-----------------------------------------------------------------------------
\* Both renderers take these steps and no other.

LEMMA NextKeepsIInv == IInv /\ [Next]_vars => IInv'
<1> SUFFICES ASSUME IInv, [Next]_vars PROVE IInv'
  OBVIOUS
<1>1. CASE UNCHANGED pipelineVars
  BY <1>1
     DEF IInv, PipelineTypeOK, ThreadKnown, ErrorsCounted, ThreadEndsBeforeSignals, pipelineVars,
         buildVars, padVars, busVars, threadVars
<1>2. CASE MainNext
  <2>1. CASE CreateElements(MainDecoders) \/ LinkElements \/ InitBusThread
    BY <2>1, ConstructionKeepsIInv
  <2>2. CASE \E state \in {"PAUSED", "PLAYING"} : PlayOrPause(state)
    BY <2>2, PlayOrPauseKeepsIInv
  <2>3. CASE \E then \in {"NULL", "PLAYING"} : ToNull(then)
    BY <2>3, ToNullKeepsIInv
  <2>4. CASE DestructorBody \/ DestroyMembers
    BY <2>4, DestructionKeepsIInv
  <2>5. CASE \E message \in {"EOS", "ERROR", "WARNING"} : Post(message)
    BY <2>5, PostKeepsIInv
  <2>6. CASE \E isVideo \in BOOLEAN : OnDecoderPadAdded("sink", isVideo)
    BY <2>6, PadKeepsIInv
  <2>7. CASE BusThread
    BY <2>7, BusThreadKeepsIInv
  <2> QED
    BY <1>2, <2>1, <2>2, <2>3, <2>4, <2>5, <2>6, <2>7 DEF MainNext
<1>3. CASE BytesNext /\ ~UNCHANGED pipelineVars
  <2>1. CASE BytesChoosePrefDecoder \/ BytesInitPipeElements \/ BytesInitBusThread
    BY <2>1, ConstructionKeepsIInv
       DEF BytesChoosePrefDecoder, BytesInitPipeElements, BytesInitBusThread
  <2>2. CASE BytesPlay \/ BytesPause
    BY <2>2, PlayOrPauseKeepsIInv DEF BytesPlay, BytesPause
  <2>3. CASE BytesRestart \/ BytesStop
    BY <2>3, ToNullKeepsIInv DEF BytesRestart, BytesStop
  <2>4. CASE BytesDestroy
    BY <2>4, DestructionKeepsIInv DEF BytesDestroy
  <2>5. CASE \E message \in {"ERROR", "WARNING"} : Post(message) /\ FeedUnchanged
    BY <2>5, PostKeepsIInv
  <2>6. CASE \E isVideo \in BOOLEAN : BytesOnDecoderPadAdded(isVideo)
    BY <2>6, PadKeepsIInv DEF BytesOnDecoderPadAdded
  <2>7. CASE BytesBusThread
    BY <2>7, BusThreadKeepsIInv DEF BytesBusThread
  <2>8. CASE \/ \E size \in FrameSizes : TryPushFrame(size)
             \/ \E limit \in Limits : SetMaxBufferBytes(limit)
             \/ BytesFlush \/ Consume
    BY <1>3, <2>8 DEF TryPushFrame, SetMaxBufferBytes, BytesFlush, Consume
  <2> QED
    BY <1>3, <2>1, <2>2, <2>3, <2>4, <2>5, <2>6, <2>7, <2>8 DEF BytesNext
<1> QED
  BY <1>1, <1>2, <1>3 DEF Next, vars

-----------------------------------------------------------------------------
\* The feed.

\* Whatever the pipeline does, the level stays, falls or is cleared; only a push
\* raises it, and only from below the limit in force.
LEMMA NextKeepsLevel == LevelInv /\ [Next]_vars => LevelInv'
<1> SUFFICES ASSUME LevelInv, [Next]_vars PROVE LevelInv'
  OBVIOUS
<1>1. /\ maxBufferBytes' \in Limits
      /\ \/ /\ pushLimit' = pushLimit
            /\ \/ level' = level \/ level' = 0
               \/ \E size \in FrameSizes : 0 < size /\ size <= level /\ level' = level - size
         \/ /\ pushLimit' = maxBufferBytes
            /\ \E size \in FrameSizes : level <= maxBufferBytes /\ level' = level + size
  <2>1. CASE UNCHANGED vars \/ (MainNext /\ FeedUnchanged)
    BY <2>1 DEF vars, limitVars, FeedUnchanged, LevelInv
  <2>2. CASE BytesNext
    BY <2>2
       DEF BytesNext, BytesChoosePrefDecoder, BytesInitPipeElements, BytesInitBusThread,
           BytesBusThread, BytesDestroy, BytesOnDecoderPadAdded, TryPushFrame, BytesPlay, BytesPause,
           BytesRestart, BytesStop, BytesFlush, SetMaxBufferBytes, Consume, FeedUnchanged, limitVars,
           LevelInv
  <2> QED
    BY <2>1, <2>2 DEF Next
<1>2. level' \in Nat /\ pushLimit' \in Limits
  BY <1>1, BytesVidRenderAssumption DEF LevelInv
<1>3. ASSUME NEW size \in FrameSizes, \A n \in FrameSizes : n <= size
      PROVE  level' <= pushLimit' + size
  <2>1. /\ level <= pushLimit + size /\ level \in Nat /\ size \in Nat
        /\ pushLimit \in Nat /\ maxBufferBytes \in Nat
    BY <1>3, BytesVidRenderAssumption DEF LevelInv, FeedIsBounded
  <2> QED
    BY <1>1, <1>3, <2>1, BytesVidRenderAssumption
<1> QED
  BY <1>1, <1>2, <1>3 DEF LevelInv, FeedIsBounded

\* Whatever the bus thread has in hand when its renderer is destroyed, it has
\* ended before the signals go: for all decoders and all bounds.
THEOREM ThreadGoesFirst == Spec => []ThreadEndsBeforeSignals
<1>1. IInv => ThreadEndsBeforeSignals
  BY DEF IInv
<1> QED
  BY <1>1, InitIInv, NextKeepsIInv, PTL DEF Spec

\* What waits to be decoded is at most the largest frame above the limit in force at
\* the last push, for all limits and whenever they are set.
THEOREM FeedStaysBounded == Spec => []FeedIsBounded
<1>1. Init => LevelInv
  BY BytesVidRenderAssumption DEF Init, LevelInv, FeedIsBounded
<1>2. LevelInv => FeedIsBounded
  BY DEF LevelInv
<1> QED
  BY <1>1, <1>2, NextKeepsLevel, PTL DEF Spec

\* Every reachable state of either renderer is well typed: messages on the bus and
\* in hand, errors not yet told, and what waits in the appsrc.
THEOREM TypeCorrect == Spec => []TypeOK
<1> DEFINE Kind == renderer \in {"main", "bytes"} /\ lastPushSuccess \in BOOLEAN
<1>1. Init => LevelInv
  BY BytesVidRenderAssumption DEF Init, LevelInv, FeedIsBounded
<1>2. Kind /\ [Next]_vars => Kind'
  BY DEF Next, vars, MainNext, FeedUnchanged, BytesNext, BytesChoosePrefDecoder, BytesInitPipeElements,
         BytesInitBusThread, BytesBusThread, BytesDestroy, BytesOnDecoderPadAdded, TryPushFrame,
         BytesPlay, BytesPause, BytesRestart, BytesStop, BytesFlush, SetMaxBufferBytes, Consume
<1>3. IInv /\ LevelInv /\ Kind => TypeOK
  BY DEF IInv, LevelInv, TypeOK
<1>4. Init => Kind
  BY DEF Init
<1> QED
  BY <1>1, <1>2, <1>3, <1>4, InitIInv, NextKeepsIInv, NextKeepsLevel, PTL DEF Spec
=============================================================================
