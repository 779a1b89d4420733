----------------------------- MODULE VidPipeline -----------------------------
(***************************************************************************)
(* A renderer's GStreamer pipeline from its construction to its            *)
(* destruction: the elements and how the decoder is linked, the bus thread *)
(* that turns messages into signals, and the owner who plays, stops and    *)
(* destroys it meanwhile.  TVidRender and TBytesVidRender share this       *)
(* control; what differs is a parameter.  Frames are in other modules.     *)
(*                                                                         *)
(* External: the pipeline posts messages to its bus from its own threads,  *)
(* and drops what is on the bus when it goes to NULL; a decodebin adds a   *)
(* pad when it has seen the stream and takes it away when it goes to NULL. *)
(***************************************************************************)
EXTENDS Naturals, Sequences

CONSTANTS
    MainDecoders,       \* preferred decoders, best first
    UploaderPads,       \* the static pads a glupload has
    MaxMessages,        \* bound: messages on the bus
    MaxErrors           \* bound: errors posted in all

ASSUME VidPipelineAssumption == MaxMessages \in Nat /\ MaxErrors \in Nat

VARIABLES
    available,          \* the decoders that can be made
    life,               \* of the renderer: constructor, calls, destructor, members
    decoder,            \* the one chosen
    padAdded,           \* a decodebin has its video pad
    linked,             \* decoder and uploader
    gst,                \* state of the pipeline
    bus,                \* messages that wait
    busThread, inHand,  \* the thread, and the message it handles
    stopRequested,
    told,               \* the last signal emitted
    posted,             \* errors, ever
    errors              \* of them, neither told nor dropped

buildVars == <<available, decoder>>
padVars == <<padAdded, linked>>
busVars == <<bus, posted, errors>>
threadVars == <<busThread, inHand, told>>
pipelineVars == <<buildVars, life, padVars, gst, busVars, threadVars, stopRequested>>

Messages == {"EOS", "ERROR", "WARNING", "STATE_CHANGED"}

PipelineTypeOK ==
    /\ life \in {"creating", "linking", "starting", "alive", "failed", "destroying", "joining", "gone"}
    /\ padAdded \in BOOLEAN /\ linked \in BOOLEAN
    /\ gst \in {"NULL", "PAUSED", "PLAYING"}
    /\ bus \in Seq(Messages) /\ Len(bus) <= MaxMessages
    /\ busThread \in {"none", "polling", "handling", "ended"}
    /\ inHand \in Messages \cup {"none"}
    /\ stopRequested \in BOOLEAN
    /\ told \in Messages \cup {"none"}
    /\ posted \in 0..MaxErrors
    /\ errors \in 0..posted

PipelineInit(decoders) ==
    /\ available \in SUBSET {decoders[i] : i \in DOMAIN decoders}
    /\ life = "creating" /\ decoder = "none"
    /\ padAdded = FALSE /\ linked = FALSE
    /\ gst = "NULL" /\ bus = <<>> /\ posted = 0 /\ errors = 0
    /\ busThread = "none" /\ inHand = "none" /\ stopRequested = FALSE /\ told = "none"

-----------------------------------------------------------------------------
\* The constructor: initPipeElements() and initBusThread().

\* The first that can be made, and a decodebin if none can.
ChoosePrefDecoder(decoders) ==
    LET can == {i \in DOMAIN decoders : decoders[i] \in available} IN
    IF can = {} THEN "decodebin"
    ELSE decoders[CHOOSE i \in can : \A j \in can : i <= j]

\* Unless an element cannot be made: what was made is released.
CreateElements(decoders) ==
    /\ life = "creating"
    /\ \/ life' = "linking" /\ decoder' = ChoosePrefDecoder(decoders)
       \/ life' = "failed" /\ UNCHANGED decoder
    /\ UNCHANGED <<available, padVars, gst, busVars, threadVars, stopRequested>>

\* A decodebin is linked to what is before it only; a failure releases the pipeline.
LinkElements ==
    /\ life = "linking"
    /\ \/ life' = "starting" /\ linked' = (decoder # "decodebin")
       \/ life' = "failed" /\ UNCHANGED linked
    /\ UNCHANGED <<buildVars, padAdded, gst, busVars, threadVars, stopRequested>>

\* The constructor waits for the thread, which has found the bus.
InitBusThread ==
    /\ life = "starting"
    /\ life' = "alive"
    /\ busThread' = "polling"
    /\ UNCHANGED <<buildVars, padVars, gst, busVars, inHand, told, stopRequested>>

-----------------------------------------------------------------------------
\* The calls of the owner.

\* A call that changes the state posts it.
Posted(state) ==
    IF state # gst /\ Len(bus) < MaxMessages THEN Append(bus, "STATE_CHANGED") ELSE bus

PlayOrPause(state) ==
    /\ life = "alive"
    /\ gst' = state
    /\ bus' = Posted(state)
    /\ UNCHANGED <<buildVars, life, padVars, posted, errors, threadVars, stopRequested>>

\* To NULL and, by restart(), back: the bus is dropped, the added pad goes.
ToNull(then) ==
    /\ life = "alive"
    /\ gst' = then
    /\ bus' = <<>>
    /\ errors' = IF inHand = "ERROR" THEN 1 ELSE 0
    /\ padAdded' = FALSE
    /\ linked' = (linked /\ decoder # "decodebin")
    /\ UNCHANGED <<buildVars, life, posted, threadVars, stopRequested>>

\* The destructor's body stops and releases the pipeline.
DestructorBody ==
    /\ life = "alive"
    /\ life' = "destroying"
    /\ gst' = "NULL"
    /\ bus' = <<>>
    /\ errors' = 0
    /\ padAdded' = FALSE
    /\ linked' = FALSE
    /\ UNCHANGED <<buildVars, posted, threadVars, stopRequested>>

\* The signals go before the thread.
DestroyMembersSignalsFirst ==
    /\ life = "destroying"
    /\ life' = "gone"
    /\ stopRequested' = TRUE
    /\ UNCHANGED <<buildVars, padVars, gst, busVars, threadVars>>

\* The thread is the last member: it is the first to go, and is waited for.
DestroyMembers ==
    \/ /\ life = "destroying"
       /\ life' = "joining"
       /\ stopRequested' = TRUE
       /\ UNCHANGED <<buildVars, padVars, gst, busVars, threadVars>>
    \/ /\ life = "joining"
       /\ busThread = "ended"
       /\ life' = "gone"
       /\ UNCHANGED <<buildVars, padVars, gst, busVars, threadVars, stopRequested>>

-----------------------------------------------------------------------------
\* The pipeline's threads.

Post(message) ==
    /\ life = "alive"
    /\ gst # "NULL"
    /\ Len(bus) < MaxMessages
    /\ bus' = Append(bus, message)
    /\ IF message = "ERROR"
       THEN posted < MaxErrors /\ posted' = posted + 1 /\ errors' = errors + 1
       ELSE UNCHANGED <<posted, errors>>
    /\ UNCHANGED <<buildVars, life, padVars, gst, threadVars, stopRequested>>

\* onDecoderPadAdded(): a pad of video is linked to the uploader's pad of that
\* name, unless that is linked already.
OnDecoderPadAdded(asked, isVideo) ==
    /\ life = "alive"
    /\ gst # "NULL"
    /\ decoder = "decodebin"
    /\ ~padAdded
    /\ padAdded' = isVideo
    /\ linked' = (linked \/ (isVideo /\ asked \in UploaderPads))
    /\ UNCHANGED <<buildVars, life, gst, busVars, threadVars, stopRequested>>

-----------------------------------------------------------------------------
\* The bus thread: a message, or 100 ms, or the end.

TakeMessage ==
    /\ busThread = "polling"
    /\ ~stopRequested
    /\ bus # <<>>
    /\ busThread' = "handling"
    /\ inHand' = Head(bus)
    /\ bus' = Tail(bus)
    /\ UNCHANGED <<buildVars, life, padVars, gst, posted, errors, told, stopRequested>>

\* issueParser(): the case of warnings runs into the default.
IssueParser(message) == IF message = "ERROR" THEN "ERROR" ELSE "none"

\* What is emitted for a message.  A state is compared with a member that the
\* destructor clears without telling the thread.
Emitted(message) ==
    {IF message \in {"ERROR", "WARNING"} THEN IssueParser(message) ELSE message}
      \cup (IF message = "STATE_CHANGED" /\ life # "alive" THEN {"none"} ELSE {})

\* The end of the stream is the end of the thread.
HandleMessageEndsOnEos ==
    /\ busThread = "handling"
    /\ \E signal \in Emitted(inHand) : told' = IF signal = "none" THEN told ELSE signal
    /\ errors' = IF inHand = "ERROR" /\ errors > 0 THEN errors - 1 ELSE errors
    /\ inHand' = "none"
    /\ busThread' = IF inHand = "EOS" THEN "ended" ELSE "polling"
    /\ UNCHANGED <<buildVars, life, padVars, gst, bus, posted, stopRequested>>

HandleMessage ==
    /\ busThread = "handling"
    /\ \E signal \in Emitted(inHand) : told' = IF signal = "none" THEN told ELSE signal
    /\ errors' = IF inHand = "ERROR" /\ IssueParser(inHand) = "ERROR" /\ errors > 0
                 THEN errors - 1 ELSE errors
    /\ inHand' = "none"
    /\ busThread' = "polling"
    /\ UNCHANGED <<buildVars, life, padVars, gst, bus, posted, stopRequested>>

BusThreadEnds ==
    /\ busThread = "polling"
    /\ stopRequested
    /\ busThread' = "ended"
    /\ UNCHANGED <<buildVars, life, padVars, gst, busVars, inHand, told, stopRequested>>

BusThread == TakeMessage \/ HandleMessage \/ BusThreadEnds

-----------------------------------------------------------------------------
\* TVidRender.  Its source may be a file, which ends.

MainNext ==
    \/ CreateElements(MainDecoders)
    \/ LinkElements
    \/ InitBusThread
    \/ \E state \in {"PAUSED", "PLAYING"} : PlayOrPause(state)
    \/ \E then \in {"NULL", "PLAYING"} : ToNull(then)
    \/ DestructorBody
    \/ DestroyMembers
    \/ \E message \in {"EOS", "ERROR", "WARNING"} : Post(message)
    \/ \E isVideo \in BOOLEAN : OnDecoderPadAdded("sink", isVideo)
    \/ BusThread

-----------------------------------------------------------------------------
\* No signal is emitted after the signals are gone: whatever the bus thread has
\* in hand when the renderer is destroyed, it has ended before.
ThreadEndsBeforeSignals == busThread \in {"polling", "handling"} => life # "gone"

\* The video a decodebin has found is linked to what shows it.
DecodedVideoIsLinked == padAdded => linked

\* An error the pipeline posts is told to the owner, unless the owner stops or
\* destroys the pipeline before: the bus thread goes on after an end of stream,
\* a message that cannot be parsed and a restart.
ErrorsAreTold == (errors > 0) ~> (errors = 0 \/ life # "alive")
=============================================================================
