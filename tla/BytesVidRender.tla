---------------------------- MODULE BytesVidRender ----------------------------
(***************************************************************************)
(* TBytesVidRender: a pipeline like TVidRender's, fed with copies of what  *)
(* the MQTT client receives, on the GUI thread.  The behaviours of this    *)
(* module are those of either renderer.                                    *)
(***************************************************************************)
EXTENDS VidPipeline

CONSTANTS
    BytesDecoders,      \* preferred decoders, best first
    Limits,             \* levels above which nothing is pushed, as they are set
    FrameSizes          \* lengths of what is received

ASSUME BytesVidRenderAssumption == Limits \subseteq Nat /\ FrameSizes \subseteq Nat

VARIABLES
    renderer,           \* which of the two it is
    level,              \* bytes queued in the appsrc
    maxBufferBytes,     \* the limit in force
    pushLimit,          \* that of the last push, at first the constructor's
    lastPushSuccess     \* there was one

limitVars == <<maxBufferBytes, pushLimit>>
vars == <<pipelineVars, renderer, level, limitVars, lastPushSuccess>>

TypeOK ==
    /\ PipelineTypeOK
    /\ renderer \in {"main", "bytes"}
    /\ level \in Nat
    /\ maxBufferBytes \in Limits /\ pushLimit \in Limits
    /\ lastPushSuccess \in BOOLEAN

Init ==
    /\ renderer \in {"main", "bytes"}
    /\ PipelineInit(IF renderer = "main" THEN MainDecoders ELSE BytesDecoders)
    /\ level = 0
    /\ maxBufferBytes \in Limits /\ pushLimit = maxBufferBytes
    /\ lastPushSuccess = FALSE

FeedUnchanged == UNCHANGED <<level, limitVars, lastPushSuccess>>

-----------------------------------------------------------------------------
\* The constructor, the bus thread and the destructor are TVidRender's.

BytesChoosePrefDecoder == CreateElements(BytesDecoders) /\ FeedUnchanged

BytesInitPipeElements == LinkElements /\ FeedUnchanged

BytesInitBusThread == InitBusThread /\ FeedUnchanged

BytesBusThread == BusThread /\ FeedUnchanged

BytesDestroy ==
    (DestructorBody \/ DestroyMembers) /\ level' = 0 /\ UNCHANGED <<limitVars, lastPushSuccess>>

\* The uploader is asked for a pad of the name of the sink's element.
BytesOnDecoderPadAdded(isVideo) == OnDecoderPadAdded("bSink", isVideo) /\ FeedUnchanged

-----------------------------------------------------------------------------
\* The calls.

\* The level is compared with a limit that is not in force any more.
TryPushFrameOldLimit(size) ==
    /\ life = "alive"
    /\ \E limit \in Limits : level <= limit
    /\ size > 0
    /\ gst # "NULL"
    /\ level' = level + size
    /\ pushLimit' = maxBufferBytes
    /\ lastPushSuccess' = TRUE
    /\ UNCHANGED <<pipelineVars, maxBufferBytes>>

\* A copy is queued, if it is not empty and there is not too much already.  A
\* limit that is set between the check and the push is as one set after it.
TryPushFrame(size) ==
    /\ life = "alive"
    /\ level <= maxBufferBytes
    /\ size > 0
    /\ gst # "NULL"
    /\ level' = level + size
    /\ pushLimit' = maxBufferBytes
    /\ lastPushSuccess' = TRUE
    /\ UNCHANGED <<pipelineVars, maxBufferBytes>>

\* From any thread, whatever is queued.
SetMaxBufferBytes(limit) ==
    /\ life = "alive"
    /\ maxBufferBytes' = limit
    /\ UNCHANGED <<pipelineVars, level, pushLimit, lastPushSuccess>>

BytesPlay == PlayOrPause("PLAYING") /\ FeedUnchanged

BytesPause == PlayOrPause("PAUSED") /\ FeedUnchanged

\* Play may fail after the pipeline went to NULL.
BytesRestart ==
    (\E then \in {"NULL", "PLAYING"} : ToNull(then)) /\ level' = 0 /\ UNCHANGED <<limitVars, lastPushSuccess>>

BytesStop == ToNull("NULL") /\ level' = 0 /\ UNCHANGED <<limitVars, lastPushSuccess>>

BytesFlush ==
    /\ life = "alive"
    /\ gst # "NULL"
    /\ level' = 0
    /\ UNCHANGED <<pipelineVars, limitVars, lastPushSuccess>>

\* External: the live source gives away what it has while it plays.
Consume ==
    /\ gst = "PLAYING"
    /\ level > 0
    /\ level' \in {level - size : size \in {n \in FrameSizes : 0 < n /\ n <= level}}
    /\ UNCHANGED <<pipelineVars, limitVars, lastPushSuccess>>

BytesNext ==
    \/ BytesChoosePrefDecoder
    \/ BytesInitPipeElements
    \/ BytesInitBusThread
    \/ BytesBusThread
    \/ BytesDestroy
    \/ \E isVideo \in BOOLEAN : BytesOnDecoderPadAdded(isVideo)
    \/ \E message \in {"ERROR", "WARNING"} : Post(message) /\ FeedUnchanged
    \/ \E size \in FrameSizes : TryPushFrame(size)
    \/ BytesPlay
    \/ BytesPause
    \/ BytesRestart
    \/ BytesStop
    \/ BytesFlush
    \/ \E limit \in Limits : SetMaxBufferBytes(limit)
    \/ Consume

Next ==
    /\ \/ renderer = "main" /\ MainNext /\ FeedUnchanged
       \/ renderer = "bytes" /\ BytesNext
    /\ UNCHANGED renderer

Spec == Init /\ [][Next]_vars

\* The bus thread runs, and who destroys a renderer goes on with it.
FairSpec ==
    /\ Spec
    /\ WF_vars(BusThread /\ FeedUnchanged /\ UNCHANGED renderer)
    /\ WF_vars(DestroyMembers /\ FeedUnchanged /\ UNCHANGED renderer)

-----------------------------------------------------------------------------
\* What waits to be decoded is bounded by one frame above the limit in force when
\* the last one was pushed: a stream that comes in while the pipeline is paused,
\* or faster than it is decoded, does not fill the memory, and after the limit is
\* lowered nothing is pushed on top of what an earlier one let in.
FeedIsBounded == \A size \in FrameSizes : (\A n \in FrameSizes : n <= size) => level <= pushLimit + size
=============================================================================
