------------------------------ MODULE VidRender ------------------------------
(***************************************************************************)
(* TVidRender: the appsrc that feeds the decoding pipeline and the calls   *)
(* that start, pause, flush and stop it.  A frame handed to the pipeline   *)
(* is wrapped, not copied: its buffer goes back to the pool when the       *)
(* pipeline drops the last reference, on a thread of the pipeline's.       *)
(*                                                                         *)
(* The pipeline itself (Consume, Release) is GStreamer's, modelled from    *)
(* how the code configures it: a live source, which produces nothing until *)
(* the pipeline is PLAYING, and which never blocks the pusher.             *)
(***************************************************************************)
EXTENDS FramePool, SequencesExt

CONSTANT
    BufferLimits    \* the values setMaxBufferBytes is called with

ASSUME BufferLimitsAssumption == BufferLimits # {} /\ BufferLimits \subseteq Nat

VARIABLES
    gst,            \* the state of the pipeline
    appsrc,         \* buffers queued in the appsrc: [frame, len, bytes]
    downstream,     \* frames whose buffer an element after the appsrc holds
    maxBufferBytes,
    lastPushSuccess \* whether lastPushSuccess is later than TimePoint::min()

renderVars == <<gst, appsrc, downstream, maxBufferBytes, lastPushSuccess>>

GstStates == {"NULL", "PAUSED", "PLAYING"}

FramesIn(q) == {q[i].frame : i \in DOMAIN q}

Queued == FramesIn(appsrc)

RenderInit ==
    /\ gst = "NULL"
    /\ appsrc = <<>>
    /\ downstream = {}
    /\ maxBufferBytes \in BufferLimits
    /\ lastPushSuccess = FALSE

-----------------------------------------------------------------------------
\* tryPushFrame, called by the reassembler.

QueuedBytes == FoldLeft(LAMBDA n, b : n + b.len, 0, appsrc)

\* The buffer level, the frame and the pipeline allow the push.
CanPush(frame) ==
    /\ QueuedBytes <= maxBufferBytes
    /\ frame.len > 0
    /\ gst # "NULL"

\* The caller gives `frame` up whatever happens; `list` is the free list at
\* the time of the call.
TryPushFrameKeepsBoth(list, frame) ==
    /\ freeIdxList' = Restored(list, {frame.frame})
    /\ IF CanPush(frame)
       THEN /\ appsrc' = Append(appsrc, [frame |-> frame.frame, len |-> frame.len, bytes |-> frame.bytes])
            /\ lastPushSuccess' = TRUE
       ELSE UNCHANGED <<appsrc, lastPushSuccess>>

TryPushFrame(list, frame) ==
    IF CanPush(frame)
    THEN /\ appsrc' = Append(appsrc, [frame |-> frame.frame, len |-> frame.len, bytes |-> frame.bytes])
         /\ freeIdxList' = list
         /\ lastPushSuccess' = TRUE
    ELSE /\ freeIdxList' = Restored(list, {frame.frame})
         /\ UNCHANGED <<appsrc, lastPushSuccess>>

-----------------------------------------------------------------------------
\* The calls of the thread that owns the renderer.

Play ==
    /\ gst' = "PLAYING"
    /\ UNCHANGED <<freeIdxList, appsrc, downstream, maxBufferBytes, lastPushSuccess>>

Pause ==
    /\ gst' = "PAUSED"
    /\ UNCHANGED <<freeIdxList, appsrc, downstream, maxBufferBytes, lastPushSuccess>>

\* Going to NULL drops every buffer the pipeline holds.
DropAll ==
    /\ freeIdxList' = Restored(freeIdxList, Queued \cup downstream)
    /\ appsrc' = <<>>
    /\ downstream' = {}
    /\ UNCHANGED <<maxBufferBytes, lastPushSuccess>>

Stop == DropAll /\ gst' = "NULL"

\* play() may fail after the pipeline went to NULL.
Restart == DropAll /\ gst' \in {"NULL", "PLAYING"}

\* Elements may keep a reference across a flush.
Flush ==
    /\ gst # "NULL"
    /\ \E dropped \in SUBSET downstream :
         /\ freeIdxList' = Restored(freeIdxList, Queued \cup dropped)
         /\ downstream' = downstream \ dropped
    /\ appsrc' = <<>>
    /\ UNCHANGED <<gst, maxBufferBytes, lastPushSuccess>>

SetMaxBufferBytes ==
    /\ maxBufferBytes' \in BufferLimits
    /\ UNCHANGED <<freeIdxList, gst, appsrc, downstream, lastPushSuccess>>

-----------------------------------------------------------------------------
\* The threads of the pipeline.

Consume ==
    /\ gst = "PLAYING"
    /\ appsrc # <<>>
    /\ downstream' = downstream \cup {Head(appsrc).frame}
    /\ appsrc' = Tail(appsrc)
    /\ UNCHANGED <<freeIdxList, gst, maxBufferBytes, lastPushSuccess>>

\* The last reference to the buffer of f is dropped: its free callback
\* deletes the FrameData.
Release(f) ==
    /\ f \in downstream
    /\ downstream' = downstream \ {f}
    /\ freeIdxList' = Restored(freeIdxList, {f})
    /\ UNCHANGED <<gst, appsrc, maxBufferBytes, lastPushSuccess>>

RenderNext ==
    \/ Play
    \/ Pause
    \/ Stop
    \/ Restart
    \/ Flush
    \/ SetMaxBufferBytes
    \/ Consume
    \/ \E f \in Frames : Release(f)
=============================================================================
