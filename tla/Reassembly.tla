----------------------------- MODULE Reassembly -----------------------------
(***************************************************************************)
(* TReassembly: the receive thread hands it every UDP datagram            *)
(* (OnPacketRecv) and, every few milliseconds, a timer call               *)
(* (ReAsmSlotScan).  It collects the sections of a frame in one of a few   *)
(* slots and pushes the frame into the renderer when its bytes are all     *)
(* there.  Datagrams are lost, duplicated and reordered by the network;    *)
(* the sender may restart and count its frames from the beginning again,    *)
(* so that sections of different frames may come under one index.          *)
(*                                                                         *)
(* Time is a number of ticks since an event, saturated one past the        *)
(* timeout it is compared with; two events of the same tick may have       *)
(* happened in either order.                                               *)
(***************************************************************************)
EXTENDS VidRender, FiniteSetsExt, Integers

CONSTANTS
    NumSlots,           \* maxReAsmSlots
    IdxMod,             \* 2^16, the frame indices of the header
    MaxIdxLag,          \* -minFrameIdxDiff
    PayloadSize,        \* maxPayloadSize
    MaxSecPerFrame,
    SlotLen,            \* TFramePool::slotLen
    U32,                \* 2^32: the lengths are of type u32
    BigFrameThres,
    CompleteNum,        \* minFrameCompleteRate = CompleteNum / CompleteDen
    CompleteDen,
    ReassembleTimeout,  \* in ticks
    SyncTimeout,        \* in ticks
    Packets             \* the datagrams the sender may send

Slots == 1..NumSlots
FrameIdx == 0..(IdxMod - 1)

\* The sections a slot has a bit for.
SecIdx == 0..(MaxSecPerFrame - 1)

\* A datagram: its header, and how many bytes follow it.  The sender cuts a
\* frame into sections of PayloadSize bytes, the last one padded, and gives all
\* of them the length of the frame; nothing in a datagram proves that it did.
PacketType == [idx : FrameIdx, sec : Nat, len : Nat, payload : 0..PayloadSize]

ASSUME ReassemblyAssumption ==
    /\ NumSlots \in Nat \ {0}
    /\ IdxMod \in Nat \ {0}
    /\ MaxIdxLag \in Nat
    /\ PayloadSize \in Nat \ {0}
    /\ {MaxSecPerFrame, SlotLen, BigFrameThres, U32} \subseteq Nat
    /\ MaxSecPerFrame * PayloadSize < U32
    /\ CompleteNum \in Nat /\ CompleteDen \in Nat /\ CompleteNum <= CompleteDen
    /\ ReassembleTimeout \in Nat /\ SyncTimeout \in Nat
    /\ Packets \subseteq PacketType

VARIABLES
    rFrames,            \* the reassembly slots
    lastPushedIdx,
    synced,
    syncAge,            \* ticks since lastSyncedTime
    allowPushIncomplete,
    scanTodo,           \* slots the running ReAsmSlotScan found timed out
    crashed             \* a memcpy ran out of its buffers: the process is gone

reasmVars == <<rFrames, lastPushedIdx, synced, syncAge, allowPushIncomplete, scanTodo, crashed>>
vars == <<freeIdxList, renderVars, reasmVars>>

-----------------------------------------------------------------------------
\* Frame indices wrap around.

Diff(a, b) ==
    LET d == (a - b) % IdxMod
    IN  IF 2 * d >= IdxMod THEN d - IdxMod ELSE d

\* Without the wrap-around.
IsAfterNoWrap(a, b) == a > b

IsAfter(a, b) == Diff(a, b) > 0

Before(i) == (i - 1) % IdxMod

-----------------------------------------------------------------------------
\* Reassembly slots.

SlotType == [
    frame : Frames \cup {NoFrame},  \* the FrameData and its length
    len : Nat,
    frameIdx : FrameIdx,
    curLen : Nat,
    secs : SUBSET SecIdx,           \* receivedSecs
    bytes : [SecIdx -> Nat],        \* how many bytes of each section were copied
    age : 0..(ReassembleTimeout + 1)]

EmptySlot == [frame |-> NoFrame, len |-> 0, frameIdx |-> 0, curLen |-> 0, secs |-> {},
              bytes |-> [sec \in SecIdx |-> 0], age |-> 0]

NewSlot(f, p) == [EmptySlot EXCEPT !.frame = f, !.len = p.len, !.frameIdx = p.idx]

IsOccupied(slot) == slot.frame # NoFrame

IsComplete(slot) == slot.curLen = slot.len

\* Any data will do.
CompleteEnoughAny(slot) == slot.curLen > 0

CompleteEnough(slot) ==
    /\ slot.len > 0
    /\ slot.curLen <= slot.len
    /\ CompleteDen * slot.curLen >= CompleteNum * slot.len

\* The frames the slots ss hold.
FramesOf(ss) == {ss[s].frame : s \in Slots} \ {NoFrame}

\* Where a section starts in its frame.
Offset(sec) == sec * PayloadSize

\* With the padding.
CopySizePadded(slot, p) == p.payload

\* The bytes of p to copy, padding excluded.  The length is the slot's, not the
\* datagram's, and the difference is one of unsigned numbers.
CopySize(slot, p) ==
    IF Offset(p.sec) + p.payload > slot.len
    THEN (slot.len - Offset(p.sec)) % U32
    ELSE p.payload

\* Without the test of receivedSecs.
FillableAgain(slot, p) ==
    /\ ~IsComplete(slot)
    /\ p.payload > 0
    /\ p.sec \in SecIdx

Fillable(slot, p) ==
    /\ ~IsComplete(slot)
    /\ p.payload > 0
    /\ p.sec \in SecIdx
    /\ p.sec \notin slot.secs

\* fill() copies more than there is in p: nearly 4 GB, from a section that starts
\* behind the end of the frame.
Overruns(slot, p) == Fillable(slot, p) /\ CopySize(slot, p) > p.payload

\* fill(): nothing comes after a copy that overruns.
Filled(slot, p) ==
    IF Fillable(slot, p) /\ ~Overruns(slot, p)
    THEN [slot EXCEPT !.secs = @ \cup {p.sec},
                      !.curLen = @ + CopySize(slot, p),
                      !.bytes[p.sec] = CopySize(slot, p)]
    ELSE slot

\* The first of the slots S, in the order the loops visit them.
First(S) == {s \in S : \A t \in S : s <= t}

\* The first empty slot is taken before the frame is looked for in all slots.
FindReAsmSlotEmptyFirst(ss, idx) ==
    First({s \in Slots : ~IsOccupied(ss[s]) \/ ss[s].frameIdx = idx
                          \/ \A t \in Slots : IsOccupied(ss[t]) /\ ss[t].frameIdx # idx})

\* The slots findReAsmSlot may return for frame idx.  Slots that started in
\* the same tick may be in either order.
FindReAsmSlot(ss, idx) ==
    LET same     == {s \in Slots : IsOccupied(ss[s]) /\ ss[s].frameIdx = idx}
        empty    == {s \in Slots : ~IsOccupied(ss[s])}
        small    == {s \in Slots : ss[s].len < BigFrameThres}
        Oldest(S) == {s \in S : \A t \in S : ss[t].age <= ss[s].age}
    IN  CASE same # {}  -> First(same)
          [] same = {} /\ empty # {} -> First(empty)
          [] same = {} /\ empty = {} /\ small # {} -> Oldest(small)
          [] OTHER -> Oldest(Slots)

-----------------------------------------------------------------------------
\* onPacketRecv, one action per way through the handler.

ReassemblyInit ==
    /\ rFrames = [s \in Slots |-> EmptySlot]
    /\ lastPushedIdx = 0
    /\ synced = FALSE
    /\ syncAge = SyncTimeout + 1
    /\ allowPushIncomplete = FALSE
    /\ scanTodo = {}
    /\ crashed = FALSE

\* The session is still on, once the handler has looked at the clock.
InSession == synced /\ syncAge <= SyncTimeout

StartsSession(p) == ~InSession \/ Diff(p.idx, lastPushedIdx) < -MaxIdxLag

\* The frame is longer than a buffer.  A datagram too short for a header
\* has the same effect.
IgnorePacket(p) ==
    /\ p.len > SlotLen
    /\ synced' = InSession
    /\ UNCHANGED <<freeIdxList, renderVars, rFrames, lastPushedIdx, syncAge, allowPushIncomplete, crashed>>

\* A late packet taken for a sign of life.
DropLatePacketKeepsAlive(p) ==
    /\ p.len <= SlotLen
    /\ ~StartsSession(p)
    /\ Diff(p.idx, lastPushedIdx) <= 0
    /\ synced' = TRUE
    /\ syncAge' = 0
    /\ UNCHANGED <<freeIdxList, renderVars, rFrames, lastPushedIdx, allowPushIncomplete, crashed>>

\* A duplicate, or late.  It does not count as a sign of life of the session.
DropLatePacket(p) ==
    /\ p.len <= SlotLen
    /\ ~StartsSession(p)
    /\ Diff(p.idx, lastPushedIdx) <= 0
    /\ synced' = TRUE
    /\ UNCHANGED <<freeIdxList, renderVars, rFrames, lastPushedIdx, syncAge, allowPushIncomplete, crashed>>

\* Packet p goes into `slot`, to be kept at s unless p completes the frame.
FillSlot(p, s, slot, ss, list, last) ==
    LET filled == Filled(slot, p) IN
    /\ crashed' = Overruns(slot, p)
    /\ IF filled # slot /\ IsComplete(filled)
        THEN /\ TryPushFrame(list, filled)
             /\ lastPushedIdx' = p.idx
             /\ rFrames' = [ss EXCEPT ![s] = EmptySlot]
        ELSE /\ rFrames' = [ss EXCEPT ![s] = filled]
             /\ lastPushedIdx' = last
             /\ freeIdxList' = list
             /\ UNCHANGED <<appsrc, lastPushSuccess>>

\* ss, list and last are the slots, the free list and lastPushedIdx once the
\* session is settled.
PlacePacket(p, ss, list, last) ==
    \E s \in FindReAsmSlot(ss, p.idx) :
      IF IsOccupied(ss[s]) /\ ss[s].frameIdx = p.idx
      THEN FillSlot(p, s, ss[s], ss, list, last)
      ELSE LET list2 == Restored(list, {ss[s].frame})   \* evicted, if any
           IN  \/ /\ Available(list2) = {}
                  /\ rFrames' = [ss EXCEPT ![s] = EmptySlot]
                  /\ freeIdxList' = list2
                  /\ lastPushedIdx' = last
                  /\ UNCHANGED <<appsrc, lastPushSuccess, crashed>>
               \/ \E f \in Available(list2) :
                    FillSlot(p, s, NewSlot(f, p), ss, Taken(list2, f), last)

AcceptPacket(p) ==
    /\ p.len <= SlotLen
    /\ StartsSession(p) \/ Diff(p.idx, lastPushedIdx) > 0
    /\ IF StartsSession(p)
       THEN PlacePacket(p, [s \in Slots |-> EmptySlot],
                        Restored(freeIdxList, FramesOf(rFrames)),
                        Before(p.idx))
       ELSE PlacePacket(p, rFrames, freeIdxList, lastPushedIdx)
    /\ synced' = TRUE
    /\ syncAge' = 0
    /\ UNCHANGED <<gst, downstream, maxBufferBytes, allowPushIncomplete>>

OnPacketRecv(p) ==
    /\ ~crashed
    /\ scanTodo = {}
    /\ IgnorePacket(p) \/ DropLatePacket(p) \/ AcceptPacket(p)
    /\ UNCHANGED scanTodo

-----------------------------------------------------------------------------
\* ReAsmSlotScan.  It runs on the thread of onPacketRecv, which waits for it
\* to end; the other threads go on between two slots.

\* The slots are scanned only while a session is on.
BeginScanInSession ==
    /\ ~crashed
    /\ scanTodo = {}
    /\ synced' = InSession
    /\ scanTodo' = {s \in Slots : InSession /\ IsOccupied(rFrames[s]) /\ rFrames[s].age > ReassembleTimeout}
    /\ UNCHANGED <<freeIdxList, renderVars, rFrames, lastPushedIdx, syncAge, allowPushIncomplete, crashed>>

BeginScan ==
    /\ ~crashed
    /\ scanTodo = {}
    /\ synced' = InSession
    /\ scanTodo' = {s \in Slots : IsOccupied(rFrames[s]) /\ rFrames[s].age > ReassembleTimeout}
    /\ UNCHANGED <<freeIdxList, renderVars, rFrames, lastPushedIdx, syncAge, allowPushIncomplete, crashed>>

ScanSlot ==
    /\ ~crashed
    /\ \E s \in First(scanTodo) :
         /\ rFrames' = [rFrames EXCEPT ![s] = EmptySlot]
         /\ scanTodo' = scanTodo \ {s}
         /\ IF /\ allowPushIncomplete
               /\ CompleteEnough(rFrames[s])
               /\ IsAfter(rFrames[s].frameIdx, lastPushedIdx)
            THEN /\ TryPushFrame(freeIdxList, rFrames[s])
                 /\ lastPushedIdx' = rFrames[s].frameIdx
            ELSE /\ freeIdxList' = Restored(freeIdxList, {rFrames[s].frame})
                 /\ UNCHANGED <<appsrc, lastPushSuccess, lastPushedIdx>>
    /\ UNCHANGED <<gst, downstream, maxBufferBytes, synced, syncAge, allowPushIncomplete, crashed>>

-----------------------------------------------------------------------------
\* Another thread allows or forbids pushing incomplete frames.
AllowPushIncompleteFrames ==
    /\ ~crashed
    /\ allowPushIncomplete' \in BOOLEAN
    /\ UNCHANGED <<freeIdxList, renderVars, rFrames, lastPushedIdx, synced, syncAge, scanTodo, crashed>>

Older(age, timeout) == IF age > timeout THEN age ELSE age + 1

Tick ==
    /\ ~crashed
    /\ rFrames' = [s \in Slots |->
          IF IsOccupied(rFrames[s])
          THEN [rFrames[s] EXCEPT !.age = Older(@, ReassembleTimeout)]
          ELSE rFrames[s]]
    /\ syncAge' = Older(syncAge, SyncTimeout)
    /\ UNCHANGED <<freeIdxList, renderVars, lastPushedIdx, synced, allowPushIncomplete, scanTodo, crashed>>

\* The calls of the receive thread.
RecvThreadNext ==
    \/ \E p \in Packets : OnPacketRecv(p)
    \/ BeginScan
    \/ ScanSlot

Gone == crashed /\ UNCHANGED vars

Next ==
    \/ RecvThreadNext
    \/ ~crashed /\ RenderNext /\ UNCHANGED reasmVars
    \/ AllowPushIncompleteFrames
    \/ Tick
    \/ Gone

Init == PoolInit /\ RenderInit /\ ReassemblyInit

Spec == Init /\ [][Next]_vars

\* A datagram with a frame in it is received.
ReceiveFrame == \E p \in {q \in Packets : q.len <= SlotLen} : OnPacketRecv(p)

\* Time passes; the loop scans the slots at every turn; the pipeline processes
\* what it has while it is PLAYING.
Fairness ==
    /\ WF_vars(Tick)
    /\ WF_vars(BeginScan)
    /\ WF_vars(ScanSlot)
    /\ WF_vars(~crashed /\ Consume /\ UNCHANGED reasmVars)
    /\ \A f \in Frames : WF_vars(~crashed /\ gst = "PLAYING" /\ Release(f) /\ UNCHANGED reasmVars)

FairSpec == Spec /\ Fairness

-----------------------------------------------------------------------------
\* Correctness.

\* Every variable has its type: a reassembly slot holds at most one buffer of
\* the pool, and the pipeline holds buffers of the pool only.
TypeOK ==
    /\ PoolTypeOK
    /\ gst \in GstStates
    /\ appsrc \in Seq([frame : Frames, len : Nat, bytes : [SecIdx -> Nat]])
    /\ downstream \subseteq Frames
    /\ maxBufferBytes \in Nat
    /\ lastPushSuccess \in BOOLEAN
    /\ rFrames \in [Slots -> SlotType]
    /\ lastPushedIdx \in FrameIdx
    /\ synced \in BOOLEAN
    /\ syncAge \in 0..(SyncTimeout + 1)
    /\ allowPushIncomplete \in BOOLEAN
    /\ scanTodo \subseteq Slots
    /\ crashed \in BOOLEAN

InSlots == FramesOf(rFrames)

\* A buffer is free, in one of the slots ss, once in the queue q or among the
\* frames d, and in one of these only.
Accounted(list, ss, q, d) ==
    /\ \A f \in Frames :
         list[f] = IF f \in FramesOf(ss) \cup FramesIn(q) \cup d THEN 0 ELSE 1
    /\ \A s, t \in Slots : IsOccupied(ss[s]) /\ ss[s].frame = ss[t].frame => s = t
    /\ \A i, j \in DOMAIN q : q[i].frame = q[j].frame => i = j
    /\ FramesOf(ss) \cap (FramesIn(q) \cup d) = {}
    /\ FramesIn(q) \cap d = {}

\* Every buffer is in exactly one place.  It is never lost (acquire would fail
\* for ever) and never given out while a decoder reads it, across evictions,
\* failed pushes, session restarts, flushes and stops.
FrameOwnedOnce == Accounted(freeIdxList, rFrames, appsrc, downstream)

\* The scan works on occupied slots: nothing the other threads do between two
\* of its steps changes the ones it has still to look at.
ScanTodoOccupied == \A s \in scanTodo : IsOccupied(rFrames[s])

\* Two slots never collect sections of the same frame: a frame split over two
\* slots would never be complete in either.
OneSlotPerFrame ==
    \A s, t \in Slots :
      /\ IsOccupied(rFrames[s])
      /\ IsOccupied(rFrames[t])
      /\ rFrames[s].frameIdx = rFrames[t].frameIdx
      => s = t

BytesOf(bytes) == MapThenSumSet(LAMBDA sec : bytes[sec], DOMAIN bytes)

\* The running count of a slot is the number of bytes copied into its buffer,
\* whatever was duplicated, cut short or meant for another frame, and stays
\* below the length of the frame: a slot whose frame is complete does not wait
\* for another datagram.
CountIsBytesCopied ==
    \A s \in Slots :
      LET slot == rFrames[s]
      IN  /\ slot.curLen = BytesOf(slot.bytes)
          /\ IsOccupied(slot) => slot.curLen < slot.len \/ slot.len = 0

\* Every buffer in the appsrc holds the bytes of its frame: all of them, or
\* as many as minFrameCompleteRate asks for.
QueuedFramesCompleteEnough ==
    \A i \in DOMAIN appsrc :
      CompleteDen * BytesOf(appsrc[i].bytes) >= CompleteNum * appsrc[i].len

\* The sections a frame of length len has a byte in.
SectionsOf(len) == {sec \in 0..(len - 1) : Offset(sec) < len}

\* The bytes of the frame in one of them.
BytesIn(len, sec) ==
    IF Offset(sec) + PayloadSize > len THEN len - Offset(sec) ELSE PayloadSize

\* Unless incomplete frames are allowed at that moment, what goes into the
\* appsrc is a whole frame, without a hole: the slot only counts bytes, but
\* every section came, at its full length.
OnlyWholeFramesUnlessAllowed ==
    [][ Len(appsrc') > Len(appsrc) /\ ~allowPushIncomplete
        => LET b == appsrc'[Len(appsrc')] IN
           \A sec \in SectionsOf(b.len) :
             sec \in SecIdx /\ b.bytes[sec] = BytesIn(b.len, sec) ]_vars

\* The picture never goes backwards within a session: a frame pushed is after
\* the one pushed before it, or opens a session (the old one timed out, or
\* the index fell back by more than MaxIdxLag).  This holds for the frames
\* the scan pushes too, among them the ones the handler will never push.
FeedMovesForward ==
    [][ Len(appsrc') > Len(appsrc)
        => \/ Diff(lastPushedIdx', lastPushedIdx) > 0
           \/ ~InSession
           \/ Diff(lastPushedIdx', lastPushedIdx) < -MaxIdxLag ]_vars

\* The reassembler alone cannot run the pool dry: when no buffer is free, the
\* pipeline holds all but the ones in the slots, and no slot holds two.
PoolDryOnlyByPipeline ==
    Available(freeIdxList) = {}
      => Cardinality(Queued \cup downstream) + NumSlots >= Cardinality(Frames)

\* The pool, the reassembler and the renderer implement FrameOwnership.
owner == [f \in Frames |->
    IF f \in InSlots THEN "reassembly"
    ELSE IF f \in Queued \cup downstream THEN "pipeline"
    ELSE "pool"]

Ownership == INSTANCE FrameOwnership WITH Frames <- Frames, owner <- owner

FramesHaveOneOwner == Ownership!Spec

\* The comment in fill(), "Avoid the padding bytes": what a datagram has past the
\* end of the frame is padding, and is not copied.
CopiesStayInFrame == ~crashed

\* A slot does not age for ever: its frame is completed, evicted, or swept by
\* the scan, session or no session.  (age is reset by nothing else.)
SlotsTimeOut == \A s \in Slots : rFrames[s].age > 0 ~> rFrames[s].age = 0

\* A sender whose frames are all taken for late ones (it restarted, or it
\* repeats itself) is not locked out: as long as it sends, its frames are
\* accepted again and again.  (Strong fairness: a datagram comes while it
\* would be accepted, if it would be again and again.)
ReceptionRecovers ==
    SF_vars(ReceiveFrame) => []<><<\E p \in Packets : AcceptPacket(p)>>_vars

\* When the pipeline is left PLAYING, a dry pool does not stay dry.
FramesReturn ==
    <>[](gst = "PLAYING") => (Available(freeIdxList) = {} ~> Available(freeIdxList) # {})
=============================================================================
