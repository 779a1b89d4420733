-------------------------- MODULE ReassemblyProofs --------------------------
(***************************************************************************)
(* Proofs about Reassembly for any number of slots, buffers and frame      *)
(* indices, any datagrams and any timeouts: the inductive invariant that   *)
(* accounts for every buffer, the refinement of FrameOwnership, the order  *)
(* of the frames, and the bytes of the frames that are pushed.             *)
(***************************************************************************)
EXTENDS Reassembly, TLAPS, FiniteSetTheorems

SlotArray == [Slots -> SlotType]

BufferType == [frame : Frames, len : Nat, bytes : [SecIdx -> Nat]]

-----------------------------------------------------------------------------
(***************************************************************************)
(* Accounting lemmas: each way a buffer changes hands keeps every buffer   *)
(* in one place.                                                           *)
(***************************************************************************)

\* The queue after a push holds the frames it held and the one pushed.
LEMMA AppendFrames ==
  ASSUME NEW q \in Seq(BufferType), NEW b \in BufferType
  PROVE  /\ Append(q, b) \in Seq(BufferType)
         /\ FramesIn(Append(q, b)) = FramesIn(q) \cup {b.frame}
         /\ (\A i, j \in DOMAIN q : q[i].frame = q[j].frame => i = j) /\ b.frame \notin FramesIn(q)
            => \A i, j \in DOMAIN Append(q, b) : Append(q, b)[i].frame = Append(q, b)[j].frame => i = j
<1> DEFINE r == Append(q, b)
<1>1. r \in Seq(BufferType) /\ Len(r) = Len(q) + 1 /\ Len(q) \in Nat
  OBVIOUS
<1>2. DOMAIN q = 1..Len(q) /\ DOMAIN r = 1..(Len(q) + 1)
  BY <1>1
<1>3. /\ \A i \in 1..Len(q) : r[i] = q[i]
      /\ r[Len(q) + 1] = b
  OBVIOUS
<1> HIDE DEF r
<1>4. FramesIn(r) = FramesIn(q) \cup {b.frame}
  <2>1. ASSUME NEW f \in FramesIn(r) PROVE f \in FramesIn(q) \cup {b.frame}
    <3>1. PICK i \in 1..(Len(q) + 1) : f = r[i].frame
      BY <1>2 DEF FramesIn
    <3>2. i \in 1..Len(q) \/ i = Len(q) + 1
      BY <1>1
    <3>3. QED
      BY <3>1, <3>2, <1>2, <1>3 DEF FramesIn
  <2>2. ASSUME NEW f \in FramesIn(q) PROVE f \in FramesIn(r)
    <3>1. PICK i \in 1..Len(q) : f = q[i].frame
      BY <1>2 DEF FramesIn
    <3>2. i \in 1..(Len(q) + 1)
      BY <1>1
    <3>3. QED
      BY <3>1, <3>2, <1>2, <1>3 DEF FramesIn
  <2>3. b.frame \in FramesIn(r)
    <3>1. Len(q) + 1 \in 1..(Len(q) + 1)
      BY <1>1
    <3>2. QED
      BY <3>1, <1>2, <1>3 DEF FramesIn
  <2>4. QED
    BY <2>1, <2>2, <2>3
<1>5. ASSUME \A i, j \in DOMAIN q : q[i].frame = q[j].frame => i = j,
             b.frame \notin FramesIn(q),
             NEW i \in DOMAIN r, NEW j \in DOMAIN r, r[i].frame = r[j].frame
      PROVE  i = j
  <2>1. (i \in 1..Len(q) \/ i = Len(q) + 1) /\ (j \in 1..Len(q) \/ j = Len(q) + 1)
    BY <1>1, <1>2
  <2>2. \A k \in 1..Len(q) : q[k].frame # b.frame
    BY <1>5, <1>2 DEF FramesIn
  <2>3. QED
    BY <1>5, <2>1, <2>2, <1>2, <1>3
<1>6. QED
  BY <1>1, <1>4, <1>5 DEF r

\* An element takes the oldest buffer out of the queue.
LEMMA TailFrames ==
  ASSUME NEW q \in Seq(BufferType), q # <<>>,
         \A i, j \in DOMAIN q : q[i].frame = q[j].frame => i = j
  PROVE  /\ Tail(q) \in Seq(BufferType)
         /\ Head(q).frame \in Frames
         /\ FramesIn(q) = FramesIn(Tail(q)) \cup {Head(q).frame}
         /\ Head(q).frame \notin FramesIn(Tail(q))
         /\ \A i, j \in DOMAIN Tail(q) : Tail(q)[i].frame = Tail(q)[j].frame => i = j
<1> DEFINE r == Tail(q)
<1>1. r \in Seq(BufferType) /\ Len(r) = Len(q) - 1 /\ Len(q) \in Nat \ {0} /\ Len(r) \in Nat
  OBVIOUS
<1>2. DOMAIN q = 1..Len(q) /\ DOMAIN r = 1..Len(r)
  BY <1>1
<1>3. \A i \in 1..Len(r) : r[i] = q[i + 1] /\ i + 1 \in 1..Len(q)
  OBVIOUS
<1>4. Head(q) = q[1] /\ 1 \in 1..Len(q) /\ q[1] \in BufferType
  OBVIOUS
<1> HIDE DEF r
<1>5. ASSUME NEW f \in FramesIn(q) PROVE f \in FramesIn(r) \cup {q[1].frame}
  <2>1. PICK i \in 1..Len(q) : f = q[i].frame
    BY <1>5, <1>2 DEF FramesIn
  <2>2. CASE i = 1
    BY <2>1, <2>2
  <2>3. CASE i # 1
    <3>1. i - 1 \in 1..Len(r) /\ (i - 1) + 1 = i
      BY <2>3, <1>1
    <3>2. r[i - 1] = q[i]
      BY <3>1, <1>3
    <3>3. QED
      BY <3>1, <3>2, <2>1, <1>2 DEF FramesIn
  <2>4. QED
    BY <2>2, <2>3
<1>6. ASSUME NEW f \in FramesIn(r) PROVE f \in FramesIn(q) /\ f # q[1].frame
  <2>1. PICK i \in 1..Len(r) : f = r[i].frame
    BY <1>6, <1>2 DEF FramesIn
  <2>2. f = q[i + 1].frame /\ i + 1 \in 1..Len(q) /\ i + 1 # 1
    BY <2>1, <1>3, <1>1
  <2>3. QED
    BY <2>2, <1>2, <1>4 DEF FramesIn
<1>7. q[1].frame \in FramesIn(q) /\ q[1].frame \in Frames
  BY <1>4, <1>2 DEF FramesIn, BufferType
<1>8. ASSUME NEW i \in DOMAIN r, NEW j \in DOMAIN r, r[i].frame = r[j].frame
      PROVE  i = j
  <2>1. i \in 1..Len(r) /\ j \in 1..Len(r)
    BY <1>2
  <2>2. q[i + 1].frame = q[j + 1].frame /\ i + 1 \in DOMAIN q /\ j + 1 \in DOMAIN q
    BY <2>1, <1>8, <1>3, <1>2
  <2>3. i + 1 = j + 1
    BY <2>2
  <2>4. QED
    BY <2>3, <2>1
<1>9. QED
  BY <1>1, <1>4, <1>5, <1>6, <1>7, <1>8 DEF r

\* acquire() and the assignment to rSlot->frameSlot.
LEMMA TakeAccounted ==
  ASSUME NEW list, NEW ss \in SlotArray, NEW q, NEW d,
         Accounted(list, ss, q, d), list \in [Frames -> Nat],
         NEW s \in Slots, ss[s].frame = NoFrame,
         NEW f \in Available(list), NEW slot \in SlotType, slot.frame = f
  PROVE  /\ Accounted(Taken(list, f), [ss EXCEPT ![s] = slot], q, d)
         /\ Taken(list, f) \in [Frames -> Nat]
<1>1. f \in Frames /\ list[f] = 1 /\ f \notin FramesOf(ss) \cup FramesIn(q) \cup d /\ f # NoFrame
  BY FramesAssumption DEF Accounted, Available
<1>2. Taken(list, f) = [list EXCEPT ![f] = 0]
  BY <1>1 DEF Taken
<1>3. FramesOf([ss EXCEPT ![s] = slot]) = FramesOf(ss) \cup {f}
  BY <1>1 DEF FramesOf, SlotArray
<1>4. \A t \in Slots : ss[t].frame # f
  BY <1>1 DEF FramesOf
<1>5. ASSUME NEW t \in Slots, NEW u \in Slots,
             IsOccupied([ss EXCEPT ![s] = slot][t]),
             [ss EXCEPT ![s] = slot][t].frame = [ss EXCEPT ![s] = slot][u].frame
      PROVE  t = u
  BY <1>5, <1>4 DEF Accounted, IsOccupied, SlotArray
<1>6. ASSUME NEW g \in Frames
      PROVE  Taken(list, f)[g] = IF g \in FramesOf([ss EXCEPT ![s] = slot]) \cup FramesIn(q) \cup d THEN 0 ELSE 1
  BY <1>1, <1>2, <1>3 DEF Accounted
<1>7. FramesOf([ss EXCEPT ![s] = slot]) \cap (FramesIn(q) \cup d) = {}
  BY <1>1, <1>3 DEF Accounted
<1>8. Taken(list, f) \in [Frames -> Nat]
  <2>1. [list EXCEPT ![f] = 0] \in [Frames -> Nat]
    OBVIOUS
  <2>2. QED
    BY <2>1, <1>2, Zenon
<1>9. QED
  BY <1>5, <1>6, <1>7, <1>8 DEF Accounted

\* A FrameData in a slot is destroyed (clear(), or a slot given away).
LEMMA DropAccounted ==
  ASSUME NEW list, NEW ss \in SlotArray, NEW q, NEW d,
         Accounted(list, ss, q, d), list \in [Frames -> Nat], NEW s \in Slots
  PROVE  /\ Accounted(Restored(list, {ss[s].frame}), [ss EXCEPT ![s] = EmptySlot], q, d)
         /\ Restored(list, {ss[s].frame}) \in [Frames -> Nat]
<1> DEFINE f == ss[s].frame
           rest == [ss EXCEPT ![s] = EmptySlot]
<1>1. \A t \in Slots : rest[t].frame = IF t = s THEN NoFrame ELSE ss[t].frame
  BY DEF SlotArray, EmptySlot
<1>2. FramesOf(rest) = FramesOf(ss) \ {f}
  BY <1>1 DEF FramesOf, Accounted, IsOccupied
<1>3. f # NoFrame => f \in FramesOf(ss) /\ f \in Frames
  BY DEF FramesOf, SlotArray, SlotType
<1>4. \A g \in Frames : Restored(list, {f})[g] = IF g = f THEN list[g] + 1 ELSE list[g]
  BY DEF Restored
<1>5. ASSUME NEW g \in Frames
      PROVE  Restored(list, {f})[g] = IF g \in FramesOf(rest) \cup FramesIn(q) \cup d THEN 0 ELSE 1
  <2>1. CASE g = f
    <3>1. g \in FramesOf(ss) /\ list[g] = 0 /\ g \notin FramesIn(q) \cup d
      BY <2>1, <1>3, FramesAssumption DEF Accounted
    <3>2. g \notin FramesOf(rest)
      BY <2>1, <1>2
    <3> HIDE DEF f, rest
    <3>3. Restored(list, {f})[g] = list[g] + 1
      BY <2>1, <1>4
    <3>4. QED
      BY <3>1, <3>2, <3>3
  <2>2. CASE g # f
    <3>1. Restored(list, {f})[g] = list[g] /\ (g \in FramesOf(rest) <=> g \in FramesOf(ss))
      BY <2>2, <1>2, <1>4
    <3>2. list[g] = IF g \in FramesOf(ss) \cup FramesIn(q) \cup d THEN 0 ELSE 1
      BY DEF Accounted
    <3> HIDE DEF f, rest
    <3>3. QED
      BY <3>1, <3>2
  <2>3. QED
    BY <2>1, <2>2
<1>6. \A t, u \in Slots : IsOccupied(rest[t]) /\ rest[t].frame = rest[u].frame => t = u
  BY <1>1 DEF Accounted, IsOccupied
<1>7. Restored(list, {f}) \in [Frames -> Nat]
  BY DEF Restored
<1>8. QED
  BY <1>2, <1>5, <1>6, <1>7 DEF Accounted

\* A slot's frame goes into the appsrc.
LEMMA PushAccounted ==
  ASSUME NEW list, NEW ss \in SlotArray, NEW q \in Seq(BufferType), NEW d,
         Accounted(list, ss, q, d), NEW s \in Slots, ss[s].frame \in Frames,
         NEW b \in BufferType, b.frame = ss[s].frame
  PROVE  /\ Accounted(list, [ss EXCEPT ![s] = EmptySlot], Append(q, b), d)
         /\ Append(q, b) \in Seq(BufferType)
<1> DEFINE f == ss[s].frame
           rest == [ss EXCEPT ![s] = EmptySlot]
<1>1. \A t \in Slots : rest[t].frame = IF t = s THEN NoFrame ELSE ss[t].frame
  BY DEF SlotArray, EmptySlot
<1>2. f # NoFrame /\ f \in FramesOf(ss)
  BY FramesAssumption DEF FramesOf
<1>3. FramesOf(rest) = FramesOf(ss) \ {f}
  BY <1>1, <1>2 DEF FramesOf, Accounted, IsOccupied
<1>4. f \notin FramesIn(q) /\ f \notin d
  BY <1>2 DEF Accounted
<1>5. /\ Append(q, b) \in Seq(BufferType)
      /\ FramesIn(Append(q, b)) = FramesIn(q) \cup {f}
      /\ \A i, j \in DOMAIN Append(q, b) : Append(q, b)[i].frame = Append(q, b)[j].frame => i = j
  BY <1>4, AppendFrames DEF Accounted
<1>6. \A t, u \in Slots : IsOccupied(rest[t]) /\ rest[t].frame = rest[u].frame => t = u
  BY <1>1 DEF Accounted, IsOccupied
<1>7. FramesOf(ss) \cup FramesIn(q) \cup d = FramesOf(rest) \cup FramesIn(Append(q, b)) \cup d
  BY <1>2, <1>3, <1>5
<1>8. /\ FramesOf(rest) \cap (FramesIn(Append(q, b)) \cup d) = {}
      /\ FramesIn(Append(q, b)) \cap d = {}
  <2>1. FramesOf(ss) \cap (FramesIn(q) \cup d) = {} /\ FramesIn(q) \cap d = {}
    BY DEF Accounted
  <2> HIDE DEF rest, f
  <2>2. QED
    BY <2>1, <1>3, <1>4, <1>5
<1> HIDE DEF rest
<1>9. QED
  BY <1>5, <1>6, <1>7, <1>8 DEF Accounted, rest

\* All slots are cleared when a session starts.
LEMMA ClearAccounted ==
  ASSUME NEW list, NEW ss \in SlotArray, NEW q, NEW d,
         Accounted(list, ss, q, d), list \in [Frames -> Nat]
  PROVE  /\ Accounted(Restored(list, FramesOf(ss)), [s \in Slots |-> EmptySlot], q, d)
         /\ Restored(list, FramesOf(ss)) \in [Frames -> Nat]
<1>1. FramesOf([s \in Slots |-> EmptySlot]) = {}
  BY DEF FramesOf, EmptySlot
<1>2. Restored(list, FramesOf(ss)) \in [Frames -> Nat]
  BY DEF Restored
<1>3. \A s \in Slots : ~IsOccupied([t \in Slots |-> EmptySlot][s])
  BY DEF EmptySlot, IsOccupied
<1>4. ASSUME NEW f \in Frames
      PROVE  Restored(list, FramesOf(ss))[f] = IF f \in FramesIn(q) \cup d THEN 0 ELSE 1
  <2>1. Restored(list, FramesOf(ss))[f] = IF f \in FramesOf(ss) THEN list[f] + 1 ELSE list[f]
    BY DEF Restored
  <2>2. CASE f \in FramesOf(ss)
    BY <2>1, <2>2 DEF Accounted
  <2>3. CASE f \notin FramesOf(ss)
    BY <2>1, <2>3 DEF Accounted
  <2>4. QED
    BY <2>2, <2>3
<1>5. QED
  BY <1>1, <1>2, <1>3, <1>4 DEF Accounted

\* The pipeline drops its references to the frames F, of which it holds some
\* in the queue, the others further on.
LEMMA DropsAccounted ==
  ASSUME NEW list, NEW ss, NEW q, NEW d, NEW q2, NEW d2, NEW F,
         Accounted(list, ss, q, d), list \in [Frames -> Nat],
         FramesIn(q) \cup d = FramesIn(q2) \cup d2 \cup F,
         F \cap (FramesIn(q2) \cup d2) = {},
         FramesIn(q2) \cap d2 = {},
         \A i, j \in DOMAIN q2 : q2[i].frame = q2[j].frame => i = j
  PROVE  /\ Accounted(Restored(list, F), ss, q2, d2)
         /\ Restored(list, F) \in [Frames -> Nat]
<1>1. Restored(list, F) \in [Frames -> Nat]
  BY DEF Restored
<1>2. ASSUME NEW f \in Frames
      PROVE  Restored(list, F)[f] = IF f \in FramesOf(ss) \cup FramesIn(q2) \cup d2 THEN 0 ELSE 1
  <2>1. Restored(list, F)[f] = IF f \in F THEN list[f] + 1 ELSE list[f]
    BY DEF Restored
  <2>2. CASE f \in F
    <3>1. f \in FramesIn(q) \cup d /\ list[f] = 0 /\ f \notin FramesOf(ss)
      BY <2>2 DEF Accounted
    <3>2. QED
      BY <2>1, <2>2, <3>1
  <2>3. CASE f \notin F
    BY <2>1, <2>3 DEF Accounted
  <2>4. QED
    BY <2>2, <2>3
<1>3. QED
  BY <1>1, <1>2 DEF Accounted

-----------------------------------------------------------------------------
(***************************************************************************)
(* The inductive invariant: types, accounting, and the scan's list.        *)
(***************************************************************************)

IInv == TypeOK /\ FrameOwnedOnce /\ ScanTodoOccupied

LEMMA InitIInv == Init => IInv
<1> SUFFICES ASSUME Init PROVE IInv
  OBVIOUS
<1> USE DEF Init, PoolInit, RenderInit, ReassemblyInit
<1>1. /\ 0 \in FrameIdx
      /\ SyncTimeout + 1 \in 0..(SyncTimeout + 1)
      /\ 0 \in 0..(ReassembleTimeout + 1)
  BY ReassemblyAssumption DEF FrameIdx
<1>2. EmptySlot \in SlotType
  BY <1>1 DEF EmptySlot, SlotType
<1>3. <<>> \in Seq([frame : Frames, len : Nat, bytes : [SecIdx -> Nat]]) /\ DOMAIN <<>> = {}
  OBVIOUS
<1>4. TypeOK
  BY <1>1, <1>2, <1>3, BufferLimitsAssumption DEF TypeOK, PoolTypeOK, GstStates
<1>5. FramesOf(rFrames) = {} /\ FramesIn(appsrc) = {}
  BY <1>3 DEF FramesOf, FramesIn, EmptySlot
<1>6. FrameOwnedOnce
  BY <1>3, <1>5 DEF FrameOwnedOnce, Accounted, IsOccupied, EmptySlot
<1>7. QED
  BY <1>4, <1>6 DEF IInv, ScanTodoOccupied

\* Frame indices stay in range.
LEMMA BeforeType == ASSUME NEW i \in FrameIdx PROVE Before(i) \in FrameIdx
BY ReassemblyAssumption DEF Before, FrameIdx

\* The number of bytes to copy is a natural number, whatever the datagram says.
LEMMA CopySizeNat ==
  ASSUME NEW slot \in SlotType, NEW p \in Packets
  PROVE  CopySize(slot, p) \in Nat
<1>1. /\ p.sec \in Nat /\ p.payload \in Nat /\ slot.len \in Nat
      /\ PayloadSize \in Nat /\ U32 \in Nat /\ U32 > 0
  <2>1. MaxSecPerFrame * PayloadSize \in Nat
    BY ReassemblyAssumption
  <2> QED
    BY <2>1, ReassemblyAssumption DEF PacketType, SlotType
<1>2. Offset(p.sec) \in Nat
  BY <1>1 DEF Offset
<1>3. \A i \in Int : i % U32 \in Nat
  BY <1>1
<1> QED
  BY <1>1, <1>2, <1>3 DEF CopySize

\* fill() keeps the type of a slot, its frame, its length and its index.
LEMMA FilledType ==
  ASSUME NEW slot \in SlotType, NEW p \in Packets
  PROVE  /\ Filled(slot, p) \in SlotType
         /\ Filled(slot, p).frame = slot.frame
         /\ Filled(slot, p).len = slot.len
         /\ Filled(slot, p).frameIdx = slot.frameIdx
<1> DEFINE n == CopySize(slot, p)
<1>1. n \in Nat
  BY CopySizeNat
<1> HIDE DEF n
<1> DEFINE filled == [slot EXCEPT !.secs = @ \cup {p.sec}, !.curLen = @ + n, !.bytes[p.sec] = n]
<1>2. CASE p.sec \in SecIdx
  <2>1. slot.secs \cup {p.sec} \in SUBSET SecIdx
    BY <1>2 DEF SlotType
  <2>2. slot.curLen + n \in Nat
    BY <1>1 DEF SlotType
  <2>3. [slot.bytes EXCEPT ![p.sec] = n] \in [SecIdx -> Nat]
    BY <1>1 DEF SlotType
  <2>4. /\ filled \in SlotType /\ filled.frame = slot.frame
        /\ filled.len = slot.len /\ filled.frameIdx = slot.frameIdx
    BY <2>1, <2>2, <2>3 DEF SlotType
  <2> QED
    BY <2>4 DEF Filled, n
<1>3. CASE p.sec \notin SecIdx
  BY <1>3 DEF Filled, Fillable
<1> QED
  BY <1>2, <1>3

\* findReAsmSlot returns a slot of the array.
LEMMA FindReAsmSlotType ==
  ASSUME NEW ss, NEW idx
  PROVE  FindReAsmSlot(ss, idx) \subseteq Slots
BY DEF FindReAsmSlot, First

-----------------------------------------------------------------------------
(***************************************************************************)
(* The handlers keep the inductive invariant.                              *)
(***************************************************************************)

\* tryPushFrame of the frame of slot s, which is then cleared.
LEMMA TryPushFrameAccounted ==
  ASSUME NEW list, NEW ss \in SlotArray, NEW s \in Slots, ss[s].frame \in Frames,
         list \in [Frames -> Nat], appsrc \in Seq(BufferType), lastPushSuccess \in BOOLEAN,
         Accounted(list, ss, appsrc, downstream),
         TryPushFrame(list, ss[s])
  PROVE  /\ Accounted(freeIdxList', [ss EXCEPT ![s] = EmptySlot], appsrc', downstream)
         /\ freeIdxList' \in [Frames -> Nat]
         /\ appsrc' \in Seq(BufferType)
         /\ lastPushSuccess' \in BOOLEAN
<1> DEFINE b == [frame |-> ss[s].frame, len |-> ss[s].len, bytes |-> ss[s].bytes]
<1>1. b \in BufferType /\ b.frame = ss[s].frame
  BY DEF BufferType, SlotArray, SlotType
<1>2. CASE CanPush(ss[s])
  <2>1. appsrc' = Append(appsrc, b) /\ freeIdxList' = list /\ lastPushSuccess' = TRUE
    BY <1>2 DEF TryPushFrame
  <2> HIDE DEF b
  <2>2. QED
    BY <1>1, <2>1, PushAccounted
<1>3. CASE ~CanPush(ss[s])
  <2>1. /\ freeIdxList' = Restored(list, {ss[s].frame})
        /\ appsrc' = appsrc /\ lastPushSuccess' = lastPushSuccess
    BY <1>3 DEF TryPushFrame
  <2>2. QED
    BY <2>1, DropAccounted
<1>4. QED
  BY <1>2, <1>3

\* A packet goes into a slot whose buffer is already accounted for in it.
LEMMA FillSlotAccounted ==
  ASSUME NEW list, NEW ss \in SlotArray, NEW s \in Slots, NEW p \in Packets, NEW last \in FrameIdx,
         NEW slot \in SlotType, slot.frame \in Frames,
         list \in [Frames -> Nat], appsrc \in Seq(BufferType), lastPushSuccess \in BOOLEAN,
         Accounted(list, [ss EXCEPT ![s] = slot], appsrc, downstream),
         FillSlot(p, s, slot, ss, list, last)
  PROVE  /\ Accounted(freeIdxList', rFrames', appsrc', downstream)
         /\ freeIdxList' \in [Frames -> Nat]
         /\ appsrc' \in Seq(BufferType)
         /\ lastPushSuccess' \in BOOLEAN
         /\ rFrames' \in SlotArray
         /\ lastPushedIdx' \in FrameIdx
         /\ crashed' \in BOOLEAN
<1> DEFINE filled == Filled(slot, p)
           ss2 == [ss EXCEPT ![s] = filled]
<1>1. filled \in SlotType /\ filled.frame = slot.frame
  BY FilledType
<1> HIDE DEF filled
<1>2. ss2 \in SlotArray /\ ss2[s] = filled
  BY <1>1 DEF SlotArray
<1>3. Accounted(list, ss2, appsrc, downstream)
  <2> DEFINE ss1 == [ss EXCEPT ![s] = slot]
  <2>1. \A t \in Slots : ss1[t].frame = ss2[t].frame
    BY <1>1 DEF SlotArray
  <2>2. FramesOf(ss1) = FramesOf(ss2)
    BY <2>1 DEF FramesOf
  <2> HIDE DEF ss2
  <2>3. QED
    BY <2>1, <2>2 DEF Accounted, IsOccupied
<1>4. EmptySlot \in SlotType
  BY ReassemblyAssumption DEF EmptySlot, SlotType, FrameIdx
<1> HIDE DEF ss2
<1>8. crashed' \in BOOLEAN
  BY DEF FillSlot, Overruns
<1>5. CASE filled # slot /\ IsComplete(filled)
  <2>1. /\ TryPushFrame(list, ss2[s])
        /\ lastPushedIdx' = p.idx
        /\ rFrames' = [ss2 EXCEPT ![s] = EmptySlot]
    BY <1>2, <1>5 DEF FillSlot, filled, ss2, SlotArray
  <2>2. p.idx \in FrameIdx
    BY ReassemblyAssumption DEF PacketType
  <2>3. rFrames' \in SlotArray
    BY <1>2, <1>4, <2>1 DEF SlotArray
  <2>4. QED
    BY <1>1, <1>2, <1>3, <1>8, <2>1, <2>2, <2>3, TryPushFrameAccounted
<1>6. CASE ~(filled # slot /\ IsComplete(filled))
  <2>1. /\ rFrames' = ss2
        /\ lastPushedIdx' = last
        /\ freeIdxList' = list
        /\ appsrc' = appsrc /\ lastPushSuccess' = lastPushSuccess
    BY <1>6 DEF FillSlot, filled, ss2
  <2>2. QED
    BY <1>2, <1>3, <1>8, <2>1
<1>7. QED
  BY <1>5, <1>6

\* A packet finds its slot, evicting a frame or taking a buffer if need be.
LEMMA PlacePacketAccounted ==
  ASSUME NEW list, NEW ss \in SlotArray, NEW p \in Packets, NEW last \in FrameIdx,
         list \in [Frames -> Nat], appsrc \in Seq(BufferType), lastPushSuccess \in BOOLEAN,
         crashed \in BOOLEAN,
         Accounted(list, ss, appsrc, downstream),
         PlacePacket(p, ss, list, last)
  PROVE  /\ Accounted(freeIdxList', rFrames', appsrc', downstream)
         /\ freeIdxList' \in [Frames -> Nat]
         /\ appsrc' \in Seq(BufferType)
         /\ lastPushSuccess' \in BOOLEAN
         /\ rFrames' \in SlotArray
         /\ lastPushedIdx' \in FrameIdx
         /\ crashed' \in BOOLEAN
<1>1. PICK s \in FindReAsmSlot(ss, p.idx) : PlacePacket(p, ss, list, last)!(s)
  BY DEF PlacePacket
<1>2. s \in Slots /\ ss[s] \in SlotType
  BY FindReAsmSlotType DEF SlotArray
<1>3. EmptySlot \in SlotType /\ EmptySlot.frame = NoFrame
  BY ReassemblyAssumption DEF EmptySlot, SlotType, FrameIdx
<1>4. CASE IsOccupied(ss[s]) /\ ss[s].frameIdx = p.idx
  <2>1. FillSlot(p, s, ss[s], ss, list, last)
    BY <1>1, <1>4
  <2>2. ss[s].frame \in Frames /\ [ss EXCEPT ![s] = ss[s]] = ss
    BY <1>2, <1>4 DEF IsOccupied, SlotType, SlotArray
  <2>3. QED
    BY <1>2, <2>1, <2>2, FillSlotAccounted
<1>5. CASE ~(IsOccupied(ss[s]) /\ ss[s].frameIdx = p.idx)
  <2> DEFINE list2 == Restored(list, {ss[s].frame})
             ss2 == [ss EXCEPT ![s] = EmptySlot]
  <2>1. /\ Accounted(list2, ss2, appsrc, downstream)
        /\ list2 \in [Frames -> Nat]
        /\ ss2 \in SlotArray
        /\ ss2[s].frame = NoFrame
    BY <1>2, <1>3, DropAccounted DEF SlotArray
  <2>2. CASE /\ rFrames' = ss2
             /\ freeIdxList' = list2
             /\ lastPushedIdx' = last
             /\ UNCHANGED <<appsrc, lastPushSuccess, crashed>>
    BY <2>1, <2>2
  <2>3. CASE \E f \in Available(list2) :
               FillSlot(p, s, NewSlot(f, p), ss, Taken(list2, f), last)
    <3>1. PICK f \in Available(list2) :
            FillSlot(p, s, NewSlot(f, p), ss, Taken(list2, f), last)
      BY <2>3
    <3> DEFINE slot == NewSlot(f, p)
    <3>2. f \in Frames
      BY DEF Available
    <3>3. slot \in SlotType /\ slot.frame = f
      BY <1>3, <3>2, ReassemblyAssumption DEF NewSlot, SlotType, PacketType, EmptySlot
    <3> HIDE DEF slot
    <3>4. /\ Accounted(Taken(list2, f), [ss2 EXCEPT ![s] = slot], appsrc, downstream)
          /\ Taken(list2, f) \in [Frames -> Nat]
      <4> HIDE DEF list2, ss2
      <4>1. QED
        BY <1>2, <2>1, <3>3, TakeAccounted
    <3>5. [ss2 EXCEPT ![s] = slot] = [ss EXCEPT ![s] = slot]
      BY DEF SlotArray
    <3>6. FillSlot(p, s, slot, ss, Taken(list2, f), last)
      BY <3>1 DEF slot
    <3> HIDE DEF list2
    <3>7. QED
      BY <1>2, <3>2, <3>3, <3>4, <3>5, <3>6, FillSlotAccounted
  <2>4. QED
    BY <1>1, <1>5, <2>2, <2>3
<1>6. QED
  BY <1>4, <1>5

\* A datagram is handled.
LEMMA OnPacketRecvIInv ==
  ASSUME IInv, NEW p \in Packets, OnPacketRecv(p)
  PROVE  IInv'
<1> USE DEF IInv
<1>1. scanTodo = {} /\ scanTodo' = {}
  BY DEF OnPacketRecv
<1>2. ScanTodoOccupied'
  BY <1>1 DEF ScanTodoOccupied
<1>3. InSession \in BOOLEAN
  BY DEF InSession, TypeOK
<1>4. CASE IgnorePacket(p) \/ DropLatePacket(p)
  <2>1. /\ synced' \in BOOLEAN
        /\ UNCHANGED <<freeIdxList, renderVars, rFrames, lastPushedIdx, syncAge, allowPushIncomplete, crashed>>
    BY <1>3, <1>4 DEF IgnorePacket, DropLatePacket
  <2>2. TypeOK'
    BY <1>1, <2>1 DEF TypeOK, PoolTypeOK, renderVars
  <2>3. FrameOwnedOnce'
    BY <2>1 DEF FrameOwnedOnce, renderVars
  <2>4. QED
    BY <1>2, <2>2, <2>3
<1>5. CASE AcceptPacket(p)
  <2> DEFINE cleared == [s \in Slots |-> EmptySlot]
             list2 == Restored(freeIdxList, FramesOf(rFrames))
  <2>1. /\ rFrames \in SlotArray /\ freeIdxList \in [Frames -> Nat]
        /\ appsrc \in Seq(BufferType) /\ lastPushSuccess \in BOOLEAN
        /\ lastPushedIdx \in FrameIdx /\ crashed \in BOOLEAN
        /\ Accounted(freeIdxList, rFrames, appsrc, downstream)
    BY DEF TypeOK, PoolTypeOK, SlotArray, BufferType, FrameOwnedOnce
  <2>2. /\ Accounted(list2, cleared, appsrc, downstream)
        /\ list2 \in [Frames -> Nat]
    BY <2>1, ClearAccounted
  <2>3. cleared \in SlotArray
    BY ReassemblyAssumption DEF SlotArray, EmptySlot, SlotType, FrameIdx
  <2>4. Before(p.idx) \in FrameIdx
    BY BeforeType, ReassemblyAssumption DEF PacketType
  <2>5. \/ PlacePacket(p, cleared, list2, Before(p.idx))
        \/ PlacePacket(p, rFrames, freeIdxList, lastPushedIdx)
    BY <1>5 DEF AcceptPacket
  <2> HIDE DEF cleared, list2
  <2>6. /\ Accounted(freeIdxList', rFrames', appsrc', downstream)
        /\ freeIdxList' \in [Frames -> Nat]
        /\ appsrc' \in Seq(BufferType)
        /\ lastPushSuccess' \in BOOLEAN
        /\ rFrames' \in SlotArray
        /\ lastPushedIdx' \in FrameIdx
        /\ crashed' \in BOOLEAN
    <3>1. CASE PlacePacket(p, cleared, list2, Before(p.idx))
      BY <2>1, <2>2, <2>3, <2>4, <3>1, PlacePacketAccounted
    <3>2. CASE PlacePacket(p, rFrames, freeIdxList, lastPushedIdx)
      BY <2>1, <3>2, PlacePacketAccounted
    <3>3. QED
      BY <2>5, <3>1, <3>2
  <2>7. synced' = TRUE /\ syncAge' = 0 /\ UNCHANGED <<gst, downstream, maxBufferBytes, allowPushIncomplete>>
    BY <1>5 DEF AcceptPacket
  <2>8. 0 \in 0..(SyncTimeout + 1)
    BY ReassemblyAssumption
  <2>9. TypeOK'
    BY <1>1, <2>6, <2>7, <2>8 DEF TypeOK, PoolTypeOK, SlotArray, BufferType
  <2>10. FrameOwnedOnce'
    BY <2>6, <2>7 DEF FrameOwnedOnce
  <2>11. QED
    BY <1>2, <2>9, <2>10
<1>6. QED
  BY <1>4, <1>5 DEF OnPacketRecv

\* A scan starts.
LEMMA BeginScanIInv == IInv /\ BeginScan => IInv'
<1> SUFFICES ASSUME IInv, BeginScan PROVE IInv'
  OBVIOUS
<1> USE DEF IInv, BeginScan
<1>1. InSession \in BOOLEAN
  BY DEF InSession, TypeOK
<1>2. TypeOK'
  BY <1>1 DEF TypeOK, PoolTypeOK, renderVars
<1>3. FrameOwnedOnce' /\ ScanTodoOccupied'
  BY DEF FrameOwnedOnce, ScanTodoOccupied, renderVars
<1>4. QED
  BY <1>2, <1>3

\* A timed-out slot is pushed or dropped.
LEMMA ScanSlotIInv == IInv /\ ScanSlot => IInv'
<1> SUFFICES ASSUME IInv, ScanSlot PROVE IInv'
  OBVIOUS
<1>1. PICK s \in First(scanTodo) : ScanSlot!2!(s)
  BY DEF ScanSlot
<1>2. s \in scanTodo /\ s \in Slots /\ rFrames \in SlotArray /\ rFrames[s].frame \in Frames
  BY DEF First, IInv, TypeOK, ScanTodoOccupied, IsOccupied, SlotArray, SlotType
<1>3. /\ freeIdxList \in [Frames -> Nat]
      /\ appsrc \in Seq(BufferType) /\ lastPushSuccess \in BOOLEAN
      /\ lastPushedIdx \in FrameIdx
      /\ Accounted(freeIdxList, rFrames, appsrc, downstream)
  BY DEF IInv, TypeOK, PoolTypeOK, BufferType, FrameOwnedOnce
<1>4. /\ rFrames' = [rFrames EXCEPT ![s] = EmptySlot]
      /\ scanTodo' = scanTodo \ {s}
      /\ UNCHANGED <<gst, downstream, maxBufferBytes, synced, syncAge, allowPushIncomplete, crashed>>
  BY <1>1 DEF ScanSlot
<1>5. /\ Accounted(freeIdxList', rFrames', appsrc', downstream)
      /\ freeIdxList' \in [Frames -> Nat]
      /\ appsrc' \in Seq(BufferType)
      /\ lastPushSuccess' \in BOOLEAN
      /\ lastPushedIdx' \in FrameIdx
  <2>1. CASE TryPushFrame(freeIdxList, rFrames[s]) /\ lastPushedIdx' = rFrames[s].frameIdx
    <3>1. rFrames[s].frameIdx \in FrameIdx
      BY <1>2 DEF SlotArray, SlotType
    <3>2. QED
      BY <1>2, <1>3, <1>4, <2>1, <3>1, TryPushFrameAccounted
  <2>2. CASE /\ freeIdxList' = Restored(freeIdxList, {rFrames[s].frame})
             /\ UNCHANGED <<appsrc, lastPushSuccess, lastPushedIdx>>
    BY <1>2, <1>3, <1>4, <2>2, DropAccounted
  <2>3. QED
    BY <1>1, <2>1, <2>2
<1>6. rFrames' \in SlotArray
  <2>1. EmptySlot \in SlotType
    BY ReassemblyAssumption DEF EmptySlot, SlotType, FrameIdx
  <2>2. QED
    BY <1>2, <1>4, <2>1 DEF SlotArray
<1>7. TypeOK'
  BY <1>4, <1>5, <1>6 DEF IInv, TypeOK, PoolTypeOK, SlotArray, BufferType
<1>8. FrameOwnedOnce'
  BY <1>4, <1>5 DEF FrameOwnedOnce
<1>9. ScanTodoOccupied'
  BY <1>2, <1>4 DEF IInv, ScanTodoOccupied, SlotArray
<1>10. QED
  BY <1>7, <1>8, <1>9 DEF IInv

\* Time passes.
LEMMA TickIInv == IInv /\ Tick => IInv'
<1> SUFFICES ASSUME IInv, Tick PROVE IInv'
  OBVIOUS
<1> USE DEF IInv
<1>1. \A n \in Nat : \A a \in 0..(n + 1) : Older(a, n) \in 0..(n + 1)
  BY DEF Older
<1>2. syncAge' \in 0..(SyncTimeout + 1)
  BY <1>1, ReassemblyAssumption DEF Tick, TypeOK
<1>3. \A s \in Slots : rFrames'[s] \in SlotType /\ rFrames'[s].frame = rFrames[s].frame
  <2> TAKE s \in Slots
  <2>1. rFrames[s] \in SlotType
    BY DEF TypeOK
  <2>2. Older(rFrames[s].age, ReassembleTimeout) \in 0..(ReassembleTimeout + 1)
    BY <1>1, <2>1, ReassemblyAssumption DEF SlotType
  <2>3. [rFrames[s] EXCEPT !.age = Older(@, ReassembleTimeout)] \in SlotType
    BY <2>1, <2>2 DEF SlotType
  <2>4. QED
    BY <2>1, <2>3 DEF Tick, SlotType
<1>4. rFrames' \in [Slots -> SlotType]
  BY <1>3 DEF Tick
<1>5. TypeOK'
  BY <1>2, <1>4 DEF Tick, TypeOK, PoolTypeOK, renderVars
<1>6. FramesOf(rFrames') = FramesOf(rFrames)
  BY <1>3 DEF FramesOf
<1>7. FrameOwnedOnce'
  <2>1. UNCHANGED <<freeIdxList, appsrc, downstream>>
    BY DEF Tick, renderVars
  <2>2. Accounted(freeIdxList, rFrames, appsrc, downstream)
    BY DEF FrameOwnedOnce
  <2>3. \A s, t \in Slots :
           IsOccupied(rFrames'[s]) /\ rFrames'[s].frame = rFrames'[t].frame => s = t
    BY <1>3, <2>2 DEF Accounted, IsOccupied
  <2>4. Accounted(freeIdxList, rFrames', appsrc, downstream)
    BY <1>6, <2>2, <2>3 DEF Accounted
  <2>5. QED
    BY <2>1, <2>4 DEF FrameOwnedOnce
<1>8. ScanTodoOccupied'
  BY <1>3 DEF Tick, ScanTodoOccupied, IsOccupied, TypeOK
<1>9. QED
  BY <1>5, <1>7, <1>8

\* The renderer's calls and the pipeline's own steps.
LEMMA RenderIInv == IInv /\ RenderNext /\ UNCHANGED reasmVars => IInv'
<1> SUFFICES ASSUME IInv, RenderNext, UNCHANGED reasmVars PROVE IInv'
  OBVIOUS
<1> USE DEF reasmVars
<1>1. /\ freeIdxList \in [Frames -> Nat]
      /\ appsrc \in Seq(BufferType)
      /\ downstream \subseteq Frames
      /\ Accounted(freeIdxList, rFrames, appsrc, downstream)
  BY DEF IInv, TypeOK, PoolTypeOK, BufferType, FrameOwnedOnce
<1>2. /\ \A i, j \in DOMAIN appsrc : appsrc[i].frame = appsrc[j].frame => i = j
      /\ Queued \cap downstream = {}
  BY <1>1 DEF Accounted, Queued
<1>3. <<>> \in Seq(BufferType) /\ DOMAIN <<>> = {} /\ FramesIn(<<>>) = {}
  BY DEF FramesIn
<1>4. ScanTodoOccupied'
  BY DEF IInv, ScanTodoOccupied
\* What is left to show, step by step.
<1> DEFINE Kept ==
        /\ freeIdxList' \in [Frames -> Nat]
        /\ appsrc' \in Seq(BufferType)
        /\ downstream' \subseteq Frames
        /\ Accounted(freeIdxList', rFrames, appsrc', downstream')
        /\ gst' \in GstStates /\ maxBufferBytes' \in Nat /\ lastPushSuccess' \in BOOLEAN
<1>5. Kept => IInv'
  BY <1>4 DEF IInv, TypeOK, PoolTypeOK, BufferType, FrameOwnedOnce
<1>6. gst \in GstStates /\ maxBufferBytes \in Nat /\ lastPushSuccess \in BOOLEAN
  BY DEF IInv, TypeOK
<1>7. CASE Play \/ Pause \/ SetMaxBufferBytes
  BY <1>1, <1>5, <1>6, <1>7, BufferLimitsAssumption DEF Play, Pause, SetMaxBufferBytes, GstStates
<1>8. CASE Stop \/ Restart
  <2>1. /\ freeIdxList' = Restored(freeIdxList, Queued \cup downstream)
        /\ appsrc' = <<>> /\ downstream' = {}
        /\ maxBufferBytes' = maxBufferBytes /\ lastPushSuccess' = lastPushSuccess
        /\ gst' \in GstStates
    BY <1>8 DEF Stop, Restart, DropAll, GstStates
  <2> DEFINE F == Queued \cup downstream
  <2>2. /\ FramesIn(appsrc) \cup downstream = FramesIn(<<>>) \cup {} \cup F
        /\ F \cap (FramesIn(<<>>) \cup {}) = {}
        /\ FramesIn(<<>>) \cap {} = {}
    BY <1>3 DEF Queued
  <2>3. freeIdxList' = Restored(freeIdxList, F)
    BY <2>1
  <2> HIDE DEF F
  <2>4. /\ Accounted(freeIdxList', rFrames, <<>>, {})
        /\ freeIdxList' \in [Frames -> Nat]
    BY <1>1, <1>3, <2>2, <2>3, DropsAccounted
  <2>5. QED
    BY <1>3, <1>5, <1>6, <2>1, <2>4
<1>9. CASE Flush
  <2>1. PICK dropped \in SUBSET downstream :
          /\ freeIdxList' = Restored(freeIdxList, Queued \cup dropped)
          /\ downstream' = downstream \ dropped
    BY <1>9 DEF Flush
  <2>2. appsrc' = <<>> /\ UNCHANGED <<gst, maxBufferBytes, lastPushSuccess>>
    BY <1>9 DEF Flush
  <2> DEFINE d2 == downstream \ dropped
             F == Queued \cup dropped
  <2>3. /\ FramesIn(appsrc) \cup downstream = FramesIn(<<>>) \cup d2 \cup F
        /\ F \cap (FramesIn(<<>>) \cup d2) = {}
        /\ FramesIn(<<>>) \cap d2 = {}
    BY <1>2, <1>3 DEF Queued
  <2> HIDE DEF d2, F
  <2>4. /\ Accounted(Restored(freeIdxList, F), rFrames, <<>>, d2)
        /\ Restored(freeIdxList, F) \in [Frames -> Nat]
    BY <1>1, <1>3, <2>3, DropsAccounted
  <2>5. QED
    BY <1>1, <1>3, <1>5, <1>6, <2>1, <2>2, <2>4 DEF d2, F
<1>10. CASE Consume
  <2> DEFINE f == Head(appsrc).frame
  <2>1. /\ appsrc # <<>> /\ appsrc' = Tail(appsrc) /\ downstream' = downstream \cup {f}
        /\ UNCHANGED <<freeIdxList, gst, maxBufferBytes, lastPushSuccess>>
    BY <1>10 DEF Consume
  <2>2. /\ Tail(appsrc) \in Seq(BufferType)
        /\ f \in Frames
        /\ FramesIn(appsrc) = FramesIn(Tail(appsrc)) \cup {f}
        /\ f \notin FramesIn(Tail(appsrc))
        /\ \A i, j \in DOMAIN Tail(appsrc) : Tail(appsrc)[i].frame = Tail(appsrc)[j].frame => i = j
    BY <1>1, <1>2, <2>1, TailFrames
  <2> HIDE DEF f
  <2>3. FramesIn(Tail(appsrc)) \cap downstream' = {}
    BY <1>2, <2>1, <2>2 DEF Queued
  <2>4. FramesIn(Tail(appsrc)) \cup downstream' = FramesIn(appsrc) \cup downstream
    BY <2>1, <2>2
  <2>5. Accounted(freeIdxList, rFrames, Tail(appsrc), downstream')
    BY <1>1, <2>2, <2>3, <2>4 DEF Accounted
  <2>6. QED
    BY <1>1, <1>5, <1>6, <2>1, <2>2, <2>5
<1>11. CASE \E f \in Frames : Release(f)
  <2>1. PICK f \in Frames : Release(f)
    BY <1>11
  <2>2. /\ f \in downstream /\ downstream' = downstream \ {f}
        /\ freeIdxList' = Restored(freeIdxList, {f})
        /\ UNCHANGED <<gst, appsrc, maxBufferBytes, lastPushSuccess>>
    BY <2>1 DEF Release
  <2>3. /\ FramesIn(appsrc) \cup downstream = FramesIn(appsrc) \cup downstream' \cup {f}
        /\ {f} \cap (FramesIn(appsrc) \cup downstream') = {}
        /\ FramesIn(appsrc) \cap downstream' = {}
    BY <1>2, <2>2 DEF Queued
  <2>4. /\ Accounted(Restored(freeIdxList, {f}), rFrames, appsrc, downstream')
        /\ Restored(freeIdxList, {f}) \in [Frames -> Nat]
    BY <1>1, <1>2, <2>3, DropsAccounted
  <2>5. QED
    BY <1>1, <1>5, <1>6, <2>2, <2>4
<1>12. QED
  BY <1>7, <1>8, <1>9, <1>10, <1>11 DEF RenderNext

LEMMA NextIInv == IInv /\ [Next]_vars => IInv'
<1> SUFFICES ASSUME IInv, [Next]_vars PROVE IInv'
  OBVIOUS
<1>1. CASE \E p \in Packets : OnPacketRecv(p)
  BY <1>1, OnPacketRecvIInv
<1>2. CASE BeginScan
  BY <1>2, BeginScanIInv
<1>3. CASE ScanSlot
  BY <1>3, ScanSlotIInv
<1>4. CASE RenderNext /\ UNCHANGED reasmVars
  BY <1>4, RenderIInv
<1>5. CASE AllowPushIncompleteFrames
  BY <1>5 DEF AllowPushIncompleteFrames, IInv, TypeOK, PoolTypeOK, FrameOwnedOnce,
              ScanTodoOccupied, renderVars
<1>6. CASE Tick
  BY <1>6, TickIInv
<1>7. CASE UNCHANGED vars
  BY <1>7 DEF vars, renderVars, reasmVars, IInv, TypeOK, PoolTypeOK, FrameOwnedOnce, ScanTodoOccupied
<1>8. QED
  BY <1>1, <1>2, <1>3, <1>4, <1>5, <1>6, <1>7 DEF Next, RecvThreadNext, Gone

LEMMA SpecIInv == Spec => []IInv
BY InitIInv, NextIInv, PTL DEF Spec

-----------------------------------------------------------------------------
(***************************************************************************)
(* The theorems.                                                           *)
(***************************************************************************)

\* Every variable keeps its type.
THEOREM TypeCorrect == Spec => []TypeOK
<1>1. IInv => TypeOK
  BY DEF IInv
<1>2. QED
  BY <1>1, SpecIInv, PTL

\* A buffer of the pool is in one place at any time, for any number of slots
\* and buffers: none is lost and none is written while the pipeline reads it.
THEOREM BuffersOwnedOnce == Spec => []FrameOwnedOnce
<1>1. IInv => FrameOwnedOnce
  BY DEF IInv
<1>2. QED
  BY <1>1, SpecIInv, PTL

\* The scan never meets an empty slot, whatever the other threads did since
\* it looked.
THEOREM ScanMeetsFrames == Spec => []ScanTodoOccupied
<1>1. IInv => ScanTodoOccupied
  BY DEF IInv
<1>2. QED
  BY <1>1, SpecIInv, PTL

-----------------------------------------------------------------------------
(***************************************************************************)
(* No frame is split over two slots.                                       *)
(***************************************************************************)

\* OneSlotPerFrame, of any array of slots.
Unsplit(ss) ==
    \A s, t \in Slots :
      IsOccupied(ss[s]) /\ IsOccupied(ss[t]) /\ ss[s].frameIdx = ss[t].frameIdx => s = t

\* The slot chosen for a frame holds it, or no slot does.
LEMMA ChosenSlot ==
  ASSUME NEW ss, NEW idx, NEW s \in FindReAsmSlot(ss, idx),
         ~(IsOccupied(ss[s]) /\ ss[s].frameIdx = idx),
         NEW t \in Slots, IsOccupied(ss[t])
  PROVE  ss[t].frameIdx # idx
BY DEF FindReAsmSlot, First

\* Clearing a slot splits nothing.
LEMMA ClearUnsplit ==
  ASSUME NEW ss \in SlotArray, NEW s \in Slots, Unsplit(ss)
  PROVE  Unsplit([ss EXCEPT ![s] = EmptySlot])
BY DEF Unsplit, SlotArray, EmptySlot, IsOccupied

\* A packet filled into the only slot of its frame leaves it so.
LEMMA FillSlotUnsplit ==
  ASSUME NEW list, NEW ss \in SlotArray, NEW s \in Slots, NEW p \in Packets, NEW last,
         NEW slot \in SlotType, Unsplit([ss EXCEPT ![s] = slot]),
         FillSlot(p, s, slot, ss, list, last)
  PROVE  Unsplit(rFrames')
<1> DEFINE filled == Filled(slot, p)
<1>1. filled.frame = slot.frame /\ filled.frameIdx = slot.frameIdx
  BY DEF Filled, SlotType
<1>2. rFrames' = [ss EXCEPT ![s] = EmptySlot] \/ rFrames' = [ss EXCEPT ![s] = filled]
  BY DEF FillSlot
<1> HIDE DEF filled
<1>3. CASE rFrames' = [ss EXCEPT ![s] = EmptySlot]
  BY <1>3 DEF Unsplit, SlotArray, EmptySlot, IsOccupied
<1>4. CASE rFrames' = [ss EXCEPT ![s] = filled]
  BY <1>1, <1>4 DEF Unsplit, SlotArray, IsOccupied
<1>5. QED
  BY <1>2, <1>3, <1>4

LEMMA PlacePacketUnsplit ==
  ASSUME NEW list, NEW ss \in SlotArray, NEW p \in Packets, NEW last,
         Unsplit(ss), PlacePacket(p, ss, list, last)
  PROVE  Unsplit(rFrames')
<1>1. PICK s \in FindReAsmSlot(ss, p.idx) : PlacePacket(p, ss, list, last)!(s)
  BY DEF PlacePacket
<1>2. s \in Slots /\ ss[s] \in SlotType
  BY FindReAsmSlotType DEF SlotArray
<1>3. CASE IsOccupied(ss[s]) /\ ss[s].frameIdx = p.idx
  <2>1. [ss EXCEPT ![s] = ss[s]] = ss
    BY <1>2 DEF SlotArray
  <2>2. QED
    BY <1>1, <1>2, <1>3, <2>1, FillSlotUnsplit
<1>4. CASE ~(IsOccupied(ss[s]) /\ ss[s].frameIdx = p.idx)
  <2>1. \A t \in Slots : IsOccupied(ss[t]) => ss[t].frameIdx # p.idx
    BY <1>4, ChosenSlot
  <2>2. CASE rFrames' = [ss EXCEPT ![s] = EmptySlot]
    BY <1>2, <2>2, ClearUnsplit
  <2>3. CASE \E f \in Frames : \E list2 : FillSlot(p, s, NewSlot(f, p), ss, list2, last)
    <3>0. PICK f \in Frames : \E list2 : FillSlot(p, s, NewSlot(f, p), ss, list2, last)
      BY <2>3
    <3>1. PICK list2 : FillSlot(p, s, NewSlot(f, p), ss, list2, last)
      BY <3>0
    <3> DEFINE slot == NewSlot(f, p)
    <3>2. slot \in SlotType /\ slot.frameIdx = p.idx
      <4>1. EmptySlot \in SlotType
        BY ReassemblyAssumption DEF EmptySlot, SlotType, FrameIdx
      <4>2. QED
        BY <4>1, ReassemblyAssumption DEF NewSlot, SlotType, PacketType, EmptySlot
    <3>3. FillSlot(p, s, slot, ss, list2, last)
      BY <3>1
    <3> HIDE DEF slot
    <3>4. Unsplit([ss EXCEPT ![s] = slot])
      BY <1>2, <2>1, <3>2 DEF Unsplit, SlotArray
    <3>5. QED
      BY <1>2, <3>2, <3>3, <3>4, FillSlotUnsplit
  <2>4. QED
    BY <1>1, <1>4, <2>2, <2>3 DEF Available
<1>5. QED
  BY <1>3, <1>4

LEMMA NextUnsplit == IInv /\ OneSlotPerFrame /\ [Next]_vars => OneSlotPerFrame'
<1> SUFFICES ASSUME IInv, OneSlotPerFrame, [Next]_vars PROVE Unsplit(rFrames')
  BY DEF OneSlotPerFrame, Unsplit
<1>1. rFrames \in SlotArray /\ Unsplit(rFrames)
  BY DEF IInv, TypeOK, SlotArray, OneSlotPerFrame, Unsplit
<1>2. CASE \E p \in Packets : AcceptPacket(p)
  <2>1. PICK p \in Packets : AcceptPacket(p)
    BY <1>2
  <2> DEFINE cleared == [s \in Slots |-> EmptySlot]
  <2>2. cleared \in SlotArray /\ Unsplit(cleared)
    BY ReassemblyAssumption DEF SlotArray, EmptySlot, SlotType, FrameIdx, Unsplit, IsOccupied
  <2> HIDE DEF cleared
  <2>3. \E list, last :
          PlacePacket(p, cleared, list, last) \/ PlacePacket(p, rFrames, list, last)
    BY <2>1 DEF AcceptPacket, cleared
  <2>4. QED
    BY <1>1, <2>2, <2>3, PlacePacketUnsplit
<1>3. CASE ScanSlot
  <2>1. PICK s \in First(scanTodo) : rFrames' = [rFrames EXCEPT ![s] = EmptySlot]
    BY <1>3 DEF ScanSlot
  <2>2. s \in Slots
    BY DEF First, IInv, TypeOK
  <2>3. QED
    BY <1>1, <2>1, <2>2, ClearUnsplit
<1>4. CASE Tick
  <2>1. \A s \in Slots : rFrames'[s].frame = rFrames[s].frame /\ rFrames'[s].frameIdx = rFrames[s].frameIdx
    BY <1>1, <1>4 DEF Tick, SlotArray, SlotType
  <2>2. QED
    BY <1>1, <2>1 DEF Unsplit, IsOccupied
<1>5. CASE rFrames' = rFrames
  BY <1>1, <1>5
<1>6. QED
  BY <1>2, <1>3, <1>4, <1>5
     DEF Next, RecvThreadNext, OnPacketRecv, IgnorePacket, DropLatePacket, BeginScan,
         AllowPushIncompleteFrames, Gone, vars, reasmVars

\* Two slots never collect the same frame.
THEOREM FramesNotSplit == Spec => []OneSlotPerFrame
<1>1. Init => OneSlotPerFrame
  BY DEF Init, ReassemblyInit, OneSlotPerFrame, IsOccupied, EmptySlot
<1>2. QED
  BY <1>1, NextUnsplit, SpecIInv, PTL DEF Spec

-----------------------------------------------------------------------------
(***************************************************************************)
(* Indices that wrap around.                                               *)
(***************************************************************************)

\* A remainder is told by its range.
LEMMA RemainderIsUnique ==
  ASSUME NEW m \in Nat \ {0}, NEW x \in Int, NEW k \in Int, NEW r \in 0..(m - 1), x = m * k + r
  PROVE  x % m = r
<1> DEFINE q == x \div m
           s == x % m
           d == k - q
<1>1. q \in Int /\ s \in 0..(m - 1) /\ x = m * q + s
  OBVIOUS
<1> HIDE DEF q, s
<1>2. d \in Int /\ k = q + d
  BY <1>1
<1> HIDE DEF d
<1>3. m * k = m * q + m * d /\ m * q \in Int /\ m * d \in Int
  BY <1>1, <1>2
<1>4. m * d = s - r
  BY <1>1, <1>3
<1>5. CASE d = 0
  <2>1. s = r
    BY <1>1, <1>4, <1>5
  <2> QED
    BY <2>1 DEF s
<1>6. CASE d >= 1
  <2>1. m * d = m + m * (d - 1) /\ m * (d - 1) \in Nat
    BY <1>2, <1>6
  <2> QED
    BY <1>1, <1>4, <2>1
<1>7. CASE d <= -1
  <2>1. m * (-d - 1) \in Nat /\ m * d = -(m + m * (-d - 1))
    BY <1>2, <1>7
  <2> QED
    BY <1>1, <1>4, <2>1
<1> QED
  BY <1>2, <1>5, <1>6, <1>7

\* The comparison of two indices gives the distance of the frames they stand for,
\* however often the 16 bits wrapped around, as long as the frames are less than
\* half of the indices apart.
THEOREM DiffIsDistance ==
  ASSUME NEW a \in Int, NEW b \in Int, -IdxMod <= 2 * (a - b), 2 * (a - b) < IdxMod
  PROVE  Diff(a % IdxMod, b % IdxMod) = a - b
<1> DEFINE m == IdxMod
           u == a % m
           v == b % m
           i == a \div m
           j == b \div m
           d == (u - v) % m
<1>1. m \in Nat \ {0}
  BY ReassemblyAssumption
<1>2. -m <= 2 * (a - b) /\ 2 * (a - b) < m
  OBVIOUS
<1>3. Diff(u, v) = IF 2 * d >= m THEN d - m ELSE d
  BY DEF Diff
<1> HIDE DEF m
<1>4. i \in Int /\ u \in Int /\ a = m * i + u /\ j \in Int /\ v \in Int /\ b = m * j + v
  BY <1>1
<1> HIDE DEF u, v, i, j
<1>5. m * i \in Int /\ m * j \in Int
  BY <1>1, <1>4
<1>6. CASE a >= b
  <2>1. m * (j - i) = m * j - m * i /\ j - i \in Int
    BY <1>1, <1>4
  <2>2. u - v = m * (j - i) + (a - b)
    BY <1>4, <1>5, <2>1
  <2>3. a - b \in 0..(m - 1) /\ u - v \in Int
    BY <1>1, <1>2, <1>4, <1>6
  <2>4. d = a - b
    BY <1>1, <2>1, <2>2, <2>3, RemainderIsUnique
  <2> HIDE DEF d
  <2> QED
    BY <1>1, <1>2, <1>3, <2>3, <2>4 DEF u, v, m
<1>7. CASE a < b
  <2>1. m * (j - i - 1) = m * j - m * i - m /\ j - i - 1 \in Int
    BY <1>1, <1>4
  <2>2. u - v = m * (j - i - 1) + (a - b + m)
    BY <1>1, <1>4, <1>5, <2>1
  <2>3. a - b + m \in 0..(m - 1) /\ u - v \in Int
    BY <1>1, <1>2, <1>4, <1>7
  <2>4. d = a - b + m
    BY <1>1, <2>1, <2>2, <2>3, RemainderIsUnique
  <2> HIDE DEF d
  <2> QED
    BY <1>1, <1>2, <1>3, <1>7, <2>3, <2>4 DEF u, v, m
<1> QED
  BY <1>6, <1>7 DEF u, v, m

-----------------------------------------------------------------------------
(***************************************************************************)
(* The picture does not go backwards.                                      *)
(***************************************************************************)

\* What FeedMovesForward says of a step.
MovesForward ==
    Len(appsrc') > Len(appsrc)
      => \/ Diff(lastPushedIdx', lastPushedIdx) > 0
         \/ ~InSession
         \/ Diff(lastPushedIdx', lastPushedIdx) < -MaxIdxLag

\* Only a frame's last packet is pushed, with the index of that packet.
LEMMA PlacePacketPushes ==
  ASSUME NEW list, NEW ss, NEW p, NEW last, PlacePacket(p, ss, list, last)
  PROVE  appsrc' = appsrc \/ lastPushedIdx' = p.idx
BY DEF PlacePacket, FillSlot

LEMMA StepMovesForward == IInv /\ [Next]_vars => MovesForward
<1> SUFFICES ASSUME IInv, [Next]_vars, Len(appsrc') > Len(appsrc)
             PROVE  MovesForward
  BY DEF MovesForward
<1>1. Len(appsrc) \in Nat /\ appsrc' # appsrc
  BY DEF IInv, TypeOK
<1>2. CASE \E p \in Packets : OnPacketRecv(p)
  <2>1. PICK p \in Packets : AcceptPacket(p)
    BY <1>1, <1>2 DEF OnPacketRecv, IgnorePacket, DropLatePacket, renderVars
  <2>2. lastPushedIdx' = p.idx
    BY <1>1, <2>1, PlacePacketPushes DEF AcceptPacket
  <2>3. StartsSession(p) \/ Diff(p.idx, lastPushedIdx) > 0
    BY <2>1 DEF AcceptPacket
  <2>4. QED
    BY <2>2, <2>3 DEF StartsSession, MovesForward
<1>3. CASE ScanSlot
  <2>1. PICK s \in First(scanTodo) :
          IsAfter(rFrames[s].frameIdx, lastPushedIdx) /\ lastPushedIdx' = rFrames[s].frameIdx
    BY <1>1, <1>3 DEF ScanSlot
  <2>2. QED
    BY <2>1 DEF IsAfter, MovesForward
<1>4. CASE RenderNext
  <2>1. appsrc' = <<>> \/ (appsrc # <<>> /\ appsrc' = Tail(appsrc))
    BY <1>1, <1>4 DEF RenderNext, Play, Pause, Stop, Restart, DropAll, Flush, SetMaxBufferBytes,
                     Consume, Release
  <2>2. Len(appsrc') <= Len(appsrc)
    BY <2>1 DEF IInv, TypeOK
  <2>3. QED
    BY <1>1, <2>2
<1>5. QED
  BY <1>1, <1>2, <1>3, <1>4
     DEF Next, RecvThreadNext, BeginScan, AllowPushIncompleteFrames, Tick, Gone, renderVars, vars

\* Whatever is lost, duplicated or late, frames are pushed in the order of
\* their indices until a new session starts.
THEOREM PictureMovesForward == Spec => FeedMovesForward
<1>1. IInv /\ [Next]_vars => [MovesForward]_vars
  BY StepMovesForward
<1>2. Spec => [][MovesForward]_vars
  BY <1>1, SpecIInv, PTL DEF Spec
<1>3. QED
  BY <1>2 DEF FeedMovesForward, MovesForward

-----------------------------------------------------------------------------
(***************************************************************************)
(* The pool runs dry only if the pipeline holds all but NumSlots buffers.  *)
(***************************************************************************)

LEMMA SlotsFinite == IsFiniteSet(Slots) /\ Cardinality(Slots) = NumSlots
<1>1. NumSlots \in Nat \ {0} /\ 1 \in Int /\ NumSlots \in Int
  BY ReassemblyAssumption
<1>2. IsFiniteSet(1..NumSlots) /\ Cardinality(1..NumSlots) = IF 1 > NumSlots THEN 0 ELSE NumSlots - 1 + 1
  BY <1>1, FS_Interval, Zenon
<1>3. QED
  BY <1>1, <1>2 DEF Slots

\* A set of frames that slots hold, a slot each, is no larger than the array.
LEMMA FramesOfFinite ==
  ASSUME NEW ss \in SlotArray
  PROVE  IsFiniteSet(FramesOf(ss)) /\ Cardinality(FramesOf(ss)) <= NumSlots
<1> DEFINE used == {s \in Slots : ss[s].frame # NoFrame}
           g == [f \in FramesOf(ss) |-> CHOOSE s \in used : ss[s].frame = f]
<1>1. IsFiniteSet(used) /\ Cardinality(used) <= NumSlots
  BY SlotsFinite, FS_Subset
<1>2. \A f \in FramesOf(ss) : g[f] \in used /\ ss[g[f]].frame = f
  BY DEF FramesOf
<1> HIDE DEF g
<1>3. g \in [FramesOf(ss) -> used]
  BY <1>2 DEF g
<1>4. g \in Injection(FramesOf(ss), used)
  BY <1>2, <1>3 DEF Injection, IsInjective
<1> HIDE DEF used
<1>5. IsFiniteSet(FramesOf(ss)) /\ Cardinality(FramesOf(ss)) <= Cardinality(used)
  BY <1>1, <1>4, FS_Injection
<1>6. Cardinality(used) \in Nat /\ Cardinality(FramesOf(ss)) \in Nat
  BY <1>1, <1>5, FS_CardinalityType
<1>7. QED
  BY <1>1, <1>5, <1>6, ReassemblyAssumption

\* The reassembler alone cannot exhaust the pool.
THEOREM PoolDriedByPipeline == Spec => []PoolDryOnlyByPipeline
<1>1. IInv => PoolDryOnlyByPipeline
  <2> SUFFICES ASSUME IInv, Available(freeIdxList) = {}
               PROVE  Cardinality(Queued \cup downstream) + NumSlots >= Cardinality(Frames)
    BY DEF PoolDryOnlyByPipeline
  <2> DEFINE pipe == Queued \cup downstream
  <2>1. rFrames \in SlotArray /\ FramesOf(rFrames) \subseteq Frames
    BY DEF IInv, TypeOK, SlotArray, SlotType, FramesOf
  <2>2. pipe \subseteq Frames
    <3>1. \A i \in DOMAIN appsrc : appsrc[i].frame \in Frames
      <4>1. appsrc \in Seq(BufferType)
        BY DEF IInv, TypeOK, BufferType
      <4>2. \A i \in DOMAIN appsrc : appsrc[i] \in BufferType
        BY <4>1
      <4>3. QED
        BY <4>2 DEF BufferType
    <3>2. QED
      BY <3>1 DEF IInv, TypeOK, Queued, FramesIn
  <2>3. Frames \subseteq FramesOf(rFrames) \cup pipe
    <3>1. \A f \in Frames : ~(freeIdxList[f] > 0)
      BY DEF Available
    <3>2. \A f \in Frames :
            freeIdxList[f] = IF f \in FramesOf(rFrames) \cup FramesIn(appsrc) \cup downstream THEN 0 ELSE 1
      BY DEF IInv, FrameOwnedOnce, Accounted
    <3>3. QED
      BY <3>1, <3>2 DEF Queued
  <2>4. IsFiniteSet(pipe) /\ IsFiniteSet(Frames)
    BY <2>2, FramesAssumption, FS_Subset
  <2>5. IsFiniteSet(FramesOf(rFrames)) /\ Cardinality(FramesOf(rFrames)) <= NumSlots
    BY <2>1, FramesOfFinite
  <2> HIDE DEF pipe
  <2>6. Frames = FramesOf(rFrames) \cup pipe
    BY <2>1, <2>2, <2>3
  <2>7. Cardinality(Frames) =
          Cardinality(FramesOf(rFrames)) + Cardinality(pipe) - Cardinality(FramesOf(rFrames) \cap pipe)
    BY <2>4, <2>5, <2>6, FS_Union
  <2>8. /\ Cardinality(FramesOf(rFrames)) \in Nat /\ Cardinality(pipe) \in Nat
        /\ Cardinality(FramesOf(rFrames) \cap pipe) \in Nat
    <3>1. IsFiniteSet(FramesOf(rFrames) \cap pipe)
      BY <2>4, FS_Subset
    <3>2. QED
      BY <2>4, <2>5, <3>1, FS_CardinalityType
  <2>9. Cardinality(pipe) + NumSlots >= Cardinality(Frames)
    BY <2>5, <2>7, <2>8, ReassemblyAssumption
  <2>10. QED
    BY <2>9 DEF pipe
<1>2. QED
  BY <1>1, SpecIInv, PTL

-----------------------------------------------------------------------------
(***************************************************************************)
(* Reassembly implements FrameOwnership.                                   *)
(***************************************************************************)

Pipe == FramesIn(appsrc) \cup downstream

\* What a step of the receive thread does with the buffers: the pipeline
\* keeps what it has, and at most one buffer, f, goes to the slots or the
\* pipeline without having been there.
Moves(f) ==
    /\ downstream' = downstream
    /\ FramesIn(appsrc) \subseteq FramesIn(appsrc')
    /\ FramesOf(rFrames') \cup FramesIn(appsrc')
         \subseteq FramesOf(rFrames) \cup FramesIn(appsrc) \cup {f}
    /\ \A g, h \in FramesIn(appsrc') \ FramesIn(appsrc) : g = h

\* tryPushFrame adds the frame it is given to the queue, or nothing.
LEMMA TryPushFrameMoves ==
  ASSUME NEW list, NEW slot \in SlotType, slot.frame \in Frames, appsrc \in Seq(BufferType),
         TryPushFrame(list, slot)
  PROVE  /\ FramesIn(appsrc) \subseteq FramesIn(appsrc')
         /\ FramesIn(appsrc') \subseteq FramesIn(appsrc) \cup {slot.frame}
<1> DEFINE b == [frame |-> slot.frame, len |-> slot.len, bytes |-> slot.bytes]
<1>1. b \in BufferType /\ b.frame = slot.frame
  BY DEF BufferType, SlotType
<1>2. appsrc' = Append(appsrc, b) \/ appsrc' = appsrc
  BY DEF TryPushFrame
<1> HIDE DEF b
<1>3. QED
  BY <1>1, <1>2, AppendFrames

LEMMA FillSlotMoves ==
  ASSUME NEW list, NEW ss \in SlotArray, NEW s \in Slots, NEW p \in Packets, NEW last,
         NEW slot \in SlotType, slot.frame \in Frames, appsrc \in Seq(BufferType),
         FillSlot(p, s, slot, ss, list, last)
  PROVE  /\ FramesIn(appsrc) \subseteq FramesIn(appsrc')
         /\ FramesIn(appsrc') \subseteq FramesIn(appsrc) \cup {slot.frame}
         /\ FramesOf(rFrames') \subseteq FramesOf(ss) \cup {slot.frame}
<1> DEFINE filled == Filled(slot, p)
<1>1. filled \in SlotType /\ filled.frame = slot.frame
  BY FilledType
<1>2. \/ TryPushFrame(list, filled) /\ rFrames' = [ss EXCEPT ![s] = EmptySlot]
      \/ appsrc' = appsrc /\ rFrames' = [ss EXCEPT ![s] = filled]
  BY DEF FillSlot
<1> HIDE DEF filled
<1>3. \A x \in {EmptySlot, filled} :
        FramesOf([ss EXCEPT ![s] = x]) \subseteq FramesOf(ss) \cup {slot.frame}
  BY <1>1 DEF FramesOf, SlotArray, EmptySlot
<1>4. CASE TryPushFrame(list, filled) /\ rFrames' = [ss EXCEPT ![s] = EmptySlot]
  BY <1>1, <1>3, <1>4, TryPushFrameMoves
<1>5. CASE appsrc' = appsrc /\ rFrames' = [ss EXCEPT ![s] = filled]
  BY <1>3, <1>5
<1>6. QED
  BY <1>2, <1>4, <1>5

LEMMA PlacePacketMoves ==
  ASSUME NEW list, NEW ss \in SlotArray, NEW p \in Packets, NEW last,
         appsrc \in Seq(BufferType), PlacePacket(p, ss, list, last)
  PROVE  \E f : /\ FramesIn(appsrc) \subseteq FramesIn(appsrc')
                /\ FramesIn(appsrc') \subseteq FramesIn(appsrc) \cup {f}
                /\ FramesOf(rFrames') \subseteq FramesOf(ss) \cup {f}
<1>1. PICK s \in FindReAsmSlot(ss, p.idx) : PlacePacket(p, ss, list, last)!(s)
  BY DEF PlacePacket
<1>2. s \in Slots /\ ss[s] \in SlotType
  BY FindReAsmSlotType DEF SlotArray
<1>3. CASE IsOccupied(ss[s]) /\ ss[s].frameIdx = p.idx
  <2>1. ss[s].frame \in Frames
    BY <1>2, <1>3 DEF IsOccupied, SlotType
  <2>2. QED
    BY <1>1, <1>2, <1>3, <2>1, FillSlotMoves
<1>4. CASE /\ rFrames' = [ss EXCEPT ![s] = EmptySlot]
           /\ UNCHANGED <<appsrc, lastPushSuccess>>
  <2>1. FramesOf(rFrames') \subseteq FramesOf(ss)
    BY <1>2, <1>4 DEF FramesOf, SlotArray, EmptySlot
  <2>2. QED
    BY <1>4, <2>1
<1>5. CASE \E f \in Frames : \E list2 : FillSlot(p, s, NewSlot(f, p), ss, list2, last)
  <2>0. PICK f \in Frames : \E list2 : FillSlot(p, s, NewSlot(f, p), ss, list2, last)
    BY <1>5
  <2>1. PICK list2 : FillSlot(p, s, NewSlot(f, p), ss, list2, last)
    BY <2>0
  <2> DEFINE slot == NewSlot(f, p)
  <2>2. slot \in SlotType /\ slot.frame = f
    <3>1. EmptySlot \in SlotType
      BY ReassemblyAssumption DEF EmptySlot, SlotType, FrameIdx
    <3>2. QED
      BY <3>1, ReassemblyAssumption DEF NewSlot, SlotType, PacketType, EmptySlot
  <2>3. FillSlot(p, s, slot, ss, list2, last)
    BY <2>1
  <2> HIDE DEF slot
  <2>4. QED
    BY <1>2, <2>2, <2>3, FillSlotMoves
<1>6. QED
  BY <1>1, <1>3, <1>4, <1>5 DEF Available

LEMMA RecvMoves ==
  ASSUME IInv, RecvThreadNext
  PROVE  \E f : Moves(f)
<1>1. rFrames \in SlotArray /\ appsrc \in Seq(BufferType)
  BY DEF IInv, TypeOK, SlotArray, BufferType
<1>2. CASE \E p \in Packets : AcceptPacket(p)
  <2>1. PICK p \in Packets : AcceptPacket(p)
    BY <1>2
  <2> DEFINE cleared == [s \in Slots |-> EmptySlot]
  <2>2. cleared \in SlotArray /\ FramesOf(cleared) = {}
    BY ReassemblyAssumption DEF SlotArray, EmptySlot, SlotType, FrameIdx, FramesOf
  <2> HIDE DEF cleared
  <2>3. downstream' = downstream
    BY <2>1 DEF AcceptPacket
  <2>4. \E list, last :
          PlacePacket(p, cleared, list, last) \/ PlacePacket(p, rFrames, list, last)
    BY <2>1 DEF AcceptPacket, cleared
  <2>5. \E f : /\ FramesIn(appsrc) \subseteq FramesIn(appsrc')
               /\ FramesIn(appsrc') \subseteq FramesIn(appsrc) \cup {f}
               /\ FramesOf(rFrames') \subseteq FramesOf(rFrames) \cup {f}
    BY <1>1, <2>2, <2>4, PlacePacketMoves
  <2>6. QED
    BY <2>3, <2>5 DEF Moves
<1>3. CASE ScanSlot
  <2>1. PICK s \in First(scanTodo) :
          /\ rFrames' = [rFrames EXCEPT ![s] = EmptySlot]
          /\ TryPushFrame(freeIdxList, rFrames[s]) \/ appsrc' = appsrc
    BY <1>3 DEF ScanSlot
  <2>2. s \in Slots /\ rFrames[s] \in SlotType /\ rFrames[s].frame \in Frames
    BY <1>1 DEF First, IInv, TypeOK, ScanTodoOccupied, IsOccupied, SlotArray, SlotType
  <2>3. FramesOf(rFrames') \subseteq FramesOf(rFrames) /\ rFrames[s].frame \in FramesOf(rFrames)
    BY <1>1, <2>1, <2>2, FramesAssumption DEF FramesOf, SlotArray, EmptySlot
  <2>4. /\ FramesIn(appsrc) \subseteq FramesIn(appsrc')
        /\ FramesIn(appsrc') \subseteq FramesIn(appsrc) \cup {rFrames[s].frame}
    BY <1>1, <2>1, <2>2, TryPushFrameMoves
  <2>5. downstream' = downstream
    BY <1>3 DEF ScanSlot
  <2>6. QED
    BY <2>3, <2>4, <2>5 DEF Moves
<1>4. CASE UNCHANGED <<renderVars, rFrames>>
  BY <1>4 DEF Moves, renderVars
<1>5. QED
  BY <1>2, <1>3, <1>4
     DEF RecvThreadNext, OnPacketRecv, IgnorePacket, DropLatePacket, BeginScan

\* Who owns a buffer, by where it is.
LEMMA OwnerIs ==
  ASSUME NEW f \in Frames
  PROVE  /\ owner[f] = "pipeline" <=> f \in Pipe /\ f \notin FramesOf(rFrames)
         /\ owner[f] = "reassembly" <=> f \in FramesOf(rFrames)
         /\ owner[f] = "pool" <=> f \notin FramesOf(rFrames) \cup Pipe
BY DEF owner, Pipe, Queued, InSlots

LEMMA MoveRefines ==
  ASSUME FrameOwnedOnce, FrameOwnedOnce', NEW f, Moves(f)
  PROVE  Ownership!Reassemble
<1> DEFINE old(g) == owner[g]
           new(g) == owner'[g]
           dropped == {g \in Frames : old(g) = "reassembly" /\ new(g) = "pool"}
           taken   == {g \in Frames : old(g) = "pool" /\ new(g) # "pool"}
           pushed  == {g \in Frames : old(g) # "pipeline" /\ new(g) = "pipeline"}
<1>1. owner = [g \in Frames |-> old(g)] /\ owner' = [g \in Frames |-> new(g)]
  BY DEF owner
<1>2. \A g \in Frames : /\ old(g) \in {"pool", "reassembly", "pipeline"}
                        /\ new(g) \in {"pool", "reassembly", "pipeline"}
  BY DEF owner
<1>3. ASSUME NEW g \in Frames
      PROVE  /\ old(g) = "pipeline" <=> g \in Pipe /\ g \notin FramesOf(rFrames)
             /\ old(g) = "reassembly" <=> g \in FramesOf(rFrames)
             /\ old(g) = "pool" <=> g \notin FramesOf(rFrames) \cup Pipe
             /\ new(g) = "pipeline" <=> g \in Pipe' /\ g \notin FramesOf(rFrames')
             /\ new(g) = "reassembly" <=> g \in FramesOf(rFrames')
             /\ new(g) = "pool" <=> g \notin FramesOf(rFrames') \cup Pipe'
  BY DEF owner, Pipe, Queued, InSlots
<1>4. /\ FramesOf(rFrames) \cap Pipe = {} /\ FramesOf(rFrames') \cap Pipe' = {}
      /\ Pipe \subseteq Pipe'
  BY DEF FrameOwnedOnce, Accounted, Moves, Pipe
<1> HIDE DEF old, new
<1>5. \A g \in Frames : old(g) = "pipeline" => new(g) = "pipeline"
  BY <1>3, <1>4
<1>6. \A g, h \in taken : g = h
  BY <1>2, <1>3 DEF Moves, Pipe
<1>7. \A g, h \in pushed : g = h
  BY <1>3, <1>4 DEF Moves, Pipe
<1>8. /\ dropped \in SUBSET Ownership!OwnedBy("reassembly")
      /\ taken \in SUBSET (Ownership!OwnedBy("pool") \cup dropped)
      /\ pushed \in SUBSET ((Ownership!OwnedBy("reassembly") \ dropped) \cup taken)
  BY <1>1, <1>2 DEF Ownership!OwnedBy
<1>9. \A g \in Frames :
        new(g) = CASE g \in pushed -> "pipeline"
                   [] g \in taken \ pushed -> "reassembly"
                   [] g \in dropped \ taken -> "pool"
                   [] OTHER -> old(g)
  BY <1>2, <1>5
<1>10. owner' = [g \in Frames |-> CASE g \in pushed -> "pipeline"
                   [] g \in taken \ pushed -> "reassembly"
                   [] g \in dropped \ taken -> "pool"
                   [] OTHER -> owner[g]]
  BY <1>1, <1>9
<1> HIDE DEF dropped, taken, pushed
<1>11. QED
  BY <1>6, <1>7, <1>8, <1>10 DEF Ownership!Reassemble

\* The pipeline only ever gives buffers back to the pool.
LEMMA RenderRefines ==
  ASSUME IInv, IInv', RenderNext, UNCHANGED reasmVars
  PROVE  Ownership!PipelineDrops
<1>1. rFrames' = rFrames
  BY DEF reasmVars
<1>2. Pipe' \subseteq Pipe
  <2>1. appsrc \in Seq(BufferType) /\ FramesIn(<<>>) = {}
    BY DEF IInv, TypeOK, BufferType, FramesIn
  <2>2. CASE Consume
    <3>1. appsrc # <<>> /\ appsrc' = Tail(appsrc) /\ downstream' = downstream \cup {Head(appsrc).frame}
      BY <2>2 DEF Consume
    <3>2. FramesIn(appsrc) = FramesIn(Tail(appsrc)) \cup {Head(appsrc).frame}
      BY <2>1, <3>1, TailFrames DEF IInv, FrameOwnedOnce, Accounted
    <3>3. QED
      BY <3>1, <3>2 DEF Pipe
  <2>3. CASE ~Consume
    <3>1. (appsrc' = appsrc \/ appsrc' = <<>>) /\ downstream' \subseteq downstream
      BY <2>3 DEF RenderNext, Play, Pause, Stop, Restart, DropAll, Flush, SetMaxBufferBytes, Release
    <3>2. QED
      BY <2>1, <3>1 DEF Pipe
  <2>4. QED
    BY <2>2, <2>3
<1>3. FramesOf(rFrames) \cap Pipe = {}
  BY DEF IInv, FrameOwnedOnce, Accounted, Pipe
<1> DEFINE F == {f \in Frames : f \in Pipe /\ f \notin Pipe'}
<1>4. F \in SUBSET Ownership!OwnedBy("pipeline")
  BY <1>3 DEF Ownership!OwnedBy, owner, Pipe, Queued, InSlots
<1>5. owner' = [f \in Frames |-> IF f \in F THEN "pool" ELSE owner[f]]
  BY <1>1, <1>2, <1>3 DEF owner, Pipe, Queued, InSlots
<1> HIDE DEF F
<1>6. QED
  BY <1>4, <1>5 DEF Ownership!PipelineDrops, Ownership!Give

\* Every step of the reassembler, the renderer and the pipeline is a step of
\* FrameOwnership or leaves the owners alone.
THEOREM ImplementsOwnership == Spec => FramesHaveOneOwner
<1>1. Init => Ownership!Init
  <2> SUFFICES ASSUME Init PROVE owner = [f \in Frames |-> "pool"]
    BY DEF Ownership!Init
  <2>1. FramesOf(rFrames) = {} /\ FramesIn(appsrc) = {} /\ downstream = {}
    BY DEF Init, RenderInit, ReassemblyInit, FramesOf, EmptySlot, FramesIn
  <2>2. QED
    BY <2>1 DEF owner, Queued, InSlots
<1>2. IInv /\ IInv' /\ [Next]_vars => [Ownership!Next]_owner
  <2> SUFFICES ASSUME IInv, IInv', [Next]_vars PROVE [Ownership!Next]_owner
    OBVIOUS
  <2>1. CASE RecvThreadNext
    <3>1. PICK f : Moves(f)
      BY <2>1, RecvMoves
    <3>2. QED
      BY <3>1, MoveRefines DEF IInv, Ownership!Next
  <2>2. CASE RenderNext /\ UNCHANGED reasmVars
    BY <2>2, RenderRefines DEF Ownership!Next
  <2>3. CASE UNCHANGED vars \/ AllowPushIncompleteFrames
    <3>1. UNCHANGED <<rFrames, appsrc, downstream>>
      BY <2>3 DEF AllowPushIncompleteFrames, vars, renderVars, reasmVars
    <3>2. QED
      BY <3>1 DEF owner, Queued, InSlots
  <2>4. CASE Tick
    <3>1. FramesOf(rFrames') = FramesOf(rFrames)
      <4>1. \A s \in Slots : rFrames'[s].frame = rFrames[s].frame
        BY <2>4 DEF Tick, IInv, TypeOK, SlotType
      <4>2. QED
        BY <4>1 DEF FramesOf
    <3>2. UNCHANGED <<appsrc, downstream>>
      BY <2>4 DEF Tick, renderVars
    <3>3. QED
      BY <3>1, <3>2 DEF owner, Queued, InSlots
  <2>5. QED
    BY <2>1, <2>2, <2>3, <2>4 DEF Next, Gone
<1>3. QED
  BY <1>1, <1>2, SpecIInv, PTL DEF Spec, FramesHaveOneOwner, Ownership!Spec

-----------------------------------------------------------------------------
(***************************************************************************)
(* The bytes of a set of sections: the fold behind BytesOf takes the       *)
(* sections in an order of its own, and its value does not depend on it.   *)
(***************************************************************************)

\* What c says of the sections S, added up.
Total(c, S) == MapThenSumSet(LAMBDA sec : c[sec], S)

\* The section the fold takes first.
Pick(S) == CHOOSE sec \in S : TRUE

\* g gives the bytes of every subset of S.
IsSums(c, S, g) ==
    g = [T \in SUBSET S |->
           IF T = {} THEN 0 ELSE c[Pick(T)] + g[T \ {Pick(T)}]]

LEMMA TotalIsSums ==
  ASSUME NEW c, NEW S
  PROVE  Total(c, S) = (CHOOSE g : IsSums(c, S, g))[S]
BY Zenon DEF Total, MapThenSumSet, MapThenFoldSet, IsSums, Pick

LEMMA PickIsIn ==
  ASSUME NEW S, S # {}
  PROVE  Pick(S) \in S
BY DEF Pick

\* Among some subsets of a finite set there is one with no other inside.
LEMMA SmallestSubset ==
  ASSUME NEW S, IsFiniteSet(S), NEW B, B \subseteq SUBSET S, B # {}
  PROVE  \E T \in B : \A U \in SUBSET T : U # T => U \notin B
<1>1. B \subseteq FiniteSubsetsOf(S)
  BY FS_FiniteSubsetsOfFinite
<1>2. IsWellFoundedOn(StrictSubsetOrdering(S), FiniteSubsetsOf(S))
  BY FS_StrictSubsetOrderingWellFounded
<1>3. PICK T \in B : \A U \in B : ~ (<<U, T>> \in StrictSubsetOrdering(S))
  BY <1>1, <1>2, WFMin
<1>4. ASSUME NEW U \in SUBSET T, U # T, U \in B
      PROVE  FALSE
  <2>1. <<U, T>> \in StrictSubsetOrdering(S)
    BY <1>4 DEF StrictSubsetOrdering
  <2> QED
    BY <1>3, <1>4, <2>1
<1> QED
  BY <1>3, <1>4

\* What an IsSums function gives.
LEMMA SumsStep ==
  ASSUME NEW c, NEW S, NEW g, IsSums(c, S, g)
  PROVE  /\ g[{}] = 0
         /\ \A T \in SUBSET S : T # {} => g[T] = c[Pick(T)] + g[T \ {Pick(T)}]
<1>1. \A T \in SUBSET S :
         g[T] = IF T = {} THEN 0 ELSE c[Pick(T)] + g[T \ {Pick(T)}]
  BY Zenon DEF IsSums
<1> QED
  BY <1>1

LEMMA SumsAgree ==
  ASSUME NEW c, NEW S, IsFiniteSet(S), NEW R, R \subseteq S,
         NEW g, IsSums(c, S, g), NEW h, IsSums(c, R, h), NEW W \in SUBSET R
  PROVE  g[W] = h[W]
<1> DEFINE B == {T \in SUBSET R : g[T] # h[T]}
<1> SUFFICES ASSUME B # {} PROVE FALSE
  OBVIOUS
<1>1. PICK T \in B : \A U \in SUBSET T : U # T => U \notin B
  <2>1. IsFiniteSet(R)
    BY FS_Subset
  <2>2. B \subseteq SUBSET R
    OBVIOUS
  <2> HIDE DEF B
  <2> QED
    BY <2>1, <2>2, SmallestSubset
<1>2. CASE T = {}
  BY <1>2, SumsStep
<1>3. CASE T # {}
  <2>1. Pick(T) \in T
    BY <1>3, PickIsIn
  <2>2. g[T \ {Pick(T)}] = h[T \ {Pick(T)}]
    BY <1>1, <2>1
  <2>3. T \in SUBSET S /\ T \in SUBSET R /\ g[T] # h[T]
    OBVIOUS
  <2>4. /\ g[T] = c[Pick(T)] + g[T \ {Pick(T)}]
        /\ h[T] = c[Pick(T)] + h[T \ {Pick(T)}]
    BY <1>3, <2>3, SumsStep
  <2> QED
    BY <2>2, <2>3, <2>4
<1> QED
  BY <1>2, <1>3

LEMMA SumsExist ==
  ASSUME NEW c, NEW S, IsFiniteSet(S)
  PROVE  \E g : IsSums(c, S, g)
<1> DEFINE B == {T \in SUBSET S : ~ \E g : IsSums(c, T, g)}
<1> SUFFICES ASSUME B # {} PROVE FALSE
  OBVIOUS
<1>1. PICK T \in B : \A U \in SUBSET T : U # T => U \notin B
  <2>1. B \subseteq SUBSET S
    OBVIOUS
  <2> HIDE DEF B
  <2> QED
    BY <2>1, SmallestSubset
<1> DEFINE G(U) == CHOOSE g : IsSums(c, U, g)
           h == [U \in SUBSET T |->
                   IF U = {} THEN 0
                   ELSE c[Pick(U)] + G(U \ {Pick(U)})[U \ {Pick(U)}]]
<1>2. \A U \in SUBSET T : U # T => IsSums(c, U, G(U))
  BY <1>1
<1>3. \A U \in SUBSET T : IsFiniteSet(U)
  BY FS_Subset
<1>4. ASSUME NEW U \in SUBSET T, U # {}
      PROVE  h[U] = c[Pick(U)] + h[U \ {Pick(U)}]
  <2> DEFINE V == U \ {Pick(U)}
  <2>1. V \in SUBSET T /\ V # T
    BY <1>4, PickIsIn
  <2>2. IsSums(c, V, G(V))
    BY <1>2, <2>1
  <2>3. h[U] = c[Pick(U)] + G(V)[V]
    BY <1>4
  <2>4. h[V] = IF V = {} THEN 0 ELSE c[Pick(V)] + G(V \ {Pick(V)})[V \ {Pick(V)}]
    BY <2>1
  <2> HIDE DEF h, G, V
  <2>5. CASE V = {}
    BY <2>2, <2>3, <2>4, <2>5, SumsStep DEF V
  <2>6. CASE V # {}
    <3> DEFINE X == V \ {Pick(V)}
    <3>1. X \in SUBSET T /\ X # T /\ X \subseteq V
      BY <2>1, <2>6, PickIsIn
    <3>2. IsSums(c, X, G(X))
      BY <1>2, <3>1
    <3>3. G(V)[X] = G(X)[X]
      <4>1. IsFiniteSet(V) /\ X \subseteq V /\ X \in SUBSET X
        BY <1>3, <2>1, <3>1
      <4> HIDE DEF X
      <4> QED
        BY <2>2, <3>2, <4>1, SumsAgree
    <3>4. G(V)[V] = c[Pick(V)] + G(V)[X]
      BY <2>2, <2>6, SumsStep
    <3> QED
      BY <2>3, <2>4, <2>6, <3>3, <3>4 DEF V
  <2> QED
    BY <2>5, <2>6
<1>5. IsSums(c, T, h)
  <2>1. h[{}] = 0
    OBVIOUS
  <2>2. h = [U \in SUBSET T |-> h[U]]
    OBVIOUS
  <2>3. ASSUME NEW U \in SUBSET T
        PROVE  h[U] = IF U = {} THEN 0 ELSE c[Pick(U)] + h[U \ {Pick(U)}]
    <3> HIDE DEF h
    <3>1. CASE U = {}
      BY <2>1, <3>1
    <3>2. CASE U # {}
      BY <1>4, <3>2
    <3> QED
      BY <3>1, <3>2
  <2> HIDE DEF h
  <2> QED
    BY <2>2, <2>3 DEF IsSums
<1> QED
  BY <1>1, <1>5

\* Total by the first section it takes.
LEMMA TotalPick ==
  ASSUME NEW c, NEW S, IsFiniteSet(S)
  PROVE  /\ Total(c, {}) = 0
         /\ S # {} => Total(c, S) = c[Pick(S)] + Total(c, S \ {Pick(S)})
<1> DEFINE G(U) == CHOOSE g : IsSums(c, U, g)
<1>1. \A U : IsFiniteSet(U) => IsSums(c, U, G(U))
  BY SumsExist
<1>2. \A U : Total(c, U) = G(U)[U]
  BY TotalIsSums
<1> HIDE DEF G
<1>3. Total(c, {}) = 0
  BY <1>1, <1>2, FS_EmptySet, SumsStep
<1>4. ASSUME S # {}
      PROVE  Total(c, S) = c[Pick(S)] + Total(c, S \ {Pick(S)})
  <2> DEFINE V == S \ {Pick(S)}
  <2>1. IsFiniteSet(V) /\ V \subseteq S /\ V \in SUBSET V
    BY FS_RemoveElement
  <2>2. G(S)[V] = G(V)[V]
    <3> HIDE DEF V
    <3>1. IsSums(c, S, G(S)) /\ IsSums(c, V, G(V))
      BY <1>1, <2>1
    <3> QED
      BY <2>1, <3>1, SumsAgree
  <2>3. G(S)[S] = c[Pick(S)] + G(S)[V]
    BY <1>1, <1>4, SumsStep
  <2> QED
    BY <1>2, <2>2, <2>3
<1> QED
  BY <1>3, <1>4

LEMMA TotalInt ==
  ASSUME NEW c, NEW S, IsFiniteSet(S), \A sec \in S : c[sec] \in Int
  PROVE  Total(c, S) \in Int
<1> DEFINE B == {T \in SUBSET S : Total(c, T) \notin Int}
<1> SUFFICES ASSUME B # {} PROVE FALSE
  OBVIOUS
<1>1. PICK T \in B : \A U \in SUBSET T : U # T => U \notin B
  <2>1. B \subseteq SUBSET S
    OBVIOUS
  <2> HIDE DEF B
  <2> QED
    BY <2>1, SmallestSubset
<1>2. T \in SUBSET S /\ IsFiniteSet(T) /\ Total(c, T) \notin Int
  BY FS_Subset
<1>3. T # {}
  <2>1. Total(c, {}) = 0
    BY TotalPick
  <2> QED
    BY <1>2, <2>1
<1>4. Pick(T) \in T /\ c[Pick(T)] \in Int
  BY <1>2, <1>3, PickIsIn
<1>5. Total(c, T \ {Pick(T)}) \in Int
  BY <1>1, <1>2, <1>4
<1> QED
  BY <1>2, <1>3, <1>4, <1>5, TotalPick

\* Any section may be taken first.
LEMMA TotalRemove ==
  ASSUME NEW c, NEW S, IsFiniteSet(S), \A sec \in S : c[sec] \in Int, NEW x \in S
  PROVE  Total(c, S) = c[x] + Total(c, S \ {x})
<1> DEFINE Splits(T, y) == Total(c, T) = c[y] + Total(c, T \ {y})
           B == {T \in SUBSET S : \E y \in T : ~Splits(T, y)}
<1> SUFFICES ASSUME B # {} PROVE FALSE
  OBVIOUS
<1>1. PICK T \in B : \A U \in SUBSET T : U # T => U \notin B
  <2>1. B \subseteq SUBSET S
    OBVIOUS
  <2> HIDE DEF B
  <2> QED
    BY <2>1, SmallestSubset
<1>2. PICK y \in T : ~Splits(T, y)
  OBVIOUS
<1> DEFINE p == Pick(T)
           U == T \ {p}
           V == T \ {y}
<1>3. T \in SUBSET S /\ p \in T /\ c[p] \in Int /\ c[y] \in Int
  BY <1>2, PickIsIn
<1>4. \A W \in SUBSET T : IsFiniteSet(W) /\ Total(c, W) \in Int
  <2> TAKE W \in SUBSET T
  <2>1. W \in SUBSET S
    BY <1>3
  <2>2. IsFiniteSet(W)
    BY <2>1, FS_Subset
  <2> QED
    BY <2>1, <2>2, TotalInt
<1>5. Total(c, T) = c[p] + Total(c, U)
  <2>1. T # {} /\ T \in SUBSET T
    BY <1>2
  <2> QED
    BY <1>4, <2>1, TotalPick
<1>6. y # p
  BY <1>2, <1>5
<1>7. Splits(U, y) /\ Splits(V, p)
  BY <1>1, <1>2, <1>3, <1>6
<1>8. U \ {y} = V \ {p} /\ U \ {y} \in SUBSET T /\ V \in SUBSET T
  OBVIOUS
<1>9. /\ Total(c, U \ {y}) \in Int /\ Total(c, V) \in Int
      /\ c[p] \in Int /\ c[y] \in Int
  BY <1>3, <1>4, <1>8
<1> HIDE DEF p, U, V, B
<1>10. /\ Total(c, U) = c[y] + Total(c, U \ {y})
       /\ Total(c, V) = c[p] + Total(c, U \ {y})
  BY <1>7, <1>8
<1>11. Total(c, T) = c[y] + Total(c, V)
  BY <1>5, <1>9, <1>10
<1> QED
  BY <1>2, <1>11 DEF V

\* The total depends on what c says of S only.
LEMMA TotalSame ==
  ASSUME NEW c, NEW d, NEW S, IsFiniteSet(S), \A sec \in S : c[sec] = d[sec]
  PROVE  Total(c, S) = Total(d, S)
<1> DEFINE B == {T \in SUBSET S : Total(c, T) # Total(d, T)}
<1> SUFFICES ASSUME B # {} PROVE FALSE
  OBVIOUS
<1>1. PICK T \in B : \A U \in SUBSET T : U # T => U \notin B
  <2>1. B \subseteq SUBSET S
    OBVIOUS
  <2> HIDE DEF B
  <2> QED
    BY <2>1, SmallestSubset
<1>2. T \in SUBSET S /\ IsFiniteSet(T) /\ Total(c, T) # Total(d, T)
  BY FS_Subset
<1>3. T # {}
  <2>1. Total(c, {}) = 0 /\ Total(d, {}) = 0
    BY FS_EmptySet, TotalPick
  <2> QED
    BY <1>2, <2>1
<1>4. Pick(T) \in T /\ c[Pick(T)] = d[Pick(T)]
  BY <1>2, <1>3, PickIsIn
<1>5. Total(c, T \ {Pick(T)}) = Total(d, T \ {Pick(T)})
  BY <1>1, <1>2, <1>4
<1>6. /\ Total(c, T) = c[Pick(T)] + Total(c, T \ {Pick(T)})
      /\ Total(d, T) = d[Pick(T)] + Total(d, T \ {Pick(T)})
  BY <1>2, <1>3, TotalPick
<1> QED
  BY <1>2, <1>4, <1>5, <1>6

\* A set of naturals that is not empty has a least element.
LEMMA LeastNatural ==
  ASSUME NEW B, B \subseteq Nat, B # {}
  PROVE  \E n \in B : \A m \in B : n <= m
<1>1. PICK n \in B : \A m \in B : ~ (<<m, n>> \in OpToRel(<, Nat))
  BY NatLessThanWellFounded, WFMin, Zenon
<1>2. \A m \in B : ~(m < n)
  BY <1>1, Zenon DEF OpToRel
<1> QED
  BY <1>2

\* Section x has n bytes, all of them in a frame of length len.
Fits(len, x, n) == n \in Nat /\ n <= PayloadSize /\ (n = 0 \/ Offset(x) + n <= len)

\* Sections that lie in the frame never hold more bytes than it has.
LEMMA TotalAtMost ==
  ASSUME NEW len \in Nat, NEW n \in Nat, NEW S \in SUBSET (0..(n - 1)), NEW c,
         \A x \in S : Fits(len, x, c[x])
  PROVE  Total(c, S) <= len /\ Total(c, S) \in Int
<1> DEFINE Off(k) == IF k * PayloadSize <= len THEN k * PayloadSize ELSE len
           B == {k \in Nat : \E T \in SUBSET (S \cap (0..(k - 1))) : ~(Total(c, T) <= Off(k))}
<1>1. \A k \in Nat : Off(k) \in Nat /\ Off(k) <= len
  BY ReassemblyAssumption
<1>2. \A T \in SUBSET S : IsFiniteSet(T) /\ Total(c, T) \in Int
  <2> TAKE T \in SUBSET S
  <2>1. IsFiniteSet(0..(n - 1))
    BY FS_Interval
  <2>2. IsFiniteSet(T)
    BY <2>1, FS_Subset
  <2>3. \A x \in T : c[x] \in Int
    BY DEF Fits
  <2> QED
    BY <2>2, <2>3, TotalInt
<1>3. B = {}
  <2> SUFFICES ASSUME B # {} PROVE FALSE
    OBVIOUS
  <2>1. PICK k \in B : \A m \in B : k <= m
    <3>1. B \subseteq Nat
      OBVIOUS
    <3> HIDE DEF B
    <3> QED
      BY <3>1, LeastNatural
  <2>2. PICK T \in SUBSET (S \cap (0..(k - 1))) : ~(Total(c, T) <= Off(k))
    BY <2>1
  <2>3. k \in Nat /\ T \in SUBSET S
    BY <2>1
  <2>4. CASE k = 0
    <3>1. T = {}
      BY <2>4
    <3>2. Total(c, T) = 0
      BY <3>1, FS_EmptySet, TotalPick
    <3> QED
      BY <1>1, <2>2, <2>4, <3>2
  <2>5. CASE k # 0
    <3> DEFINE j == k - 1
    <3>1. j \in Nat /\ k = j + 1 /\ j \notin B
      BY <2>1, <2>3, <2>5
    <3>2. \A W \in SUBSET (S \cap (0..(j - 1))) : Total(c, W) <= Off(j)
      BY <3>1
    <3> HIDE DEF j
    <3>3. k * PayloadSize = j * PayloadSize + PayloadSize /\ j * PayloadSize \in Nat
      BY <3>1, ReassemblyAssumption
    <3>4. Off(j) <= Off(k) /\ Off(j) \in Nat /\ Off(k) \in Nat
      BY <1>1, <2>3, <3>1, <3>3, ReassemblyAssumption
    <3>5. CASE j \notin T
      <4>1. T \in SUBSET (S \cap (0..(j - 1)))
        BY <2>2, <3>1, <3>5
      <4>2. Total(c, T) <= Off(j) /\ Total(c, T) \in Int
        BY <1>2, <2>3, <3>2, <4>1
      <4> HIDE DEF Off
      <4> QED
        BY <2>2, <3>4, <4>2
    <3>6. CASE j \in T
      <4> DEFINE W == T \ {j}
      <4>1. W \in SUBSET (S \cap (0..(j - 1))) /\ W \in SUBSET S
        BY <2>2, <3>1, <3>6
      <4>2. Total(c, T) = c[j] + Total(c, W)
        <5>1. IsFiniteSet(T) /\ \A x \in T : c[x] \in Int
          BY <1>2, <2>3 DEF Fits
        <5> HIDE DEF B, Off
        <5>2. \A y \in T : Total(c, T) = c[y] + Total(c, T \ {y})
          BY <5>1, TotalRemove
        <5> QED
          BY <3>6, <5>2
      <4>3. Total(c, W) <= Off(j) /\ Total(c, W) \in Int
        BY <1>2, <3>2, <4>1
      <4>4. c[j] + Off(j) <= Off(k) /\ c[j] \in Int
        <5>1. Fits(len, j, c[j])
          BY <2>3, <3>6
        <5> QED
          BY <3>1, <3>3, <3>4, <5>1, ReassemblyAssumption DEF Fits, Offset
      <4> HIDE DEF Off, W
      <4> QED
        BY <2>2, <3>4, <4>2, <4>3, <4>4
    <3> QED
      BY <3>5, <3>6
  <2> QED
    BY <2>4, <2>5
<1>4. Total(c, S) <= Off(n)
  BY <1>3
<1> HIDE DEF Off
<1> QED
  BY <1>1, <1>2, <1>4

-----------------------------------------------------------------------------
(***************************************************************************)
(* The bytes of the frames in the slots and in the queue.                  *)
(***************************************************************************)

LEMMA SecIdxFinite == IsFiniteSet(SecIdx) /\ SecIdx \subseteq Nat
<1>1. 0 \in Int /\ MaxSecPerFrame - 1 \in Int
  BY ReassemblyAssumption
<1>2. IsFiniteSet(0..(MaxSecPerFrame - 1))
  BY <1>1, FS_Interval
<1> QED
  BY <1>1, <1>2 DEF SecIdx

LEMMA BytesOfIsTotal ==
  ASSUME NEW bytes \in [SecIdx -> Nat]
  PROVE  BytesOf(bytes) = Total(bytes, SecIdx)
<1>1. DOMAIN bytes = SecIdx
  OBVIOUS
<1> QED
  BY <1>1, Zenon DEF BytesOf, Total

\* The bytes of a slot or of a buffer lie in its frame, section by section.
BytesFit(b) == \A sec \in SecIdx : Fits(b.len, sec, b.bytes[sec])

LEMMA BytesOfAtMost ==
  ASSUME NEW len \in Nat, NEW bytes \in [SecIdx -> Nat],
         \A sec \in SecIdx : Fits(len, sec, bytes[sec])
  PROVE  BytesOf(bytes) <= len /\ BytesOf(bytes) \in Int
<1>1. SecIdx \in SUBSET (0..(MaxSecPerFrame - 1)) /\ MaxSecPerFrame \in Nat
  BY ReassemblyAssumption DEF SecIdx
<1>2. Total(bytes, SecIdx) <= len /\ Total(bytes, SecIdx) \in Int
  BY <1>1, TotalAtMost
<1> QED
  BY <1>2, BytesOfIsTotal

\* A section that had no bytes gets n of them.
LEMMA BytesOfExcept ==
  ASSUME NEW bytes \in [SecIdx -> Nat], NEW x \in SecIdx, bytes[x] = 0, NEW n \in Nat
  PROVE  BytesOf([bytes EXCEPT ![x] = n]) = BytesOf(bytes) + n
<1> DEFINE new == [bytes EXCEPT ![x] = n]
           R == SecIdx \ {x}
<1>1. new \in [SecIdx -> Nat] /\ new[x] = n /\ \A y \in R : new[y] = bytes[y]
  OBVIOUS
<1>2. \A y \in SecIdx : bytes[y] \in Int /\ new[y] \in Int
  BY <1>1
<1>3. IsFiniteSet(R)
  BY SecIdxFinite, FS_Subset
<1> HIDE DEF new
<1>4. /\ Total(bytes, SecIdx) = bytes[x] + Total(bytes, R)
      /\ Total(new, SecIdx) = new[x] + Total(new, R)
  <2>1. IsFiniteSet(SecIdx) /\ x \in SecIdx /\ \A y \in SecIdx : bytes[y] \in Int
    BY <1>2, SecIdxFinite
  <2>2. Total(bytes, SecIdx) = bytes[x] + Total(bytes, SecIdx \ {x})
    BY <2>1, TotalRemove
  <2>3. \A y \in SecIdx : new[y] \in Int
    BY <1>2
  <2>4. Total(new, SecIdx) = new[x] + Total(new, SecIdx \ {x})
    BY <2>1, <2>3, TotalRemove
  <2> QED
    BY <2>2, <2>4
<1> HIDE DEF R
<1>5. Total(new, R) = Total(bytes, R)
  BY <1>1, <1>3, TotalSame
<1>6. Total(bytes, R) \in Int
  <2>1. \A y \in R : bytes[y] \in Int
    BY <1>2 DEF R
  <2> QED
    BY <1>3, <2>1, TotalInt
<1>7. Total(new, SecIdx) = Total(bytes, SecIdx) + n
  BY <1>1, <1>4, <1>5, <1>6
<1> QED
  BY <1>1, <1>7, BytesOfIsTotal DEF new

\* Where a section begins and ends is not too large for the type.
LEMMA OffsetInU32 ==
  ASSUME NEW sec \in Nat, sec + 1 <= MaxSecPerFrame
  PROVE  Offset(sec) \in Nat /\ Offset(sec) + PayloadSize < U32
<1>1. /\ PayloadSize \in Nat /\ MaxSecPerFrame \in Nat /\ U32 \in Nat
      /\ MaxSecPerFrame * PayloadSize < U32
  BY ReassemblyAssumption
<1>2. (sec + 1) * PayloadSize <= MaxSecPerFrame * PayloadSize
  <2>1. \A k, m, q \in Nat : k <= m => k * q <= m * q
    OBVIOUS
  <2> QED
    BY <1>1, <2>1
<1>3. (sec + 1) * PayloadSize = Offset(sec) + PayloadSize /\ Offset(sec) \in Nat
  BY <1>1 DEF Offset
<1>4. (sec + 1) * PayloadSize \in Nat /\ MaxSecPerFrame * PayloadSize \in Nat
  BY <1>1
<1> QED
  BY <1>1, <1>2, <1>3, <1>4

\* A copy that does not run out of the datagram stays in the frame: the
\* difference of unsigned numbers did not wrap.
LEMMA CopyFits ==
  ASSUME NEW slot \in SlotType, NEW p \in Packets, Fillable(slot, p), ~Overruns(slot, p)
  PROVE  Fits(slot.len, p.sec, CopySize(slot, p))
<1> DEFINE n == CopySize(slot, p)
           off == Offset(p.sec)
           len == slot.len
<1>1. /\ p.sec \in Nat /\ p.sec + 1 <= MaxSecPerFrame /\ p.payload \in Nat /\ len \in Nat
      /\ p.payload <= PayloadSize
      /\ PayloadSize \in Nat /\ MaxSecPerFrame \in Nat /\ U32 \in Nat
      /\ MaxSecPerFrame * PayloadSize < U32
  BY ReassemblyAssumption DEF Fillable, SecIdx, PacketType, SlotType
<1>2. off \in Nat /\ off + PayloadSize < U32
  BY <1>1, OffsetInU32
<1>3. n \in Nat /\ n <= p.payload
  BY <1>1, CopySizeNat DEF Overruns
<1>4. n = IF off + p.payload > len THEN (len - off) % U32 ELSE p.payload
  BY DEF CopySize
<1> HIDE DEF n, off, len
<1>5. CASE ~(off + p.payload > len)
  BY <1>1, <1>2, <1>4, <1>5 DEF Fits, off, len, n
<1>6. CASE off + p.payload > len /\ off <= len
  <2>1. len - off \in 0..(U32 - 1)
    BY <1>1, <1>2, <1>6
  <2>2. (len - off) % U32 = len - off
    BY <1>1, <1>2, <2>1, RemainderIsUnique
  <2>3. off + n = len
    BY <1>1, <1>2, <1>4, <1>6, <2>2
  <2> QED
    BY <1>1, <1>3, <2>3 DEF Fits, off, len, n
<1>7. CASE off > len
  <2>1. U32 - (off - len) \in 0..(U32 - 1)
    BY <1>1, <1>2, <1>7
  <2>2. (len - off) % U32 = U32 - (off - len)
    BY <1>1, <1>2, <2>1, RemainderIsUnique
  <2> QED
    BY <1>1, <1>2, <1>3, <1>4, <1>7, <2>2
<1> QED
  BY <1>1, <1>2, <1>5, <1>6, <1>7

\* CountIsBytesCopied, of one slot, with what its sections may hold.
SlotCounted(slot) ==
    /\ slot.curLen = BytesOf(slot.bytes)
    /\ BytesFit(slot)
    /\ \A sec \in SecIdx \ slot.secs : slot.bytes[sec] = 0
    /\ IsOccupied(slot) => slot.curLen < slot.len \/ slot.len = 0

SlotsCounted(ss) == \A s \in Slots : SlotCounted(ss[s])

Whole(b) == BytesFit(b) /\ BytesOf(b.bytes) = b.len

Enough(b) == CompleteDen * BytesOf(b.bytes) >= CompleteNum * b.len

\* What a step does with the queue.
Feeds ==
    \/ appsrc' \in {appsrc, <<>>}
    \/ appsrc # <<>> /\ appsrc' = Tail(appsrc)
    \/ \E b \in BufferType :
         /\ appsrc' = Append(appsrc, b)
         /\ Enough(b)
         /\ Whole(b) \/ allowPushIncomplete

LEMMA WholeIsEnough ==
  ASSUME NEW b \in BufferType, Whole(b)
  PROVE  Enough(b)
<1>1. b.len \in Nat /\ BytesOf(b.bytes) = b.len
  BY DEF Whole, BufferType
<1> DEFINE n == b.len
<1> HIDE DEF n
<1>2. \A k \in Nat : CompleteDen * k >= CompleteNum * k
  BY ReassemblyAssumption
<1> QED
  BY <1>1, <1>2 DEF Enough

\* Nothing was copied yet.
LEMMA NoBytes ==
  ASSUME NEW len \in Nat
  PROVE  LET none == [sec \in SecIdx |-> 0]
         IN  /\ none \in [SecIdx -> Nat]
             /\ BytesOf(none) = 0
             /\ \A sec \in SecIdx : Fits(len, sec, none[sec])
<1> DEFINE none == [sec \in SecIdx |-> 0]
<1>1. none \in [SecIdx -> Nat] /\ \A sec \in SecIdx : none[sec] = 0
  OBVIOUS
<1> HIDE DEF none
<1>2. \A m \in Nat : \A sec \in SecIdx : Fits(m, sec, none[sec])
  BY <1>1, ReassemblyAssumption DEF Fits
<1>3. BytesOf(none) <= 0 /\ BytesOf(none) \in Int
  BY <1>1, <1>2, BytesOfAtMost
<1>4. BytesOf(none) >= 0
  <2> DEFINE B == {T \in SUBSET SecIdx : Total(none, T) # 0}
  <2> SUFFICES B = {}
    <3>1. SecIdx \in SUBSET SecIdx /\ BytesOf(none) = Total(none, SecIdx)
      BY <1>1, BytesOfIsTotal
    <3> QED
      BY <3>1
  <2> SUFFICES ASSUME B # {} PROVE FALSE
    OBVIOUS
  <2>1. PICK T \in B : \A U \in SUBSET T : U # T => U \notin B
    <3>1. B \subseteq SUBSET SecIdx
      OBVIOUS
    <3> HIDE DEF B
    <3> QED
      BY <3>1, SecIdxFinite, SmallestSubset
  <2>2. T \in SUBSET SecIdx /\ IsFiniteSet(T) /\ Total(none, T) # 0
    BY SecIdxFinite, FS_Subset
  <2>3. T # {}
    BY <2>2, TotalPick
  <2>4. Pick(T) \in T /\ none[Pick(T)] = 0
    BY <1>1, <2>2, <2>3, PickIsIn
  <2>5. Total(none, T \ {Pick(T)}) = 0
    BY <2>1, <2>2, <2>4
  <2> QED
    BY <2>2, <2>3, <2>4, <2>5, TotalPick
<1>5. BytesOf(none) = 0
  BY <1>3, <1>4
<1> QED
  BY <1>1, <1>2, <1>5 DEF none

LEMMA EmptySlotCounted == SlotCounted(EmptySlot)
BY NoBytes DEF SlotCounted, BytesFit, EmptySlot, IsOccupied

\* fill() counts each section once, and never past the length of the frame.
LEMMA FilledCounted ==
  ASSUME NEW slot \in SlotType, SlotCounted(slot), NEW p \in Packets
  PROVE  LET filled == Filled(slot, p)
         IN  /\ filled = slot \/ ~IsComplete(filled) => SlotCounted(filled)
             /\ BytesFit(filled)
             /\ IsComplete(filled) => BytesOf(filled.bytes) = filled.len
<1> DEFINE filled == Filled(slot, p)
           n == CopySize(slot, p)
<1>1. CASE ~(Fillable(slot, p) /\ ~Overruns(slot, p))
  <2>1. filled = slot
    BY <1>1 DEF Filled
  <2> QED
    BY <2>1 DEF SlotCounted, IsComplete
<1>2. CASE Fillable(slot, p) /\ ~Overruns(slot, p)
  <2>1. p.sec \in SecIdx /\ p.sec \notin slot.secs /\ slot.bytes[p.sec] = 0
    BY <1>2 DEF Fillable, SlotCounted
  <2>2. n \in Nat /\ Fits(slot.len, p.sec, n)
    BY <1>2, CopySizeNat, CopyFits
  <2>3. slot.len \in Nat /\ slot.curLen \in Nat /\ slot.bytes \in [SecIdx -> Nat]
    BY DEF SlotType
  <2> HIDE DEF n
  <2> DEFINE new == [slot.bytes EXCEPT ![p.sec] = n]
  <2>4. /\ filled.secs = slot.secs \cup {p.sec}
        /\ filled.len = slot.len
        /\ filled.frame = slot.frame
        /\ filled.curLen = slot.curLen + n
        /\ filled.bytes = new
    BY <1>2 DEF Filled, SlotType, n
  <2>5. new \in [SecIdx -> Nat] /\ new[p.sec] = n /\ \A y \in SecIdx \ {p.sec} : new[y] = slot.bytes[y]
    BY <2>1, <2>2, <2>3
  <2>6. BytesOf(new) = BytesOf(slot.bytes) + n
    BY <2>1, <2>2, <2>3, BytesOfExcept
  <2> HIDE DEF new, filled
  <2>7. \A y \in SecIdx : Fits(slot.len, y, new[y])
    BY <2>2, <2>5 DEF SlotCounted, BytesFit
  <2>8. BytesOf(new) <= slot.len /\ BytesOf(new) \in Int
    BY <2>3, <2>5, <2>7, BytesOfAtMost
  <2>9. filled.curLen = BytesOf(filled.bytes) /\ BytesFit(filled)
    BY <2>4, <2>6, <2>7 DEF SlotCounted, BytesFit
  <2>10. IsComplete(filled) \/ filled.curLen < filled.len
    BY <2>3, <2>4, <2>8, <2>9 DEF IsComplete
  <2>11. filled # slot
    BY <2>1, <2>4
  <2>12. \A sec \in SecIdx \ filled.secs : filled.bytes[sec] = 0
    BY <2>4, <2>5 DEF SlotCounted
  <2> QED
    BY <2>9, <2>10, <2>11, <2>12 DEF SlotCounted, IsComplete, filled
<1> QED
  BY <1>1, <1>2

\* tryPushFrame pushes the bytes of the slot, or nothing.
LEMMA TryPushFrameFeeds ==
  ASSUME NEW list, NEW slot \in SlotType, slot.frame \in Frames, TryPushFrame(list, slot)
  PROVE  \/ appsrc' = appsrc
         \/ \E b \in BufferType : /\ appsrc' = Append(appsrc, b)
                                  /\ b.len = slot.len /\ b.bytes = slot.bytes
<1> DEFINE b == [frame |-> slot.frame, len |-> slot.len, bytes |-> slot.bytes]
<1>1. b \in BufferType /\ b.len = slot.len /\ b.bytes = slot.bytes
  BY DEF BufferType, SlotType
<1>2. appsrc' = Append(appsrc, b) \/ appsrc' = appsrc
  BY DEF TryPushFrame
<1> QED
  BY <1>1, <1>2

LEMMA FillSlotCounted ==
  ASSUME NEW list, NEW ss \in SlotArray, SlotsCounted(ss), NEW s \in Slots, NEW p \in Packets, NEW last,
         NEW slot \in SlotType, slot.frame \in Frames, SlotCounted(slot),
         FillSlot(p, s, slot, ss, list, last)
  PROVE  SlotsCounted(rFrames') /\ Feeds
<1> DEFINE filled == Filled(slot, p)
<1>1. filled \in SlotType /\ filled.frame = slot.frame
  BY FilledType
<1>2. /\ filled = slot \/ ~IsComplete(filled) => SlotCounted(filled)
      /\ BytesFit(filled)
      /\ IsComplete(filled) => BytesOf(filled.bytes) = filled.len
  BY FilledCounted
<1>3. \/ /\ TryPushFrame(list, filled) /\ IsComplete(filled)
         /\ rFrames' = [ss EXCEPT ![s] = EmptySlot]
      \/ /\ filled = slot \/ ~IsComplete(filled)
         /\ appsrc' = appsrc /\ rFrames' = [ss EXCEPT ![s] = filled]
  BY DEF FillSlot
<1> HIDE DEF filled
<1>4. CASE /\ TryPushFrame(list, filled) /\ IsComplete(filled)
           /\ rFrames' = [ss EXCEPT ![s] = EmptySlot]
  <2>1. SlotsCounted(rFrames')
    BY <1>4, EmptySlotCounted DEF SlotsCounted, SlotArray
  <2>2. \/ appsrc' = appsrc
        \/ \E b \in BufferType : appsrc' = Append(appsrc, b) /\ Whole(b)
    BY <1>1, <1>2, <1>4, TryPushFrameFeeds DEF Whole, BytesFit
  <2> QED
    BY <2>1, <2>2, WholeIsEnough DEF Feeds
<1>5. CASE /\ filled = slot \/ ~IsComplete(filled)
           /\ appsrc' = appsrc /\ rFrames' = [ss EXCEPT ![s] = filled]
  BY <1>2, <1>5 DEF SlotsCounted, SlotArray, Feeds
<1> QED
  BY <1>3, <1>4, <1>5

LEMMA PlacePacketCounted ==
  ASSUME NEW list, NEW ss \in SlotArray, SlotsCounted(ss), NEW p \in Packets, NEW last,
         PlacePacket(p, ss, list, last)
  PROVE  SlotsCounted(rFrames') /\ Feeds
<1>1. PICK s \in FindReAsmSlot(ss, p.idx) : PlacePacket(p, ss, list, last)!(s)
  BY DEF PlacePacket
<1>2. s \in Slots /\ ss[s] \in SlotType /\ SlotCounted(ss[s])
  BY FindReAsmSlotType DEF SlotArray, SlotsCounted
<1>3. CASE IsOccupied(ss[s]) /\ ss[s].frameIdx = p.idx
  <2>1. ss[s].frame \in Frames
    BY <1>2, <1>3 DEF IsOccupied, SlotType
  <2> QED
    BY <1>1, <1>2, <1>3, <2>1, FillSlotCounted
<1>4. CASE /\ rFrames' = [ss EXCEPT ![s] = EmptySlot]
           /\ UNCHANGED <<appsrc, lastPushSuccess>>
  BY <1>2, <1>4, EmptySlotCounted DEF SlotsCounted, SlotArray, Feeds
<1>5. CASE \E f \in Frames : \E list2 : FillSlot(p, s, NewSlot(f, p), ss, list2, last)
  <2>0. PICK f \in Frames : \E list2 : FillSlot(p, s, NewSlot(f, p), ss, list2, last)
    BY <1>5
  <2>1. PICK list2 : FillSlot(p, s, NewSlot(f, p), ss, list2, last)
    BY <2>0
  <2> DEFINE slot == NewSlot(f, p)
  <2>2. /\ slot \in SlotType /\ slot.frame = f
        /\ slot.curLen = 0 /\ slot.secs = {} /\ slot.bytes = [sec \in SecIdx |-> 0]
    <3>1. EmptySlot \in SlotType
      BY ReassemblyAssumption DEF EmptySlot, SlotType, FrameIdx
    <3> QED
      BY <3>1, ReassemblyAssumption DEF NewSlot, SlotType, PacketType, EmptySlot
  <2>3. FillSlot(p, s, slot, ss, list2, last)
    BY <2>1
  <2> HIDE DEF slot
  <2>4. SlotCounted(slot)
    <3>1. slot.len \in Nat
      BY <2>2 DEF SlotType
    <3> QED
      BY <2>2, <3>1, NoBytes DEF SlotCounted, BytesFit
  <2> QED
    BY <1>2, <2>2, <2>3, <2>4, FillSlotCounted
<1> QED
  BY <1>1, <1>3, <1>4, <1>5 DEF Available

LEMMA StepCounted ==
  ASSUME IInv, SlotsCounted(rFrames), [Next]_vars
  PROVE  SlotsCounted(rFrames') /\ Feeds
<1>1. rFrames \in SlotArray /\ appsrc \in Seq(BufferType)
  BY DEF IInv, TypeOK, SlotArray, BufferType
<1>2. CASE \E p \in Packets : AcceptPacket(p)
  <2>1. PICK p \in Packets : AcceptPacket(p)
    BY <1>2
  <2> DEFINE cleared == [s \in Slots |-> EmptySlot]
  <2>2. cleared \in SlotArray
    BY ReassemblyAssumption DEF SlotArray, EmptySlot, SlotType, FrameIdx
  <2>3. SlotsCounted(cleared)
    BY EmptySlotCounted DEF SlotsCounted
  <2> HIDE DEF cleared
  <2>4. \E list, last :
          PlacePacket(p, cleared, list, last) \/ PlacePacket(p, rFrames, list, last)
    BY <2>1 DEF AcceptPacket, cleared
  <2> QED
    BY <1>1, <2>2, <2>3, <2>4, PlacePacketCounted
<1>3. CASE ScanSlot
  <2>1. PICK s \in First(scanTodo) :
          /\ rFrames' = [rFrames EXCEPT ![s] = EmptySlot]
          /\ \/ /\ allowPushIncomplete /\ CompleteEnough(rFrames[s])
                /\ TryPushFrame(freeIdxList, rFrames[s])
             \/ appsrc' = appsrc
    BY <1>3 DEF ScanSlot
  <2>2. /\ s \in Slots /\ rFrames[s] \in SlotType /\ rFrames[s].frame \in Frames
        /\ SlotCounted(rFrames[s])
    BY <1>1 DEF First, IInv, TypeOK, ScanTodoOccupied, IsOccupied, SlotArray, SlotType, SlotsCounted
  <2>3. SlotsCounted(rFrames')
    BY <1>1, <2>1, EmptySlotCounted DEF SlotsCounted, SlotArray
  <2>4. CASE appsrc' = appsrc
    BY <2>3, <2>4 DEF Feeds
  <2>5. CASE /\ allowPushIncomplete /\ CompleteEnough(rFrames[s])
             /\ TryPushFrame(freeIdxList, rFrames[s])
    <3>1. CompleteDen * BytesOf(rFrames[s].bytes) >= CompleteNum * rFrames[s].len
      BY <2>2, <2>5 DEF CompleteEnough, SlotCounted
    <3>2. \/ appsrc' = appsrc
          \/ \E b \in BufferType : appsrc' = Append(appsrc, b) /\ Enough(b)
      BY <2>2, <2>5, <3>1, TryPushFrameFeeds DEF Enough
    <3> QED
      BY <2>3, <2>5, <3>2 DEF Feeds
  <2> QED
    BY <2>1, <2>4, <2>5
<1>4. CASE Tick
  <2>1. \A s \in Slots : /\ rFrames'[s].frame = rFrames[s].frame /\ rFrames'[s].len = rFrames[s].len
                         /\ rFrames'[s].secs = rFrames[s].secs /\ rFrames'[s].curLen = rFrames[s].curLen
                         /\ rFrames'[s].bytes = rFrames[s].bytes
    BY <1>1, <1>4 DEF Tick, SlotArray, SlotType
  <2>2. appsrc' = appsrc
    BY <1>4 DEF Tick, renderVars
  <2> QED
    BY <2>1, <2>2 DEF SlotsCounted, SlotCounted, BytesFit, IsOccupied, Feeds
<1>5. CASE RenderNext /\ UNCHANGED reasmVars
  BY <1>5 DEF reasmVars, Feeds, RenderNext, Play, Pause, Stop, Restart, DropAll, Flush, SetMaxBufferBytes,
              Consume, Release
<1>6. CASE UNCHANGED <<rFrames, appsrc>>
  BY <1>6 DEF Feeds
<1> QED
  BY <1>2, <1>3, <1>4, <1>5, <1>6
     DEF Next, RecvThreadNext, OnPacketRecv, IgnorePacket, DropLatePacket, BeginScan,
         AllowPushIncompleteFrames, Gone, vars, renderVars, reasmVars

\* The queue keeps buffers that hold enough.
LEMMA FeedsEnough ==
  ASSUME appsrc \in Seq(BufferType), QueuedFramesCompleteEnough, Feeds
  PROVE  QueuedFramesCompleteEnough'
<1>1. \A i \in DOMAIN appsrc : Enough(appsrc[i])
  BY DEF QueuedFramesCompleteEnough, Enough
<1> SUFFICES \A i \in DOMAIN appsrc' : Enough(appsrc'[i])
  BY DEF QueuedFramesCompleteEnough, Enough
<1>2. CASE appsrc' \in {appsrc, <<>>}
  BY <1>1, <1>2
<1>3. CASE appsrc # <<>> /\ appsrc' = Tail(appsrc)
  <2>1. \A i \in DOMAIN Tail(appsrc) : i + 1 \in DOMAIN appsrc /\ Tail(appsrc)[i] = appsrc[i + 1]
    BY <1>3
  <2> QED
    BY <1>1, <1>3, <2>1
<1>4. CASE \E b \in BufferType : appsrc' = Append(appsrc, b) /\ Enough(b)
  <2>1. PICK b \in BufferType : appsrc' = Append(appsrc, b) /\ Enough(b)
    BY <1>4
  <2>2. \A i \in DOMAIN Append(appsrc, b) :
          Append(appsrc, b)[i] = b \/ (i \in DOMAIN appsrc /\ Append(appsrc, b)[i] = appsrc[i])
    OBVIOUS
  <2> QED
    BY <1>1, <2>1, <2>2
<1> QED
  BY <1>2, <1>3, <1>4 DEF Feeds

LEMMA SpecCounted == Spec => [](IInv /\ SlotsCounted(rFrames) /\ QueuedFramesCompleteEnough)
<1>1. Init => SlotsCounted(rFrames) /\ QueuedFramesCompleteEnough
  BY EmptySlotCounted DEF Init, RenderInit, ReassemblyInit, SlotsCounted, QueuedFramesCompleteEnough
<1>2. /\ IInv /\ SlotsCounted(rFrames) /\ QueuedFramesCompleteEnough
      /\ [Next]_vars
      => SlotsCounted(rFrames)' /\ QueuedFramesCompleteEnough'
  <2> SUFFICES ASSUME IInv, SlotsCounted(rFrames), QueuedFramesCompleteEnough, [Next]_vars
               PROVE  SlotsCounted(rFrames)' /\ QueuedFramesCompleteEnough'
    OBVIOUS
  <2>1. SlotsCounted(rFrames') /\ Feeds
    BY StepCounted
  <2>2. appsrc \in Seq(BufferType)
    BY DEF IInv, TypeOK, BufferType
  <2> QED
    BY <2>1, <2>2, FeedsEnough
<1> QED
  BY <1>1, <1>2, SpecIInv, PTL DEF Spec

\* As long as no copy ran out of its buffers, the count of a slot is the number
\* of bytes in its frame, whatever was lost, duplicated, reordered, cut short or
\* came for a frame of another length, and a frame that is complete leaves its
\* slot.
THEOREM CountIsRight == Spec => []CountIsBytesCopied
<1>1. SlotsCounted(rFrames) => CountIsBytesCopied
  BY DEF SlotsCounted, SlotCounted, CountIsBytesCopied
<1> QED
  BY <1>1, SpecCounted, PTL

\* What the decoder is given holds the bytes asked for.
THEOREM DecoderGetsEnough == Spec => []QueuedFramesCompleteEnough
BY SpecCounted, PTL

\* A frame whose bytes are all there has every section at its full length: to
\* give a section the bytes it lacks would make them too many.
LEMMA WholeHasNoHole ==
  ASSUME NEW b \in BufferType, Whole(b), NEW x \in SectionsOf(b.len)
  PROVE  x \in SecIdx /\ b.bytes[x] = BytesIn(b.len, x)
<1> DEFINE len == b.len
           bytes == b.bytes
           w == BytesIn(len, x)
           R == SecIdx \ {x}
           c == [y \in Nat |-> IF y = x THEN w ELSE IF y \in SecIdx THEN bytes[y] ELSE 0]
<1>1. len \in Nat /\ bytes \in [SecIdx -> Nat]
  BY DEF BufferType
<1>2. x \in Nat /\ Offset(x) \in Nat /\ Offset(x) < len
  BY <1>1, ReassemblyAssumption DEF SectionsOf, Offset
<1>3. BytesOf(bytes) = len /\ \A y \in SecIdx : Fits(len, y, bytes[y])
  BY DEF Whole, BytesFit
<1>4. w \in Nat /\ w > 0 /\ Fits(len, x, w) /\ \A n \in Nat : Fits(len, x, n) => n <= w
  BY <1>1, <1>2, ReassemblyAssumption DEF BytesIn, Fits
<1>5. IsFiniteSet(R) /\ x \notin R /\ R \subseteq Nat
  BY SecIdxFinite, FS_Subset
<1> HIDE DEF w, len, bytes
<1>6. /\ c[x] = w
      /\ \A y \in R : c[y] = bytes[y]
  BY <1>2, <1>5
<1> HIDE DEF c
<1>7. \A y \in R : bytes[y] \in Int /\ c[y] \in Int
  BY <1>1, <1>6
<1>8. Total(c, R \cup {x}) <= len
  <2>1. PICK n \in Nat : R \cup {x} \in SUBSET (0..(n - 1))
    <3>1. CASE x < MaxSecPerFrame
      <4>1. MaxSecPerFrame \in Nat /\ x \in Nat
        BY <1>2, ReassemblyAssumption
      <4>2. R \cup {x} \in SUBSET (0..(MaxSecPerFrame - 1))
        BY <3>1, <4>1 DEF SecIdx
      <4> QED
        BY <4>1, <4>2
    <3>2. CASE ~(x < MaxSecPerFrame)
      <4>1. x + 1 \in Nat /\ R \cup {x} \in SUBSET (0..((x + 1) - 1))
        BY <1>2, <3>2, ReassemblyAssumption DEF SecIdx
      <4> QED
        BY <4>1
    <3> QED
      BY <3>1, <3>2
  <2>2. \A y \in R \cup {x} : Fits(len, y, c[y])
    BY <1>3, <1>4, <1>6
  <2> HIDE DEF R
  <2> QED
    BY <1>1, <2>1, <2>2, TotalAtMost
<1>9. Total(c, R \cup {x}) = w + Total(bytes, R)
  <2> DEFINE T == R \cup {x}
  <2>1. IsFiniteSet(T) /\ x \in T /\ T \ {x} = R
    BY <1>5, FS_AddElement
  <2>2. \A y \in T : c[y] \in Int
    BY <1>4, <1>6, <1>7
  <2> HIDE DEF T, R
  <2>3. Total(c, T) = c[x] + Total(c, T \ {x})
    BY <2>1, <2>2, TotalRemove
  <2>4. Total(c, R) = Total(bytes, R)
    BY <1>5, <1>6, TotalSame
  <2> QED
    BY <1>6, <2>1, <2>3, <2>4 DEF T
<1>10. Total(bytes, R) \in Int
  BY <1>5, <1>7, TotalInt
<1>11. Total(bytes, SecIdx) = len
  BY <1>1, <1>3, BytesOfIsTotal
<1>12. x \in SecIdx
  <2> SUFFICES ASSUME x \notin SecIdx PROVE FALSE
    OBVIOUS
  <2>1. R = SecIdx
    OBVIOUS
  <2> HIDE DEF R
  <2>2. w + len <= len
    BY <1>8, <1>9, <1>11, <2>1
  <2> QED
    BY <1>1, <1>4, <2>2
<1>13. Total(bytes, SecIdx) = bytes[x] + Total(bytes, R)
  <2>1. IsFiniteSet(SecIdx) /\ \A y \in SecIdx : bytes[y] \in Int
    BY <1>1, SecIdxFinite
  <2>2. Total(bytes, SecIdx) = bytes[x] + Total(bytes, SecIdx \ {x})
    BY <1>12, <2>1, TotalRemove
  <2> QED
    BY <2>2 DEF R
<1>14. bytes[x] \in Nat /\ bytes[x] <= w
  BY <1>1, <1>3, <1>4, <1>12
<1> HIDE DEF R
<1>15. bytes[x] = w
  BY <1>1, <1>4, <1>8, <1>9, <1>10, <1>11, <1>13, <1>14
<1> QED
  BY <1>12, <1>15 DEF bytes, w, len

\* OnlyWholeFramesUnlessAllowed, of a step.
FeedsWhole ==
    Len(appsrc') > Len(appsrc) /\ ~allowPushIncomplete
      => LET b == appsrc'[Len(appsrc')] IN
         \A sec \in SectionsOf(b.len) : sec \in SecIdx /\ b.bytes[sec] = BytesIn(b.len, sec)

\* Without leave to push incomplete frames, only whole ones are pushed, with
\* every section in its place, though the code compares two byte counts only.
THEOREM DecoderGetsWholeFrames == Spec => OnlyWholeFramesUnlessAllowed
<1>1. IInv /\ SlotsCounted(rFrames) /\ [Next]_vars => [FeedsWhole]_vars
  <2> SUFFICES ASSUME IInv, SlotsCounted(rFrames), [Next]_vars,
                      Len(appsrc') > Len(appsrc), ~allowPushIncomplete
               PROVE  LET b == appsrc'[Len(appsrc')] IN
                      \A sec \in SectionsOf(b.len) : sec \in SecIdx /\ b.bytes[sec] = BytesIn(b.len, sec)
    BY DEF FeedsWhole
  <2>1. Feeds
    BY StepCounted
  <2>2. appsrc \in Seq(BufferType) /\ Len(appsrc) \in Nat
    BY DEF IInv, TypeOK, BufferType
  <2>3. PICK b \in BufferType : appsrc' = Append(appsrc, b) /\ Whole(b)
    <3>1. appsrc' \notin {appsrc, <<>>} /\ ~(appsrc # <<>> /\ appsrc' = Tail(appsrc))
      BY <2>2
    <3> QED
      BY <2>1, <3>1 DEF Feeds
  <2>4. appsrc'[Len(appsrc')] = b
    BY <2>2, <2>3
  <2> QED
    BY <2>3, <2>4, WholeHasNoHole
<1>2. Spec => [][FeedsWhole]_vars
  BY <1>1, SpecCounted, PTL DEF Spec
<1> QED
  BY <1>2 DEF OnlyWholeFramesUnlessAllowed, FeedsWhole
-----------------------------------------------------------------------------
(***************************************************************************)
(* Copies stay in their buffers while a sender keeps to one length for an  *)
(* index.                                                                  *)
(***************************************************************************)

\* Every section begins in its frame, and no index comes with two lengths.
OneLengthPerIndex ==
    \A p, q \in Packets : Offset(p.sec) <= p.len /\ (p.idx = q.idx => p.len = q.len)

\* The length of a slot is the one its frame was sent with.
LengthSent(slot) ==
    IsOccupied(slot) => \E p \in Packets : p.idx = slot.frameIdx /\ p.len = slot.len

LengthsSent(ss) == \A s \in Slots : LengthSent(ss[s])

\* A section that begins in the frame does not overrun.
LEMMA InsideNoOverrun ==
  ASSUME NEW slot \in SlotType, NEW p \in Packets, Offset(p.sec) <= slot.len
  PROVE  ~Overruns(slot, p)
<1> SUFFICES ASSUME Fillable(slot, p) PROVE ~(CopySize(slot, p) > p.payload)
  BY DEF Overruns
<1> DEFINE off == Offset(p.sec)
           len == slot.len
<1>1. /\ p.sec \in Nat /\ p.sec + 1 <= MaxSecPerFrame /\ p.payload \in Nat /\ len \in Nat
      /\ p.payload <= PayloadSize /\ off <= len
      /\ PayloadSize \in Nat /\ MaxSecPerFrame \in Nat /\ U32 \in Nat
      /\ MaxSecPerFrame * PayloadSize < U32
  BY ReassemblyAssumption DEF Fillable, SecIdx, PacketType, SlotType
<1>2. off \in Nat /\ off + PayloadSize < U32
  BY <1>1, OffsetInU32
<1>3. CopySize(slot, p) = IF off + p.payload > len THEN (len - off) % U32 ELSE p.payload
  BY DEF CopySize
<1> HIDE DEF off, len
<1>4. CASE off + p.payload > len
  <2>1. len - off \in 0..(U32 - 1) /\ len - off < p.payload
    BY <1>1, <1>2, <1>4
  <2>2. (len - off) % U32 = len - off
    BY <1>1, <1>2, <2>1, RemainderIsUnique
  <2> QED
    BY <1>1, <1>3, <1>4, <2>1, <2>2
<1> QED
  BY <1>1, <1>3, <1>4

LEMMA EmptySlotSent == LengthSent(EmptySlot)
BY DEF LengthSent, EmptySlot, IsOccupied

LEMMA FillSlotSent ==
  ASSUME OneLengthPerIndex,
         NEW list, NEW ss \in SlotArray, LengthsSent(ss), NEW s \in Slots, NEW p \in Packets, NEW last,
         NEW slot \in SlotType, slot.frame \in Frames, LengthSent(slot), slot.frameIdx = p.idx,
         FillSlot(p, s, slot, ss, list, last)
  PROVE  LengthsSent(rFrames') /\ crashed' = FALSE
<1> DEFINE filled == Filled(slot, p)
<1>1. PICK q \in Packets : q.idx = p.idx /\ q.len = slot.len
  BY FramesAssumption DEF LengthSent, IsOccupied
<1>2. Offset(p.sec) <= slot.len
  BY <1>1 DEF OneLengthPerIndex
<1>3. ~Overruns(slot, p)
  BY <1>2, InsideNoOverrun
<1>4. filled.frameIdx = slot.frameIdx /\ filled.len = slot.len
  BY DEF Filled, SlotType
<1>5. LengthSent(filled)
  BY <1>1, <1>4 DEF LengthSent
<1>6. /\ crashed' = FALSE
      /\ rFrames' = [ss EXCEPT ![s] = EmptySlot] \/ rFrames' = [ss EXCEPT ![s] = filled]
  BY <1>3 DEF FillSlot
<1> HIDE DEF filled
<1> QED
  BY <1>5, <1>6, EmptySlotSent DEF LengthsSent, SlotArray

LEMMA PlacePacketSent ==
  ASSUME OneLengthPerIndex, crashed = FALSE,
         NEW list, NEW ss \in SlotArray, LengthsSent(ss), NEW p \in Packets, NEW last,
         PlacePacket(p, ss, list, last)
  PROVE  LengthsSent(rFrames') /\ crashed' = FALSE
<1>1. PICK s \in FindReAsmSlot(ss, p.idx) : PlacePacket(p, ss, list, last)!(s)
  BY DEF PlacePacket
<1>2. s \in Slots /\ ss[s] \in SlotType /\ LengthSent(ss[s])
  BY FindReAsmSlotType DEF SlotArray, LengthsSent
<1>3. CASE IsOccupied(ss[s]) /\ ss[s].frameIdx = p.idx
  <2>1. ss[s].frame \in Frames
    BY <1>2, <1>3 DEF IsOccupied, SlotType
  <2> QED
    BY <1>1, <1>2, <1>3, <2>1, FillSlotSent
<1>4. CASE rFrames' = [ss EXCEPT ![s] = EmptySlot] /\ crashed' = crashed
  BY <1>2, <1>4, EmptySlotSent DEF LengthsSent, SlotArray
<1>5. CASE \E f \in Frames : \E list2 : FillSlot(p, s, NewSlot(f, p), ss, list2, last)
  <2>1. PICK f \in Frames : \E list2 : FillSlot(p, s, NewSlot(f, p), ss, list2, last)
    BY <1>5
  <2>2. PICK list2 : FillSlot(p, s, NewSlot(f, p), ss, list2, last)
    BY <2>1
  <2> DEFINE slot == NewSlot(f, p)
  <2>3. slot \in SlotType /\ slot.frame = f /\ slot.frameIdx = p.idx /\ slot.len = p.len
    <3>1. EmptySlot \in SlotType
      BY ReassemblyAssumption DEF EmptySlot, SlotType, FrameIdx
    <3> QED
      BY <3>1, ReassemblyAssumption DEF NewSlot, SlotType, PacketType, EmptySlot
  <2>4. FillSlot(p, s, slot, ss, list2, last)
    BY <2>2
  <2> HIDE DEF slot
  <2>5. LengthSent(slot)
    BY <2>3 DEF LengthSent
  <2> QED
    BY <1>2, <2>3, <2>4, <2>5, FillSlotSent
<1> QED
  BY <1>1, <1>3, <1>4, <1>5 DEF Available

LEMMA StepSent ==
  ASSUME OneLengthPerIndex, IInv, LengthsSent(rFrames), crashed = FALSE, [Next]_vars
  PROVE  LengthsSent(rFrames') /\ crashed' = FALSE
<1>1. rFrames \in SlotArray
  BY DEF IInv, TypeOK, SlotArray
<1>2. CASE \E p \in Packets : AcceptPacket(p)
  <2>1. PICK p \in Packets : AcceptPacket(p)
    BY <1>2
  <2> DEFINE cleared == [s \in Slots |-> EmptySlot]
  <2>2. cleared \in SlotArray
    BY ReassemblyAssumption DEF SlotArray, EmptySlot, SlotType, FrameIdx
  <2>3. LengthsSent(cleared)
    BY EmptySlotSent DEF LengthsSent
  <2> HIDE DEF cleared
  <2>4. \E list, last :
          PlacePacket(p, cleared, list, last) \/ PlacePacket(p, rFrames, list, last)
    BY <2>1 DEF AcceptPacket, cleared
  <2> QED
    BY <1>1, <2>2, <2>3, <2>4, PlacePacketSent
<1>3. CASE ScanSlot
  <2>1. PICK s \in First(scanTodo) : rFrames' = [rFrames EXCEPT ![s] = EmptySlot]
    BY <1>3 DEF ScanSlot
  <2>2. s \in Slots /\ crashed' = crashed
    BY <1>3 DEF First, IInv, TypeOK, ScanSlot
  <2> QED
    BY <1>1, <2>1, <2>2, EmptySlotSent DEF LengthsSent, SlotArray
<1>4. CASE Tick
  <2>1. \A s \in Slots : /\ rFrames'[s].frame = rFrames[s].frame /\ rFrames'[s].len = rFrames[s].len
                         /\ rFrames'[s].frameIdx = rFrames[s].frameIdx
    BY <1>1, <1>4 DEF Tick, SlotArray, SlotType
  <2>2. crashed' = crashed
    BY <1>4 DEF Tick
  <2> QED
    BY <2>1, <2>2 DEF LengthsSent, LengthSent, IsOccupied
<1>5. CASE UNCHANGED <<rFrames, crashed>>
  BY <1>5
<1> QED
  BY <1>2, <1>3, <1>4, <1>5
     DEF Next, RecvThreadNext, OnPacketRecv, IgnorePacket, DropLatePacket, BeginScan,
         AllowPushIncompleteFrames, Gone, vars, reasmVars

\* No copy leaves its buffers as long as every section begins in its frame and
\* no index comes with two lengths, whatever is lost, duplicated, reordered or
\* cut short.  fill() itself makes sure of neither: a sender that starts again
\* may break the second.
THEOREM CopiesStayWithOneLength ==
  ASSUME OneLengthPerIndex
  PROVE  Spec => []CopiesStayInFrame
<1>1. Init => LengthsSent(rFrames) /\ crashed = FALSE
  BY EmptySlotSent DEF Init, ReassemblyInit, LengthsSent
<1>2. IInv /\ LengthsSent(rFrames) /\ crashed = FALSE /\ [Next]_vars
      => LengthsSent(rFrames)' /\ (crashed = FALSE)'
  BY StepSent
<1>3. crashed = FALSE => CopiesStayInFrame
  BY DEF CopiesStayInFrame
<1> QED
  BY <1>1, <1>2, <1>3, SpecIInv, PTL DEF Spec
=============================================================================
