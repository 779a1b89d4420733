------------------------------ MODULE FramePool ------------------------------
(***************************************************************************)
(* TFramePool: a fixed set of frame buffers and the lock-free list of the  *)
(* indices that are free.  The reassembler's thread takes an index out of  *)
(* the list; whoever destroys a FrameData (the reassembler, or a streaming *)
(* thread of the media pipeline) puts it back.                             *)
(*                                                                         *)
(* The list is a bag, not a set: nothing in the code keeps an index from   *)
(* being put back twice, so the model must be able to show it.  The queue  *)
(* orders the indices of one producer only, so any index in the list may   *)
(* be the next one taken.                                                  *)
(***************************************************************************)
EXTENDS Naturals, FiniteSets

CONSTANTS
    Frames,     \* the indices 0 .. poolSize - 1
    NoFrame     \* what an empty FrameData holds

ASSUME FramesAssumption == IsFiniteSet(Frames) /\ NoFrame \notin Frames

VARIABLE
    freeIdxList \* how many times each index occurs in the free list

PoolTypeOK == freeIdxList \in [Frames -> Nat]

PoolInit == freeIdxList = [f \in Frames |-> 1]

\* The indices acquire() may return when the free list is `list`.
Available(list) == {f \in Frames : list[f] > 0}

\* acquire() returned f.
Taken(list, f) == [list EXCEPT ![f] = @ - 1]

\* A FrameData moved over without giving up the index it held.
RestoredLeak(list, F) == list

\* The FrameData objects holding the indices F were destroyed.
Restored(list, F) == [f \in Frames |-> IF f \in F THEN list[f] + 1 ELSE list[f]]
=============================================================================
