--------------------------- MODULE FrameOwnership ---------------------------
(***************************************************************************)
(* What the pool, the reassembler and the renderer promise together about  *)
(* a frame buffer: it has one owner at a time.  A free buffer goes to the  *)
(* reassembler before anyone else, the pipeline gets a buffer from the     *)
(* reassembler only, and the pipeline never gives one back to it.  So a    *)
(* buffer a decoder may be reading is never one a datagram is copied into. *)
(***************************************************************************)
EXTENDS Naturals

CONSTANT Frames

VARIABLE owner

Owners == {"pool", "reassembly", "pipeline"}

Init == owner = [f \in Frames |-> "pool"]

Give(F, o) == [f \in Frames |-> IF f \in F THEN o ELSE owner[f]]

OwnedBy(o) == {f \in Frames : owner[f] = o}

\* One call of the reassembler: it gives back the frames in `dropped`, takes
\* at most one, which may be one of these, and hands over at most one.
Reassemble ==
    \E dropped \in SUBSET OwnedBy("reassembly") :
      \E taken \in SUBSET (OwnedBy("pool") \cup dropped) :
        \E pushed \in SUBSET ((OwnedBy("reassembly") \ dropped) \cup taken) :
          /\ \A f, g \in taken : f = g
          /\ \A f, g \in pushed : f = g
          /\ owner' = [f \in Frames |->
                CASE f \in pushed -> "pipeline"
                  [] f \in taken \ pushed -> "reassembly"
                  [] f \in dropped \ taken -> "pool"
                  [] OTHER -> owner[f]]

\* The pipeline drops its references to the frames F.
PipelineDrops ==
    \E F \in SUBSET OwnedBy("pipeline") : owner' = Give(F, "pool")

Next == Reassemble \/ PipelineDrops

Spec == Init /\ [][Next]_owner
=============================================================================
