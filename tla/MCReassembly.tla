---------------------------- MODULE MCReassembly ----------------------------
(***************************************************************************)
(* A small instance of Reassembly: six frame indices, so that a frame can  *)
(* be up to two ahead and three behind; frames 5 and 0 have two sections,  *)
(* the second one padded, and are large; the others have a single section  *)
(* and are small.                                                          *)
(***************************************************************************)
EXTENDS Reassembly, TLC

CONSTANTS f1, f2, f3

MCFrames == {f1, f2, f3}

LenOf(i) == IF i \in {0, 5} THEN 3 ELSE 1

Datagram(i, j, n, b) == [idx |-> i, sec |-> j, len |-> n, payload |-> b]

\* What the sender sends.
SentPackets ==
    {Datagram(i, 0, LenOf(i), PayloadSize) : i \in FrameIdx}
      \cup {Datagram(i, 1, LenOf(i), PayloadSize) : i \in {0, 5}}

\* A header with a single byte after it, a section of a longer frame of the same
\* index, and a frame that no buffer holds.
OddPackets ==
    {Datagram(0, 0, 3, 1), Datagram(0, 2, 5, PayloadSize), Datagram(3, 0, SlotLen + 1, PayloadSize)}

MCPackets == SentPackets \cup OddPackets

\* A sender that repeats its last two frames, and a bare header among them.
StuckPackets == {p \in MCPackets : p.idx \in {4, 5} \/ p.len > SlotLen} \cup {Datagram(4, 0, 1, 0)}

Symmetry == Permutations(MCFrames)
=============================================================================
