---------------------------- MODULE MCRecvThread ----------------------------
(***************************************************************************)
(* An instance of RecvThread.  Two threads are enough: start() needs an    *)
(* unused one only when no thread is left that was not joined, and a       *)
(* second one is there to show it if that were not so.                     *)
(***************************************************************************)
EXTENDS RecvThread

CONSTANTS t1, t2

MCThreads == {t1, t2}

=============================================================================
