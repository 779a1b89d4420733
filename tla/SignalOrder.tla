----------------------------- MODULE SignalOrder -----------------------------
(***************************************************************************)
(* The three signals about a client's connection, and which may follow     *)
(* which.                                                                  *)
(***************************************************************************)

Signals == {"nothing", "connected", "lost", "failed"}

MayFollow(last, signal) ==
    \/ signal = "failed" /\ last = "nothing"
    \/ signal = "connected" /\ last # "connected"
    \/ signal = "lost" /\ last = "connected"
=============================================================================
