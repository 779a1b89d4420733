---------------------------- MODULE ClientSignals ----------------------------
(***************************************************************************)
(* What an MQTT client tells the program about its connection: a failure   *)
(* is told before the first connection only, a connection is told once     *)
(* until its loss is, and a loss only after its connection.  The adapter,  *)
(* the services and the models follow the connection through these three   *)
(* signals and nothing else, so this order is what they rest on.           *)
(***************************************************************************)
EXTENDS SignalOrder

VARIABLE told       \* the last signal

Init == told = "nothing"

Tell(signal) == MayFollow(told, signal) /\ told' = signal

Next == \E signal \in Signals : Tell(signal)

Spec == Init /\ [][Next]_told
=============================================================================
