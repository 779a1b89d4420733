----------------------------- MODULE MCBotStatus -----------------------------
(***************************************************************************)
(* Three bindings, a press of three ticks, and restarts two ticks apart.   *)
(***************************************************************************)
EXTENDS BotStatus
=============================================================================
