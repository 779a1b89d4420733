---------------------------- MODULE MCMqttClient ----------------------------
(***************************************************************************)
(* Two topics, which are interchangeable, and three connections.           *)
(***************************************************************************)
EXTENDS MqttClient
=============================================================================
