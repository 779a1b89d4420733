---------------------------- MODULE MCConnService ----------------------------
(***************************************************************************)
(* Two ids, of which one is a hero's: only it has the topic of the video   *)
(* bytes.                                                                  *)
(***************************************************************************)
EXTENDS ConnService

MCTopicsOf == [i \in Ids |-> IF i = "hero" THEN {"bytes"} ELSE {}]
=============================================================================
