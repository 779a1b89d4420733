-------------------------- MODULE MCInputDispatcher --------------------------
(***************************************************************************)
(* One key, one owner of blocks, two bindings.                             *)
(***************************************************************************)
EXTENDS InputDispatcher
=============================================================================
