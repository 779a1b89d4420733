----------------------------- MODULE MCScheduler -----------------------------
(***************************************************************************)
(* An instance of Scheduler: a task of period 1 and one of period 2, and a *)
(* clock that goes far enough for the first to be four turns behind.       *)
(***************************************************************************)
EXTENDS Scheduler

MCInterval == [h \in 1..2 |-> h]
=============================================================================
