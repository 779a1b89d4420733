---------------------------- MODULE ClientSession ----------------------------
(***************************************************************************)
(* What the adapter promises to the models and services: they hear of the  *)
(* client that is bound and of no client before it, and they hear what it  *)
(* says in the order it said it, nothing twice.                            *)
(***************************************************************************)
EXTENDS Naturals

VARIABLES
    gen,        \* the client that is bound
    last        \* what was heard last: of which client, and which of its events

Init == gen = 0 /\ last = [gen |-> 0, nr |-> 0]

\* A client is bound, or the adapter is closed and there is none.
Rebind == gen' > gen /\ UNCHANGED last

Hear ==
    /\ gen > 0
    /\ last' = [gen |-> gen, nr |-> last'.nr]
    /\ last'.nr > IF last.gen = gen THEN last.nr ELSE 0
    /\ UNCHANGED gen

Next == Rebind \/ Hear

Spec == Init /\ [][Next]_<<gen, last>>
=============================================================================
