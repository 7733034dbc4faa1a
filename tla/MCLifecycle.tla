---------------------------- MODULE MCLifecycle ----------------------------
(***************************************************************************)
(* Nodes for the model checker: a keyboard with two, a mouse with one.     *)
(***************************************************************************)
EXTENDS Lifecycle

CONSTANTS event0, event1, event2, keyboard, mouse

BaseNames ==
  [e \in Nodes |-> IF e \in {event0, event1} THEN keyboard ELSE mouse]

=============================================================================
